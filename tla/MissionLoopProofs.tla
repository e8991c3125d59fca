------------------------- MODULE MissionLoopProofs -------------------------
(***************************************************************************)
(* What one tick of the mission tree does to the memory, the blackboard    *)
(* and the commands, the inductive invariant of the mission loop, and the  *)
(* properties that follow from it: for any sets of interceptors and tracks *)
(* and any timeout, stability and cooldown lengths.                        *)
(***************************************************************************)
EXTENDS MissionLoop, TLAPS

-----------------------------------------------------------------------------
(***************************************************************************)
(* What the opening of a tick makes of the memory.                         *)
(***************************************************************************)

\* What the interceptors hold are pairs of an interceptor and its target.
LEMMA HeldPairs ==
  ASSUME InterceptorsTypeOK
  PROVE  \A p : p \in Held <=> p \in Pair /\ target[p.interceptor] = p.track
BY InterceptorsAssumption
   DEF Held, Idle, Engaged, Pair, InterceptorsTypeOK

\* The claim on a claimed track is a pair with that track, and comes from an
\* interceptor when there is one on it.
LEMMA ClaimIsPair ==
  ASSUME InterceptorsTypeOK, TreeTypeOK, NEW t \in ClaimedTracks
  PROVE  /\ ClaimOn(t) \in Pair
         /\ ClaimOn(t).track = t
         /\ t \in TracksOf(Held) => ClaimOn(t) \in Held
<1>1. CASE t \in TracksOf(Held)
  <2>1. PICK p \in Held : p.track = t
    BY <1>1 DEF TracksOf
  <2>2. ClaimOn(t) \in Held /\ ClaimOn(t).track = t
    BY <1>1, <2>1 DEF ClaimOn
  <2>3. QED
    BY <2>2, HeldPairs
<1>2. CASE t \notin TracksOf(Held)
  <2>1. PICK p \in engagement : p.track = t
    BY <1>2 DEF ClaimedTracks, TracksOf
  <2>2. ClaimOn(t) \in engagement /\ ClaimOn(t).track = t
    BY <1>2, <2>1 DEF ClaimOn
  <2>3. engagement \subseteq Pair
    BY DEF TreeTypeOK
  <2>4. QED
    BY <1>2, <2>2, <2>3
<1>3. QED
  BY <1>1, <1>2

\* The memory's entry for a claimed track.
LEMMA ClaimedIsEntry ==
  ASSUME InterceptorsTypeOK, TreeTypeOK, NEW t \in ClaimedTracks
  PROVE  /\ Claimed(t) \in Entry
         /\ Claimed(t).track = t
         /\ Claimed(t).interceptor = ClaimOn(t).interceptor
<1>1. ClaimOn(t) \in Pair /\ ClaimOn(t).track = t
  BY ClaimIsPair
<1>2. CASE {e \in active : e.track = t} = {}
  BY <1>1, <1>2, TreeAssumption DEF Claimed, NewEntry, Pair, Entry
<1>3. CASE {e \in active : e.track = t} # {}
  <2> DEFINE d == CHOOSE e \in {e \in active : e.track = t} : TRUE
  <2>1. d \in active /\ d.track = t
    BY <1>3
  <2>2. d \in Entry
    BY <2>1 DEF TreeTypeOK
  <2>3. Claimed(t) = [d EXCEPT !.interceptor = ClaimOn(t).interceptor]
    BY <1>3 DEF Claimed
  <2>4. QED
    BY <1>1, <2>1, <2>2, <2>3 DEF Pair, Entry
<1>4. QED
  BY <1>2, <1>3

\* An entry both sides agree on is the refreshed entry of a claimed track.
LEMMA AgreedIsClaimed ==
  ASSUME InterceptorsTypeOK, TreeTypeOK, NEW e \in Reconciled
  PROVE  /\ e \in Entry
         /\ e.track \in TracksOf(Held)
         /\ e = Claimed(e.track)
         /\ Agreed(e)
<1>1. e \in Refreshed /\ Agreed(e)
  BY DEF Reconciled
<1>2. e \in Entry
  BY <1>1, ClaimedIsEntry DEF Refreshed, TreeTypeOK
<1>3. e.interceptor \in Interceptors /\ e.track \in Tracks
  BY <1>2 DEF Entry
<1>4. PairOf(e) \in Held
  BY <1>1, <1>3, HeldPairs DEF Agreed, PairOf, Pair
<1>5. e.track \in TracksOf(Held)
  BY <1>4 DEF TracksOf, PairOf
<1>6. PICK t \in ClaimedTracks : e = Claimed(t)
  BY <1>1, <1>5 DEF Refreshed, ClaimedTracks
<1>7. QED
  BY <1>1, <1>2, <1>5, <1>6, ClaimedIsEntry

\* The maintained memory is the reconciled one with no missing ticks: the
\* grace period has nothing to work on.
LEMMA MaintainedEntries ==
  ASSUME InterceptorsTypeOK, TreeTypeOK
  PROVE  /\ Lapsed = {}
         /\ Maintained = {[e EXCEPT !.missing = 0] : e \in Reconciled}
         /\ \A e \in Maintained :
              e \in Entry /\ e.missing = 0 /\ Tracked(e.track) /\ PairOf(e) \in Held
         /\ \A e, f \in Maintained : Conflict(e, f) => e = f
         /\ Maintained # {} <=> MaintainedEngagement
<1>1. \A e \in Reconciled : Agreed(e) /\ e \in Entry /\ e = Claimed(e.track)
  BY AgreedIsClaimed
<1>2. Lapsed = {}
  BY <1>1 DEF Lapsed
<1>3. Maintained = {[e EXCEPT !.missing = 0] : e \in Reconciled}
  BY <1>1, <1>2 DEF Maintained
<1>4. ASSUME NEW e \in Maintained
      PROVE  e \in Entry /\ e.missing = 0 /\ Tracked(e.track) /\ PairOf(e) \in Held
  <2>1. PICK d \in Reconciled : e = [d EXCEPT !.missing = 0]
    BY <1>3
  <2>2. d \in Entry /\ Agreed(d)
    BY <1>1
  <2>3. e \in Entry /\ e.missing = 0 /\ e.track = d.track /\ e.interceptor = d.interceptor
    BY <2>1, <2>2, TreeAssumption DEF Entry
  <2>4. QED
    BY <2>2, <2>3, HeldPairs DEF Agreed, PairOf, Pair, Entry
<1>5. ASSUME NEW e \in Maintained, NEW f \in Maintained, Conflict(e, f)
      PROVE  e = f
  <2>1. PICK c \in Reconciled : e = [c EXCEPT !.missing = 0]
    BY <1>3
  <2>2. PICK d \in Reconciled : f = [d EXCEPT !.missing = 0]
    BY <1>3
  <2>3. e.track = c.track /\ f.track = d.track
    BY <1>1, <2>1, <2>2 DEF Entry
  <2>4. target[e.interceptor] = e.track /\ target[f.interceptor] = f.track
    <3>1. PairOf(e) \in Held /\ PairOf(f) \in Held
      BY <1>4
    <3>2. QED
      BY <3>1, HeldPairs DEF PairOf
  <2>5. QED
    BY <1>1, <1>5, <2>1, <2>2, <2>3, <2>4 DEF Conflict
<1>6. Maintained # {} <=> MaintainedEngagement
  BY <1>1, <1>3 DEF MaintainedEngagement
<1>7. QED
  BY <1>2, <1>3, <1>4, <1>5, <1>6

\* Every interceptor whose track is still there is in the maintained memory.
LEMMA HeldIsMaintained ==
  ASSUME InterceptorsTypeOK, TreeTypeOK, NEW p \in Held, Tracked(p.track)
  PROVE  /\ p.track \in TracksOf(Maintained)
         /\ NoSharedTarget => p \in {PairOf(e) : e \in Maintained}
<1> DEFINE c == Claimed(p.track)
<1> DEFINE m == [c EXCEPT !.missing = 0]
<1>1. p.track \in TracksOf(Held) /\ p.track \in ClaimedTracks
  BY DEF TracksOf, ClaimedTracks
<1>2. c \in Entry /\ c.track = p.track /\ c.interceptor = ClaimOn(p.track).interceptor
  BY <1>1, ClaimedIsEntry
<1>3. ClaimOn(p.track) \in Held /\ ClaimOn(p.track).track = p.track
  BY <1>1, ClaimIsPair
<1>4. Agreed(c)
  BY <1>2, <1>3, HeldPairs DEF Agreed
<1>5. c \in Reconciled
  BY <1>1, <1>4 DEF Reconciled, Refreshed
<1>6. m \in Maintained
  BY <1>5, MaintainedEntries
<1>7. m.track = p.track /\ m.interceptor = c.interceptor
  BY <1>2 DEF Entry
<1>8. p.track \in TracksOf(Maintained)
  BY <1>6, <1>7 DEF TracksOf
<1>9. ASSUME NoSharedTarget
      PROVE  p \in {PairOf(e) : e \in Maintained}
  <2>1. p \in Pair /\ ClaimOn(p.track) \in Pair
    BY <1>3, HeldPairs
  <2>2. p.interceptor = ClaimOn(p.track).interceptor
    BY <1>3, <1>9, <2>1, HeldPairs, InterceptorsAssumption
    DEF NoSharedTarget, Engaged, Pair
  <2>3. PairOf(m) = p
    BY <1>2, <1>7, <2>1, <2>2 DEF PairOf, Pair
  <2>4. QED
    BY <1>6, <2>3
<1>10. QED
  BY <1>8, <1>9

\* The branches of the engage sequence that start or maintain an engagement are
\* never taken: a track that gets that far is not held by any interceptor, and
\* no interceptor is idle.  For finite scores, the code after the stability
\* gate can only deny the track.
LEMMA NoFallbackAssignment ==
  ASSUME InterceptorsTypeOK, TreeTypeOK, NEW healthy,
         ~MaintainedEngagement, Orders(healthy) = {},
         NEW best \in ConfirmedTracks, Engageable(best, healthy)
  PROVE  Idle = {} /\ best \notin TracksOf(Held)
<1>1. Maintained = {}
  BY MaintainedEntries
<1>2. best \in Tracks /\ Tracked(best)
  BY DEF ConfirmedTracks, Confirmed, Tracked
<1>3. best \in Open(healthy)
  BY <1>1, <1>2 DEF Open, TracksOf
<1>4. ASSUME NEW i \in Idle
      PROVE  FALSE
  <2>1. [interceptor |-> i, track |-> best] \in Pair
    BY <1>2 DEF Pair, Idle
  <2>2. [interceptor |-> i, track |-> best] \in Orders(healthy)
    BY <1>3, <2>1 DEF Orders
  <2>3. QED
    BY <2>2
<1>5. ASSUME best \in TracksOf(Held)
      PROVE  FALSE
  <2>1. PICK p \in Held : p.track = best
    BY <1>5 DEF TracksOf
  <2>2. p.track \in TracksOf(Maintained)
    BY <1>2, <2>1, HeldIsMaintained
  <2>3. QED
    BY <1>1, <2>2 DEF TracksOf
<1>6. QED
  BY <1>4, <1>5

-----------------------------------------------------------------------------
(***************************************************************************)
(* What a tick of the tree guarantees, whichever way out it takes.         *)
(***************************************************************************)
TickGuarantee ==
  /\ active' \subseteq Entry
  /\ commands' \subseteq Pair
  /\ engagement' = {} \/ \E p \in Pair : engagement' = {p}
  /\ mode' \in Mode
  /\ denial' \in [track : Tracks \cup {NoTrack}, left : 0..CooldownTicks]
  /\ \A o \in commands' :
       Confirmed(o.track) /\ o.track \notin TracksOf(Held) /\ o \in Remembered'
  /\ \A o, p \in commands' : Conflict(o, p) => o = p
  /\ \A o, p \in commands' : Engaged(o.interceptor) => Idle = {} /\ o = p
  /\ \A e, f \in active' : Conflict(e, f) => e = f
  /\ \A e \in active' : e.missing = 0 /\ Tracked(e.track)
  /\ \A e \in active' : PairOf(e) \in Held \/ Confirmed(e.track)
  /\ \A p \in Held :
       Tracked(p.track) =>
         p \in Remembered' \/ \E o \in commands' : o.interceptor = p.interceptor
  /\ \A p \in engagement' :
       p \in commands' \/ (p \in engagement /\ commands' = {})
  /\ (mode' = "engage") <=> (active' # {})

\* An open track is confirmed and nobody holds it.
LEMMA OpenTracks ==
  ASSUME InterceptorsTypeOK, TreeTypeOK, NEW healthy, NEW t \in Open(healthy)
  PROVE  /\ t \in Tracks
         /\ Confirmed(t)
         /\ Tracked(t)
         /\ t \notin TracksOf(Maintained)
         /\ t \notin TracksOf(Held)
<1>1. t \in Tracks /\ fact[t] = "fit" /\ t \notin TracksOf(Maintained)
  BY DEF Open, Engageable
<1>2. Confirmed(t) /\ Tracked(t)
  BY <1>1 DEF Confirmed, Tracked, Grade
<1>3. t \notin TracksOf(Held)
  BY <1>1, <1>2, HeldIsMaintained DEF TracksOf
<1>4. QED
  BY <1>1, <1>2, <1>3

LEMMA AssignIdleGuarantee ==
  ASSUME InterceptorsTypeOK, TreeTypeOK, NoSharedTarget,
         NEW healthy, AssignIdle(healthy)
  PROVE  TickGuarantee
<1>1. PICK s \in GreedyAssignments(healthy) :
        /\ s # {}
        /\ commands' = s
        /\ active' = Maintained \cup {NewEntry(o) : o \in s}
        /\ \E last \in s : engagement' = {last}
        /\ mode' = "engage"
        /\ UNCHANGED denial
  BY DEF AssignIdle
<1>2. \A o \in s : /\ o \in Pair
                   /\ o.interceptor \in Idle
                   /\ o.track \in Open(healthy)
  BY DEF GreedyAssignments, Orders
<1>3. \A o, p \in s : Conflict(o, p) => o = p
  BY DEF GreedyAssignments
<1>4. \A o \in s : /\ NewEntry(o) \in Entry
                   /\ NewEntry(o).interceptor = o.interceptor
                   /\ NewEntry(o).track = o.track
                   /\ NewEntry(o).missing = 0
                   /\ PairOf(NewEntry(o)) = o
  BY <1>2, TreeAssumption DEF NewEntry, Entry, Pair, PairOf
<1>5. \A o \in s : /\ o.track \in Tracks
                   /\ Confirmed(o.track)
                   /\ Tracked(o.track)
                   /\ o.track \notin TracksOf(Maintained)
                   /\ o.track \notin TracksOf(Held)
  BY <1>2, OpenTracks
<1>6. \A e \in Maintained : /\ e \in Entry
                            /\ e.missing = 0
                            /\ Tracked(e.track)
                            /\ PairOf(e) \in Held
                            /\ e.interceptor \notin Idle
  <2>1. \A e \in Maintained :
          e \in Entry /\ e.missing = 0 /\ Tracked(e.track) /\ PairOf(e) \in Held
    BY MaintainedEntries
  <2>2. ASSUME NEW e \in Maintained
        PROVE  target[e.interceptor] = e.track /\ e.track \in Tracks
    <3>1. target[PairOf(e).interceptor] = PairOf(e).track
      BY <2>1, HeldPairs
    <3>2. QED
      BY <2>1, <3>1 DEF PairOf, Entry
  <2>3. QED
    BY <2>1, <2>2, InterceptorsAssumption DEF Idle, Engaged
<1>7. \A e, f \in active' : Conflict(e, f) => e = f
  <2> SUFFICES ASSUME NEW e \in active', NEW f \in active', Conflict(e, f)
               PROVE  e = f
    OBVIOUS
  <2>1. CASE e \in Maintained /\ f \in Maintained
    BY <2>1, MaintainedEntries
  <2>2. CASE e \in Maintained /\ f \notin Maintained
    BY <1>1, <1>2, <1>4, <1>5, <1>6, <2>2 DEF Conflict, TracksOf
  <2>3. CASE e \notin Maintained /\ f \in Maintained
    BY <1>1, <1>2, <1>4, <1>5, <1>6, <2>3 DEF Conflict, TracksOf
  <2>4. CASE e \notin Maintained /\ f \notin Maintained
    <3>1. PICK o \in s : e = NewEntry(o)
      BY <1>1, <2>4
    <3>2. PICK p \in s : f = NewEntry(p)
      BY <1>1, <2>4
    <3>3. Conflict(o, p)
      BY <1>4, <3>1, <3>2 DEF Conflict
    <3>4. QED
      BY <1>3, <3>1, <3>2, <3>3
  <2>5. QED
    BY <2>1, <2>2, <2>3, <2>4
<1>8. \A o \in s : o \in Remembered'
  BY <1>1, <1>4 DEF Remembered
<1>9. \A p \in Held : Tracked(p.track) => p \in Remembered'
  <2>1. \A p \in Held : Tracked(p.track) => p \in {PairOf(e) : e \in Maintained}
    BY HeldIsMaintained
  <2>2. QED
    BY <1>1, <2>1 DEF Remembered
<1>10. \A o \in s : ~Engaged(o.interceptor)
  BY <1>2 DEF Idle
<1>11. active' \subseteq Entry /\ active' # {}
  BY <1>1, <1>4, <1>6
<1>12. \A e \in active' : /\ e.missing = 0
                          /\ Tracked(e.track)
                          /\ PairOf(e) \in Held \/ Confirmed(e.track)
  BY <1>1, <1>4, <1>5, <1>6
<1>13. denial' \in [track : Tracks \cup {NoTrack}, left : 0..CooldownTicks]
  BY <1>1 DEF TreeTypeOK
<1>14. commands' \subseteq Pair /\ \E p \in Pair : engagement' = {p}
  BY <1>1, <1>2
<1>15. \A p \in engagement' : p \in commands'
  BY <1>1
<1>16. QED
  BY <1>1, <1>3, <1>5, <1>7, <1>8, <1>9, <1>10, <1>11, <1>12, <1>13, <1>14, <1>15
  DEF TickGuarantee, Mode

LEMMA RetaskGuarantee ==
  ASSUME InterceptorsTypeOK, TreeTypeOK, NoSharedTarget,
         NEW healthy, Retask(healthy)
  PROVE  TickGuarantee
<1>1. PICK e \in Maintained, t \in Open(healthy) :
        LET order == [interceptor |-> e.interceptor, track |-> t]
        IN  /\ commands' = {order}
            /\ active' = (Maintained \ {e}) \cup {NewEntry(order)}
            /\ engagement' = {order}
  BY DEF Retask
<1> DEFINE order == [interceptor |-> e.interceptor, track |-> t]
<1> DEFINE new == NewEntry(order)
<1>2. Idle = {} /\ mode' = "engage" /\ denial' = denial
  BY DEF Retask
<1>3. /\ commands' = {order}
      /\ active' = (Maintained \ {e}) \cup {new}
      /\ engagement' = {order}
  BY <1>1
<1>4. \A f \in Maintained :
        /\ f \in Entry
        /\ f.missing = 0
        /\ Tracked(f.track)
        /\ PairOf(f) \in Held
  BY MaintainedEntries
<1>5. /\ t \in Tracks
      /\ Confirmed(t)
      /\ Tracked(t)
      /\ t \notin TracksOf(Maintained)
      /\ t \notin TracksOf(Held)
  BY OpenTracks
<1>6. /\ order \in Pair
      /\ order.interceptor = e.interceptor
      /\ order.track = t
  BY <1>4, <1>5 DEF Pair, Entry
<1>7. /\ new \in Entry
      /\ new.interceptor = e.interceptor
      /\ new.track = t
      /\ new.missing = 0
      /\ PairOf(new) = order
  BY <1>6, TreeAssumption DEF NewEntry, Entry, Pair, PairOf
<1> HIDE DEF order, new
<1>8. \A f, g \in active' : Conflict(f, g) => f = g
  <2>1. \A f, g \in Maintained : Conflict(f, g) => f = g
    BY MaintainedEntries
  <2>2. \A f \in Maintained \ {e} : ~Conflict(f, new) /\ ~Conflict(new, f)
    BY <1>5, <1>7, <2>1 DEF Conflict, TracksOf
  <2>3. QED
    BY <1>3, <2>1, <2>2
<1>9. order \in Remembered'
  BY <1>3, <1>7 DEF Remembered
<1>10. ASSUME NEW p \in Held, Tracked(p.track)
       PROVE  p \in Remembered' \/ \E o \in commands' : o.interceptor = p.interceptor
  <2>1. PICK f \in Maintained : p = PairOf(f)
    BY <1>10, HeldIsMaintained
  <2>2. CASE f = e
    <3>1. p.interceptor = order.interceptor
      BY <1>6, <2>1, <2>2 DEF PairOf
    <3>2. QED
      BY <1>3, <3>1
  <2>3. CASE f # e
    BY <1>3, <2>1, <2>3 DEF Remembered
  <2>4. QED
    BY <2>2, <2>3
<1>11. active' \subseteq Entry /\ active' # {}
  BY <1>3, <1>4, <1>7
<1>12. \A f \in active' : /\ f.missing = 0
                          /\ Tracked(f.track)
                          /\ PairOf(f) \in Held \/ Confirmed(f.track)
  BY <1>3, <1>4, <1>5, <1>7
<1>13. denial' \in [track : Tracks \cup {NoTrack}, left : 0..CooldownTicks]
  BY <1>2 DEF TreeTypeOK
<1>14. QED
  BY <1>2, <1>3, <1>5, <1>6, <1>8, <1>9, <1>10, <1>11, <1>12, <1>13
  DEF TickGuarantee, Mode

\* A tick without commands keeps the maintained memory.
LEMMA KeepGuarantee ==
  ASSUME InterceptorsTypeOK, TreeTypeOK, NoSharedTarget,
         commands' = {}, active' = Maintained, engagement' = EngagementMaintained,
         mode' \in Mode, (mode' = "engage") <=> MaintainedEngagement,
         denial' \in [track : Tracks \cup {NoTrack}, left : 0..CooldownTicks]
  PROVE  TickGuarantee
<1>1. \A e \in active' :
        /\ e \in Entry
        /\ e.missing = 0
        /\ Tracked(e.track)
        /\ PairOf(e) \in Held
  BY MaintainedEntries
<1>2. \A e, f \in active' : Conflict(e, f) => e = f
  BY MaintainedEntries
<1>3. engagement' \subseteq engagement
  BY DEF EngagementMaintained, EngagementReconciled
<1>4. engagement' = {} \/ \E p \in Pair : engagement' = {p}
  BY <1>3 DEF TreeTypeOK
<1>5. \A p \in Held : Tracked(p.track) => p \in Remembered'
  BY HeldIsMaintained DEF Remembered
<1>6. (mode' = "engage") <=> (active' # {})
  BY MaintainedEntries
<1>7. QED
  BY <1>1, <1>2, <1>3, <1>4, <1>5, <1>6 DEF TickGuarantee

LEMMA TickIsGood ==
  ASSUME InterceptorsTypeOK, TreeTypeOK, NoSharedTarget,
         NEW healthy, Tick(healthy)
  PROVE  /\ TickGuarantee
         /\ stable' \in [Tracks -> 0..StableTicks]
         /\ fact' = fact
<1>1. ASSUME AssignIdle(healthy)
      PROVE  TickGuarantee
  BY <1>1, AssignIdleGuarantee
<1>2. ASSUME Retask(healthy)
      PROVE  TickGuarantee
  BY <1>2, RetaskGuarantee
<1>3. ASSUME Hold(healthy)
      PROVE  TickGuarantee
  BY <1>3, KeepGuarantee DEF Hold, Mode, TreeTypeOK
<1>4. ASSUME Deny(healthy)
      PROVE  TickGuarantee
  <2>1. PICK best \in ConfirmedTracks :
          denial' = [track |-> best, left |-> CooldownTicks]
    BY <1>4 DEF Deny
  <2>2. denial' \in [track : Tracks \cup {NoTrack}, left : 0..CooldownTicks]
    BY <2>1, TreeAssumption DEF ConfirmedTracks
  <2>3. QED
    BY <1>4, <2>2, KeepGuarantee DEF Deny, NothingEngaged, Mode
<1>5. ASSUME StandBy(healthy)
      PROVE  TickGuarantee
  BY <1>5, KeepGuarantee DEF StandBy, NothingEngaged, Mode, TreeTypeOK
<1>6. TickGuarantee
  BY <1>1, <1>2, <1>3, <1>4, <1>5 DEF Tick
<1>7. \A t \in Tracks : TicksStable(t) \in 0..StableTicks
  BY TreeAssumption DEF TicksStable, TreeTypeOK
<1>8. QED
  BY <1>6, <1>7 DEF Tick

-----------------------------------------------------------------------------
(***************************************************************************)
(* The loop's invariant.                                                   *)
(***************************************************************************)

\* What IInv says of the steps between the tree and the manager.
LEMMA Handover ==
  ASSUME IInv
  PROVE  /\ pc # "command" => commands = {}
         /\ \A o \in commands : o \in Pair /\ Confirmed(o.track)
BY DEF IInv, CommandsFresh, PositionsCurrent, ConfirmedTracks, TypeOK, TreeTypeOK

\* Before the first pass nothing is engaged, remembered or ordered.
LEMMA InitIsGood == Init => IInv
<1> SUFFICES ASSUME Init PROVE IInv
  OBVIOUS
<1> USE InterceptorsAssumption, TreeAssumption
<1> USE DEF Init, InterceptorsInit, TreeInit
<1>1. TypeOK
  <2>1. InterceptorsTypeOK
    BY DEF InterceptorsTypeOK
  <2>2. denial \in [track : Tracks \cup {NoTrack}, left : 0..CooldownTicks]
    OBVIOUS
  <2>3. TreeTypeOK
    BY <2>2 DEF TreeTypeOK, Mode, Fact
  <2>4. failCounted \in BOOLEAN /\ pc \in Phase
    BY DEF Phase
  <2>5. /\ ledger \in [Interceptors -> Tracks \cup {NoTrack}]
        /\ ledgerAge \in [Interceptors -> 0..(TimeoutTicks + 1)]
    OBVIOUS
  <2>6. QED
    BY <2>1, <2>3, <2>4, <2>5 DEF TypeOK
<1>2. Held = {}
  BY DEF Held, Idle, Engaged
<1>3. PositionsCurrent
  BY DEF PositionsCurrent, ConfirmedTracks, Confirmed, Grade
<1>4. NoSharedTarget /\ MemoryIsOneToOne /\ RetaskOnlyWhenAllBusy /\ CommandsFresh
  BY DEF NoSharedTarget, Engaged, MemoryIsOneToOne, RetaskOnlyWhenAllBusy, CommandsFresh
<1>5. /\ TargetsWereConfirmed /\ TargetsAreConfirmed
      /\ MemoryFollowsInterceptors /\ LedgerFollowsInterceptors
      /\ BlackboardFollowsInterceptors
  BY <1>2 DEF TargetsWereConfirmed, TargetsAreConfirmed, MemoryFollowsInterceptors,
              LedgerFollowsInterceptors, BlackboardFollowsInterceptors
<1>6. ClocksAgree
  BY DEF ClocksAgree, Engaged
<1>7. GraceNeverUsed /\ ModeMatchesMemory /\ TimeoutNeverCounted
  BY DEF GraceNeverUsed, ModeMatchesMemory, TimeoutNeverCounted
<1>8. QED
  BY <1>1, <1>3, <1>4, <1>5, <1>6, <1>7 DEF IInv

\* A step that touches no variable keeps the invariant.
LEMMA StutterIsGood ==
  ASSUME IInv, UNCHANGED vars
  PROVE  IInv'
<1> USE DEF vars, interceptorVars, treeVars, loopVars
<1>1. Held' = Held /\ Idle' = Idle /\ Remembered' = Remembered
  BY DEF Held, Idle, Engaged, Remembered
<1>2. TypeOK'
  BY DEF IInv, TypeOK, InterceptorsTypeOK, TreeTypeOK
<1>3. NoSharedTarget' /\ MemoryIsOneToOne' /\ RetaskOnlyWhenAllBusy' /\ CommandsFresh'
  BY <1>1 DEF IInv, NoSharedTarget, Engaged, MemoryIsOneToOne,
              RetaskOnlyWhenAllBusy, CommandsFresh
<1>4. PositionsCurrent' /\ TargetsWereConfirmed' /\ TargetsAreConfirmed'
  BY <1>1 DEF IInv, PositionsCurrent, ConfirmedTracks, Confirmed,
              TargetsWereConfirmed, TargetsAreConfirmed
<1>5. MemoryFollowsInterceptors' /\ LedgerFollowsInterceptors'
      /\ BlackboardFollowsInterceptors'
  BY <1>1 DEF IInv, MemoryFollowsInterceptors, Confirmed, Tracked, OrdersFor,
              LedgerFollowsInterceptors, BlackboardFollowsInterceptors
<1>6. ClocksAgree'
  BY DEF IInv, ClocksAgree, Engaged
<1>7. GraceNeverUsed' /\ ModeMatchesMemory' /\ TimeoutNeverCounted'
  BY DEF IInv, GraceNeverUsed, ModeMatchesMemory, TimeoutNeverCounted
<1>8. QED
  BY <1>2, <1>3, <1>4, <1>5, <1>6, <1>7 DEF IInv

-----------------------------------------------------------------------------
(***************************************************************************)
(* One lemma per step of the loop.                                         *)
(***************************************************************************)

\* Facts and positions change together; a target that was confirmed can only
\* be confirmed again or be gone.
LEMMA ObserveIsGood ==
  ASSUME IInv, Observe
  PROVE  IInv'
<1>1. /\ pc = "observe" /\ pc' = "decide"
      /\ UNCHANGED <<target, elapsed, engagement, mode, active, stable, commands,
                     ledger, failCounted>>
      /\ positions' = ConfirmedTracks'
      /\ fact' \in [Tracks -> Fact]
      /\ \A t \in Tracks : fact'[t] \in NextFacts(fact[t])
  BY DEF Observe, Goto, UpdateTrackPositions
<1>2. Held' = Held /\ Idle' = Idle /\ Remembered' = Remembered /\ commands = {}
  BY <1>1, Handover DEF Held, Idle, Engaged, Remembered
<1>3. ledger = target /\ Held \subseteq Remembered /\ engagement \subseteq Held
  BY <1>1 DEF IInv, LedgerFollowsInterceptors, MemoryFollowsInterceptors,
              BlackboardFollowsInterceptors
<1>4. ASSUME NEW i \in Interceptors
      PROVE  /\ ledgerAge'[i] = elapsed[i]
             /\ ledgerAge'[i] \in 0..(TimeoutTicks + 1)
             /\ ledger'[i] = NoTrack => ledgerAge'[i] = 0
  <2>1. elapsed[i] \in 0..TimeoutTicks /\ ledgerAge[i] \in 0..(TimeoutTicks + 1)
    BY DEF IInv, TypeOK, InterceptorsTypeOK
  <2>2. ledgerAge'[i] = IF ledger[i] = NoTrack THEN 0 ELSE ledgerAge[i] + 1
    BY DEF Observe
  <2>3. CASE ledger[i] = NoTrack
    <3>1. elapsed[i] = 0
      BY <1>3, <2>3 DEF IInv, ClocksAgree, Engaged
    <3>2. QED
      BY <2>2, <2>3, <3>1, InterceptorsAssumption
  <2>4. CASE ledger[i] # NoTrack
    <3>1. elapsed[i] = ledgerAge[i] + 1
      BY <1>1, <1>3, <2>4 DEF IInv, ClocksAgree, Engaged
    <3>2. QED
      BY <1>1, <2>1, <2>2, <2>4, <3>1, InterceptorsAssumption
  <2>5. QED
    BY <2>3, <2>4
<1>5. TypeOK'
  <2>1. InterceptorsTypeOK'
    BY <1>1 DEF IInv, TypeOK, InterceptorsTypeOK, ConfirmedTracks
  <2>2. denial' \in [track : Tracks \cup {NoTrack}, left : 0..CooldownTicks]
    BY TreeAssumption DEF IInv, TypeOK, TreeTypeOK, Observe
  <2>3. TreeTypeOK'
    BY <1>1, <2>2 DEF IInv, TypeOK, TreeTypeOK
  <2>4. ledgerAge' \in [Interceptors -> 0..(TimeoutTicks + 1)]
    BY <1>4 DEF Observe
  <2>5. QED
    BY <1>1, <2>1, <2>3, <2>4 DEF IInv, TypeOK, Phase
<1>6. TargetsWereConfirmed'
  <2>1. ASSUME NEW p \in Held
        PROVE  fact'[p.track] \in Grade \cup {"gone"}
    <3>1. p.track \in Tracks /\ fact[p.track] \in Grade
      BY <1>1, HeldPairs DEF IInv, TypeOK, Pair, TargetsAreConfirmed, Confirmed
    <3>2. /\ fact'[p.track] \in Fact
          /\ StageOf(fact'[p.track]) \in Lifecycle!NextStage("confirmed")
      BY <1>1, <3>1 DEF NextFacts, StageOf
    <3>3. Lifecycle!NextStage("confirmed") = {"confirmed", "gone"}
      BY DEF Lifecycle!NextStage
    <3>4. QED
      BY <3>2, <3>3 DEF StageOf, Fact, Grade
  <2>2. QED
    BY <1>2, <2>1 DEF TargetsWereConfirmed, Confirmed
<1>7. /\ NoSharedTarget' /\ PositionsCurrent' /\ TargetsAreConfirmed'
      /\ CommandsFresh' /\ RetaskOnlyWhenAllBusy'
  BY <1>1, <1>2 DEF IInv, NoSharedTarget, Engaged, PositionsCurrent,
                    TargetsAreConfirmed, CommandsFresh, RetaskOnlyWhenAllBusy
<1>8. /\ MemoryIsOneToOne' /\ MemoryFollowsInterceptors' /\ GraceNeverUsed'
      /\ ModeMatchesMemory' /\ TimeoutNeverCounted'
  BY <1>1, <1>2, <1>3 DEF IInv, MemoryIsOneToOne, MemoryFollowsInterceptors,
                          GraceNeverUsed, ModeMatchesMemory, TimeoutNeverCounted
<1>9. LedgerFollowsInterceptors' /\ BlackboardFollowsInterceptors'
  BY <1>1, <1>2, <1>3 DEF LedgerFollowsInterceptors, BlackboardFollowsInterceptors
<1>10. ClocksAgree'
  BY <1>1, <1>3, <1>4 DEF IInv, ClocksAgree, Engaged
<1>11. QED
  BY <1>5, <1>6, <1>7, <1>8, <1>9, <1>10 DEF IInv

\* The tick's guarantee is what the hand-over to the manager needs.
LEMMA DecideIsGood ==
  ASSUME IInv, Decide
  PROVE  IInv'
<1>1. /\ pc = "decide" /\ pc' = "command"
      /\ UNCHANGED <<target, elapsed, positions, ledger, ledgerAge, failCounted>>
  BY DEF Decide, Goto, interceptorVars
<1>2. PICK healthy : Tick(healthy)
  BY DEF Decide
<1>3. TickGuarantee /\ stable' \in [Tracks -> 0..StableTicks] /\ fact' = fact
  BY <1>2, TickIsGood DEF IInv, TypeOK
<1>4. Held' = Held /\ Idle' = Idle
  BY <1>1 DEF Held, Idle, Engaged
<1>5. ledger = target /\ engagement \subseteq Held
  BY <1>1 DEF IInv, LedgerFollowsInterceptors, BlackboardFollowsInterceptors
<1>6. TypeOK'
  <2>1. InterceptorsTypeOK'
    BY <1>1 DEF IInv, TypeOK, InterceptorsTypeOK
  <2>2. TreeTypeOK'
    BY <1>3 DEF TickGuarantee, IInv, TypeOK, TreeTypeOK
  <2>3. QED
    BY <1>1, <2>1, <2>2 DEF IInv, TypeOK, Phase
<1>7. CommandsFresh'
  <2>1. ASSUME NEW o \in commands'
        PROVE  o.track \in positions'
    <3>1. o.track \in Tracks /\ Confirmed(o.track)
      BY <1>3, <2>1 DEF TickGuarantee, Pair
    <3>2. QED
      BY <1>1, <3>1 DEF IInv, PositionsCurrent, ConfirmedTracks
  <2>2. \A o \in commands' : o.track \notin TracksOf(Held)' /\ o \in Remembered'
    BY <1>3, <1>4 DEF TickGuarantee, TracksOf
  <2>3. \A o, p \in commands' : Conflict(o, p) => o = p
    BY <1>3 DEF TickGuarantee
  <2>4. QED
    BY <1>1, <2>1, <2>2, <2>3 DEF CommandsFresh
<1>8. MemoryFollowsInterceptors'
  <2>1. \A p \in Held :
          Tracked(p.track) =>
            p \in Remembered' \/ \E o \in commands' : o.interceptor = p.interceptor
    BY <1>3 DEF TickGuarantee
  <2>2. ASSUME NEW e \in active'
        PROVE  Confirmed(e.track)
    <3>1. Tracked(e.track) /\ (PairOf(e) \in Held \/ Confirmed(e.track))
      BY <1>3, <2>2 DEF TickGuarantee
    <3>2. PairOf(e) \in Held => Confirmed(e.track) \/ fact[e.track] = "gone"
      BY DEF IInv, TargetsWereConfirmed, PairOf
    <3>3. QED
      BY <3>1, <3>2 DEF Tracked, Grade
  <2>3. QED
    BY <1>1, <1>3, <1>4, <2>1, <2>2
    DEF MemoryFollowsInterceptors, Tracked, Confirmed, OrdersFor
<1>9. BlackboardFollowsInterceptors'
  <2>1. ASSUME NEW p \in engagement'
        PROVE  p \in commands' \/ (p \in Held /\ commands' = {})
    BY <1>3, <1>5, <2>1 DEF TickGuarantee
  <2>2. QED
    BY <1>1, <1>4, <2>1 DEF BlackboardFollowsInterceptors, OrdersFor
<1>10. /\ MemoryIsOneToOne' /\ GraceNeverUsed' /\ ModeMatchesMemory'
       /\ RetaskOnlyWhenAllBusy'
  <2>1. MemoryIsOneToOne' /\ GraceNeverUsed' /\ ModeMatchesMemory'
    BY <1>3 DEF TickGuarantee, MemoryIsOneToOne, GraceNeverUsed, ModeMatchesMemory
  <2>2. \A o, p \in commands' : Engaged(o.interceptor) => Idle = {} /\ o = p
    BY <1>3 DEF TickGuarantee
  <2>3. QED
    BY <1>1, <1>4, <2>1, <2>2 DEF RetaskOnlyWhenAllBusy, Engaged
<1>11. NoSharedTarget' /\ PositionsCurrent' /\ TimeoutNeverCounted'
  BY <1>1, <1>3 DEF IInv, NoSharedTarget, Engaged, PositionsCurrent,
                    ConfirmedTracks, Confirmed, TimeoutNeverCounted
<1>12. TargetsWereConfirmed' /\ TargetsAreConfirmed'
  BY <1>1, <1>3, <1>4 DEF IInv, TargetsWereConfirmed, TargetsAreConfirmed, Confirmed
<1>13. LedgerFollowsInterceptors' /\ ClocksAgree'
  BY <1>1, <1>5 DEF IInv, LedgerFollowsInterceptors, ClocksAgree, Engaged
<1>14. QED
  BY <1>6, <1>7, <1>8, <1>9, <1>10, <1>11, <1>12, <1>13 DEF IInv

\* The manager accepts every command, since the tree orders interceptors only to
\* tracks it knows a position of; so ledger and manager record the same target.
LEMMA CommandIsGood ==
  ASSUME IInv, Command
  PROVE  IInv'
<1> DEFINE order(i) == CHOOSE o \in OrdersFor(i) : TRUE
<1> DEFINE Kept == {i \in Interceptors : OrdersFor(i) = {}}
<1>1. /\ pc = "command" /\ pc' = "fly" /\ commands' = {}
      /\ UNCHANGED <<positions, fact, engagement, mode, active, stable, denial,
                     failCounted>>
  BY DEF Command, Goto, Assign
<1>2. \A o \in commands : /\ o \in Pair
                          /\ Confirmed(o.track)
                          /\ o.track \in positions
                          /\ o.track \notin TracksOf(Held)
                          /\ o \in Remembered
  BY Handover DEF IInv, CommandsFresh
<1>3. \A o, p \in commands : Conflict(o, p) => o = p
  BY DEF IInv, CommandsFresh
<1>4. ledger = target
  BY <1>1 DEF IInv, LedgerFollowsInterceptors
<1>5. ASSUME NEW i \in Interceptors
      PROVE  /\ i \in Kept =>
                  /\ target'[i] = target[i] /\ ledger'[i] = target[i]
                  /\ elapsed'[i] = elapsed[i] /\ ledgerAge'[i] = ledgerAge[i]
             /\ i \notin Kept =>
                  /\ order(i) \in commands /\ order(i).interceptor = i
                  /\ target'[i] = order(i).track /\ ledger'[i] = order(i).track
                  /\ elapsed'[i] = 0 /\ ledgerAge'[i] = 0
  <2>1. Accepted(commands, i) = OrdersFor(i)
    BY <1>2 DEF Accepted, OrdersFor
  <2>2. /\ target'[i] = NewTarget(commands, i)
        /\ elapsed'[i] = IF NewTarget(commands, i) = target[i] THEN elapsed[i] ELSE 0
    BY DEF Command, Assign
  <2>3. /\ ledger'[i] = IF OrdersFor(i) = {} THEN ledger[i] ELSE order(i).track
        /\ ledgerAge'[i] = IF OrdersFor(i) = {} THEN ledgerAge[i] ELSE 0
    BY DEF Command
  <2>4. NewTarget(commands, i) = IF OrdersFor(i) = {} THEN target[i] ELSE order(i).track
    BY <2>1 DEF NewTarget
  <2>5. CASE i \in Kept
    BY <1>4, <2>2, <2>3, <2>4, <2>5
  <2>6. CASE i \notin Kept
    <3>1. order(i) \in OrdersFor(i)
      BY <2>6
    <3>2. order(i) \in commands /\ order(i).interceptor = i
      BY <3>1 DEF OrdersFor
    <3>3. order(i).track \in Tracks /\ order(i).track \notin TracksOf(Held)
      BY <1>2, <3>2 DEF Pair
    <3>4. target[i] # order(i).track
      <4>1. ASSUME target[i] = order(i).track
            PROVE  FALSE
        <5>1. order(i) \in Held
          BY <1>2, <3>2, <4>1, HeldPairs DEF IInv, TypeOK
        <5>2. QED
          BY <3>3, <5>1 DEF TracksOf
      <4>2. QED
        BY <4>1
    <3>5. QED
      BY <2>2, <2>3, <2>4, <2>6, <3>2, <3>4
  <2>7. QED
    BY <2>5, <2>6
<1> HIDE DEF order, Kept
<1>6. ASSUME NEW i \in Interceptors, i \notin Kept
      PROVE  /\ order(i) \in Pair
             /\ order(i).track \in Tracks
             /\ Confirmed(order(i).track)
             /\ order(i) = [interceptor |-> i, track |-> order(i).track]
             /\ \A j \in Interceptors : target[j] # order(i).track
  <2>1. order(i) \in commands /\ order(i).interceptor = i
    BY <1>5, <1>6
  <2>2. order(i) \in Pair /\ Confirmed(order(i).track)
        /\ order(i).track \notin TracksOf(Held)
    BY <1>2, <2>1
  <2>3. ASSUME NEW j \in Interceptors, target[j] = order(i).track
        PROVE  FALSE
    <3>1. [interceptor |-> j, track |-> order(i).track] \in Held
      BY <2>2, <2>3, HeldPairs DEF IInv, TypeOK, Pair
    <3>2. QED
      BY <2>2, <3>1 DEF TracksOf
  <2>4. QED
    BY <2>1, <2>2, <2>3 DEF Pair
<1>7. TypeOK'
  <2>1. target' \in [Interceptors -> Tracks \cup {NoTrack}]
    <3>1. target' = [i \in Interceptors |-> NewTarget(commands, i)]
      BY DEF Command, Assign
    <3>2. \A i \in Interceptors : target'[i] \in Tracks \cup {NoTrack}
      BY <1>5, <1>6 DEF IInv, TypeOK, InterceptorsTypeOK
    <3>3. QED
      BY <3>1, <3>2
  <2>2. elapsed' \in [Interceptors -> 0..TimeoutTicks]
    <3>1. \A i \in Interceptors : elapsed'[i] \in 0..TimeoutTicks
      BY <1>5, InterceptorsAssumption DEF IInv, TypeOK, InterceptorsTypeOK
    <3>2. QED
      BY <3>1 DEF Command, Assign
  <2>3. /\ ledger' \in [Interceptors -> Tracks \cup {NoTrack}]
        /\ ledgerAge' \in [Interceptors -> 0..(TimeoutTicks + 1)]
    <3>1. \A i \in Interceptors : /\ ledger'[i] = target'[i]
                                  /\ ledgerAge'[i] \in 0..(TimeoutTicks + 1)
      BY <1>5, InterceptorsAssumption DEF IInv, TypeOK
    <3>2. QED
      BY <2>1, <3>1 DEF Command
  <2>4. InterceptorsTypeOK' /\ TreeTypeOK'
    BY <1>1, <2>1, <2>2 DEF IInv, TypeOK, InterceptorsTypeOK, TreeTypeOK
  <2>5. QED
    BY <1>1, <2>3, <2>4 DEF IInv, TypeOK, Phase
<1>8. ASSUME NEW p \in Held'
      PROVE  /\ p \in Pair
             /\ \/ p.interceptor \in Kept /\ p \in Held
                \/ p.interceptor \notin Kept /\ p = order(p.interceptor)
  <2>1. p.interceptor \in Interceptors /\ target'[p.interceptor] # NoTrack
    BY <1>8 DEF Held, Idle, Engaged
  <2>2. p = [interceptor |-> p.interceptor, track |-> target'[p.interceptor]]
    BY <1>8 DEF Held
  <2>3. p \in Pair
    BY <1>7, <2>1, <2>2 DEF TypeOK, InterceptorsTypeOK, Pair
  <2>4. CASE p.interceptor \in Kept
    <3>1. target[p.interceptor] = p.track
      BY <1>5, <2>1, <2>2, <2>4
    <3>2. QED
      BY <2>3, <2>4, <3>1, HeldPairs DEF IInv, TypeOK
  <2>5. CASE p.interceptor \notin Kept
    BY <1>5, <1>6, <2>1, <2>2, <2>3, <2>5
  <2>6. QED
    BY <2>3, <2>4, <2>5
<1>9. NoSharedTarget'
  <2> SUFFICES ASSUME NEW i \in Interceptors, NEW j \in Interceptors,
                      target'[i] = target'[j], target'[i] # NoTrack
               PROVE  i = j
    BY DEF NoSharedTarget, Engaged
  <2>1. CASE i \in Kept /\ j \in Kept
    BY <1>5, <2>1 DEF IInv, NoSharedTarget, Engaged
  <2>2. CASE (i \in Kept) # (j \in Kept)
    BY <1>5, <1>6, <2>2
  <2>3. CASE i \notin Kept /\ j \notin Kept
    BY <1>3, <1>5, <2>3 DEF Conflict
  <2>4. QED
    BY <2>1, <2>2, <2>3
<1>10. TargetsWereConfirmed' /\ TargetsAreConfirmed'
  <2>1. ASSUME NEW p \in Held'
        PROVE  Confirmed(p.track) \/ fact[p.track] = "gone"
    BY <1>6, <1>8, <2>1 DEF IInv, TargetsWereConfirmed, Pair
  <2>2. QED
    BY <1>1, <2>1 DEF TargetsWereConfirmed, TargetsAreConfirmed, Confirmed
<1>11. MemoryFollowsInterceptors'
  <2>1. \A p \in Held : Tracked(p.track) =>
                          p \in Remembered \/ OrdersFor(p.interceptor) # {}
    BY <1>1 DEF IInv, MemoryFollowsInterceptors
  <2>2. ASSUME NEW p \in Held', Tracked(p.track)
        PROVE  p \in Remembered
    <3>1. CASE p.interceptor \in Kept /\ p \in Held
      BY <2>1, <2>2, <3>1 DEF Kept
    <3>2. CASE p.interceptor \notin Kept /\ p = order(p.interceptor)
      BY <1>2, <1>5, <1>8, <3>2 DEF Pair
    <3>3. QED
      BY <1>8, <3>1, <3>2
  <2>3. \A e \in active : Confirmed(e.track)
    BY <1>1 DEF IInv, MemoryFollowsInterceptors
  <2>4. QED
    BY <1>1, <2>2, <2>3 DEF MemoryFollowsInterceptors, Remembered, Tracked, Confirmed
<1>12. BlackboardFollowsInterceptors'
  <2>1. ASSUME NEW p \in engagement
        PROVE  p \in Held'
    <3>1. p \in commands \/ (p \in Held /\ OrdersFor(p.interceptor) = {})
      BY <1>1 DEF IInv, BlackboardFollowsInterceptors
    <3>2. p \in Pair
      BY <2>1 DEF IInv, TypeOK, TreeTypeOK
    <3>3. target'[p.interceptor] = p.track
      <4>1. CASE p \in commands
        <5>1. p \in OrdersFor(p.interceptor)
          BY <4>1 DEF OrdersFor
        <5>2. order(p.interceptor) = p
          BY <1>3, <1>5, <3>2, <4>1, <5>1 DEF Conflict, Kept, Pair
        <5>3. QED
          BY <1>5, <3>2, <5>1, <5>2 DEF Kept, Pair
      <4>2. CASE p \in Held /\ OrdersFor(p.interceptor) = {}
        BY <1>5, <3>2, <4>2, HeldPairs DEF Kept, Pair, IInv, TypeOK
      <4>3. QED
        BY <3>1, <4>1, <4>2
    <3>4. QED
      BY <3>2, <3>3, InterceptorsAssumption DEF Held, Idle, Engaged, Pair
  <2>2. QED
    BY <1>1, <2>1 DEF BlackboardFollowsInterceptors
<1>13. LedgerFollowsInterceptors'
  <2>1. \A i \in Interceptors : ledger'[i] = target'[i]
    BY <1>5
  <2>2. ledger' = target'
    BY <1>7, <2>1 DEF TypeOK, InterceptorsTypeOK
  <2>3. QED
    BY <1>1, <2>2 DEF LedgerFollowsInterceptors
<1>14. ClocksAgree'
  <2>1. ASSUME NEW i \in Interceptors
        PROVE  /\ ledgerAge'[i] = elapsed'[i]
               /\ target'[i] = NoTrack => elapsed'[i] = 0
               /\ ledger'[i] = target'[i]
    BY <1>1, <1>5 DEF IInv, ClocksAgree, Engaged
  <2>2. QED
    BY <1>1, <2>1 DEF ClocksAgree, Engaged
<1>15. CommandsFresh' /\ RetaskOnlyWhenAllBusy' /\ PositionsCurrent'
  BY <1>1 DEF IInv, CommandsFresh, RetaskOnlyWhenAllBusy, PositionsCurrent,
              ConfirmedTracks, Confirmed
<1>16. /\ MemoryIsOneToOne' /\ GraceNeverUsed' /\ ModeMatchesMemory'
       /\ TimeoutNeverCounted'
  BY <1>1 DEF IInv, MemoryIsOneToOne, GraceNeverUsed, ModeMatchesMemory,
              TimeoutNeverCounted
<1>17. QED
  BY <1>7, <1>9, <1>10, <1>11, <1>12, <1>13, <1>14, <1>15, <1>16 DEF IInv

\* A flight releases the interceptors without a position to fly to or without
\* time left, and changes nothing else.
LEMMA FlyIsGood ==
  ASSUME IInv, Fly
  PROVE  IInv'
<1>1. /\ pc = "fly" /\ pc' = "resolve" /\ commands = {}
      /\ UNCHANGED <<positions, fact, engagement, mode, active, stable, denial,
                     commands, ledger, ledgerAge, failCounted>>
  BY Handover DEF Fly, Goto, Step, treeVars
<1>2. ledger = target /\ engagement \subseteq Held
  BY <1>1 DEF IInv, LedgerFollowsInterceptors, BlackboardFollowsInterceptors
<1>3. ASSUME NEW i \in Interceptors
      PROVE  /\ target'[i] = IF Released(i) THEN NoTrack ELSE target[i]
             /\ elapsed'[i] = IF Engaged(i) /\ ~Released(i) THEN elapsed[i] + 1 ELSE 0
             /\ ledgerAge[i] = elapsed[i] /\ elapsed[i] \in 0..TimeoutTicks
             /\ elapsed'[i] \in 0..TimeoutTicks
             /\ Engaged(i) /\ ~Released(i) => target[i] \in positions
  <2>1. /\ target'[i] = IF Released(i) THEN NoTrack ELSE target[i]
        /\ elapsed'[i] = IF Engaged(i) /\ ~Released(i) THEN elapsed[i] + 1 ELSE 0
    BY DEF Fly, Step
  <2>2. elapsed[i] \in 0..TimeoutTicks
    BY DEF IInv, TypeOK, InterceptorsTypeOK
  <2>3. ledgerAge[i] = elapsed[i]
    BY <1>1 DEF IInv, ClocksAgree
  <2>4. Engaged(i) /\ ~Released(i) => target[i] \in positions /\ elapsed[i] + 1 <= TimeoutTicks
    BY <2>2, InterceptorsAssumption DEF Released, Lost, TimedOut
  <2>5. elapsed'[i] \in 0..TimeoutTicks
    BY <2>1, <2>2, <2>4, InterceptorsAssumption
  <2>6. QED
    BY <2>1, <2>2, <2>3, <2>4, <2>5
<1>4. TypeOK'
  <2>1. target' \in [Interceptors -> Tracks \cup {NoTrack}]
    BY <1>3 DEF Fly, Step, IInv, TypeOK, InterceptorsTypeOK
  <2>2. elapsed' \in [Interceptors -> 0..TimeoutTicks]
    BY <1>3 DEF Fly, Step
  <2>3. InterceptorsTypeOK' /\ TreeTypeOK'
    BY <1>1, <2>1, <2>2 DEF IInv, TypeOK, InterceptorsTypeOK, TreeTypeOK
  <2>4. QED
    BY <1>1, <2>3 DEF IInv, TypeOK, Phase
<1>5. ASSUME NEW p \in Held'
      PROVE  p \in Held /\ p.track \in positions /\ target[p.interceptor] = p.track
             /\ p.interceptor \in Interceptors
  <2>1. p.interceptor \in Interceptors /\ target'[p.interceptor] # NoTrack
        /\ p = [interceptor |-> p.interceptor, track |-> target'[p.interceptor]]
    BY <1>5 DEF Held, Idle, Engaged
  <2>2. target'[p.interceptor] = target[p.interceptor] /\ ~Released(p.interceptor)
        /\ Engaged(p.interceptor)
    BY <1>3, <2>1 DEF Engaged
  <2>3. p.track = target[p.interceptor] /\ p.track \in positions
    BY <1>3, <2>1, <2>2
  <2>4. p \in Held
    BY <2>1, <2>2 DEF Held, Idle
  <2>5. QED
    BY <2>1, <2>3, <2>4
<1>6. \A p \in Held' : p.track \in Tracks /\ Confirmed(p.track)
  BY <1>5 DEF IInv, PositionsCurrent, ConfirmedTracks
<1>7. NoSharedTarget'
  BY <1>3 DEF IInv, NoSharedTarget, Engaged
<1>8. TargetsWereConfirmed' /\ TargetsAreConfirmed'
  BY <1>1, <1>6 DEF TargetsWereConfirmed, TargetsAreConfirmed, Confirmed
<1>9. MemoryFollowsInterceptors'
  <2>1. ASSUME NEW p \in Held'
        PROVE  p \in Remembered
    <3>1. p \in Held /\ Tracked(p.track)
      BY <1>5, <1>6 DEF Confirmed, Tracked
    <3>2. QED
      BY <1>1, <3>1 DEF IInv, MemoryFollowsInterceptors, OrdersFor
  <2>2. QED
    BY <1>1, <2>1 DEF MemoryFollowsInterceptors, Remembered
<1>10. LedgerFollowsInterceptors'
  BY <1>1, <1>2, <1>5 DEF LedgerFollowsInterceptors
<1>11. BlackboardFollowsInterceptors'
  <2>1. ASSUME NEW p \in engagement
        PROVE  ledger[p.interceptor] = p.track
    BY <1>2, <2>1, HeldPairs DEF IInv, TypeOK
  <2>2. QED
    BY <1>1, <2>1 DEF BlackboardFollowsInterceptors
<1>12. ClocksAgree'
  <2>1. ASSUME NEW i \in Interceptors
        PROVE  /\ target'[i] = NoTrack => elapsed'[i] = 0
               /\ target'[i] # NoTrack => elapsed'[i] = ledgerAge[i] + 1
               /\ ledgerAge[i] <= TimeoutTicks
               /\ ledger[i] = NoTrack => ledgerAge[i] = 0
    BY <1>3, InterceptorsAssumption DEF IInv, ClocksAgree, Engaged
  <2>2. QED
    BY <1>1, <2>1 DEF ClocksAgree, Engaged
<1>13. CommandsFresh' /\ RetaskOnlyWhenAllBusy' /\ PositionsCurrent'
  BY <1>1 DEF IInv, CommandsFresh, RetaskOnlyWhenAllBusy, PositionsCurrent,
              ConfirmedTracks, Confirmed
<1>14. /\ MemoryIsOneToOne' /\ GraceNeverUsed' /\ ModeMatchesMemory'
       /\ TimeoutNeverCounted'
  BY <1>1 DEF IInv, MemoryIsOneToOne, GraceNeverUsed, ModeMatchesMemory,
              TimeoutNeverCounted
<1>15. QED
  BY <1>4, <1>7, <1>8, <1>9, <1>10, <1>11, <1>12, <1>13, <1>14 DEF IInv

\* A hit ends an engagement with the manager and in the ledger at once; the
\* ledger entries of released interceptors are closed with it.
LEMMA ResolveIsGood ==
  ASSUME IInv, Resolve
  PROVE  IInv'
<1> DEFINE hitOn(hits, i) == \E h \in hits : h.interceptor = i /\ h.track = target[i]
<1>1. /\ pc = "resolve" /\ pc' = "observe" /\ commands = {}
      /\ UNCHANGED <<positions, fact, mode, active, stable, denial, commands>>
  BY Handover DEF Resolve, Goto, HandleIntercepts
<1>2. PICK hits \in SUBSET {p \in Held : Confirmed(p.track)} :
        /\ HandleIntercepts(hits)
        /\ engagement' = IF hits = {} /\ Closed = {} THEN engagement ELSE {}
        /\ LET over == Closed \cup {h.interceptor : h \in hits}
           IN  /\ ledger' = [i \in Interceptors |->
                               IF i \in over THEN NoTrack ELSE ledger[i]]
               /\ ledgerAge' = [i \in Interceptors |->
                                  IF i \in over THEN 0 ELSE ledgerAge[i]]
        /\ failCounted' = (failCounted \/
                             \E i \in Closed : ledgerAge[i] > TimeoutTicks)
  BY DEF Resolve
<1>3. \A p \in Held : ledger[p.interceptor] = p.track /\ Confirmed(p.track)
  BY <1>1 DEF IInv, LedgerFollowsInterceptors, TargetsAreConfirmed
<1>4. \A h \in hits : h \in Pair /\ target[h.interceptor] = h.track
  BY HeldPairs DEF IInv, TypeOK
<1>5. ASSUME NEW i \in Interceptors
      PROVE  /\ target'[i] \in {target[i], NoTrack}
             /\ ledger'[i] = target'[i]
             /\ target'[i] # NoTrack =>
                  elapsed'[i] = elapsed[i] /\ ledgerAge'[i] = ledgerAge[i]
             /\ target'[i] = NoTrack => elapsed'[i] = 0 /\ ledgerAge'[i] = 0
             /\ hits = {} => target'[i] = target[i]
  <2>1. /\ target'[i] = IF hitOn(hits, i) THEN NoTrack ELSE target[i]
        /\ elapsed'[i] = IF hitOn(hits, i) THEN 0 ELSE elapsed[i]
    BY <1>2 DEF HandleIntercepts
  <2>2. /\ ledger'[i] = IF i \in Closed \/ hitOn(hits, i) THEN NoTrack ELSE ledger[i]
        /\ ledgerAge'[i] = IF i \in Closed \/ hitOn(hits, i) THEN 0 ELSE ledgerAge[i]
    BY <1>2, <1>4
  <2>3. CASE target[i] = NoTrack
    <3>1. elapsed[i] = 0 /\ (ledger[i] = NoTrack => ledgerAge[i] = 0)
      BY <2>3 DEF IInv, ClocksAgree, Engaged
    <3>2. i \in Closed \/ ledger[i] = NoTrack
      BY <2>3 DEF Closed
    <3>3. QED
      BY <2>1, <2>2, <2>3, <3>1, <3>2
  <2>4. CASE target[i] # NoTrack
    <3>1. [interceptor |-> i, track |-> target[i]] \in Held
      BY <2>4 DEF Held, Idle, Engaged
    <3>2. ledger[i] = target[i] /\ i \notin Closed
      BY <1>3, <2>4, <3>1 DEF Closed
    <3>3. QED
      BY <2>1, <2>2, <2>4, <3>2
  <2>5. QED
    BY <2>3, <2>4
<1> HIDE DEF hitOn
<1>6. TypeOK'
  <2>1. target' \in [Interceptors -> Tracks \cup {NoTrack}]
        /\ elapsed' \in [Interceptors -> 0..TimeoutTicks]
    <3>1. \A i \in Interceptors : target'[i] \in Tracks \cup {NoTrack}
      BY <1>5 DEF IInv, TypeOK, InterceptorsTypeOK
    <3>2. \A i \in Interceptors : elapsed'[i] \in 0..TimeoutTicks
      BY <1>5, InterceptorsAssumption DEF IInv, TypeOK, InterceptorsTypeOK
    <3>3. QED
      BY <1>2, <3>1, <3>2 DEF HandleIntercepts
  <2>2. /\ ledger' \in [Interceptors -> Tracks \cup {NoTrack}]
        /\ ledgerAge' \in [Interceptors -> 0..(TimeoutTicks + 1)]
    <3>1. \A i \in Interceptors : ledger'[i] \in Tracks \cup {NoTrack}
      BY <1>5, <2>1
    <3>2. \A i \in Interceptors : ledgerAge'[i] \in 0..(TimeoutTicks + 1)
      BY <1>5, InterceptorsAssumption DEF IInv, TypeOK
    <3>3. QED
      BY <1>2, <3>1, <3>2
  <2>3. engagement' = {} \/ \E p \in Pair : engagement' = {p}
    BY <1>2 DEF IInv, TypeOK, TreeTypeOK
  <2>4. InterceptorsTypeOK' /\ TreeTypeOK'
    BY <1>1, <2>1, <2>3 DEF IInv, TypeOK, InterceptorsTypeOK, TreeTypeOK
  <2>5. failCounted' \in BOOLEAN /\ pc' \in Phase
    BY <1>1, <1>2 DEF Phase, IInv, TypeOK
  <2>6. QED
    BY <2>2, <2>4, <2>5 DEF TypeOK
<1>7. ASSUME NEW p \in Held'
      PROVE  p \in Held /\ p.interceptor \in Interceptors
  <2>1. p.interceptor \in Interceptors /\ target'[p.interceptor] # NoTrack
        /\ p = [interceptor |-> p.interceptor, track |-> target'[p.interceptor]]
    BY <1>7 DEF Held, Idle, Engaged
  <2>2. target'[p.interceptor] = target[p.interceptor]
    BY <1>5, <2>1
  <2>3. QED
    BY <2>1, <2>2 DEF Held, Idle, Engaged
<1>8. NoSharedTarget'
  BY <1>5 DEF IInv, NoSharedTarget, Engaged
<1>9. TargetsWereConfirmed' /\ TargetsAreConfirmed'
  BY <1>1, <1>3, <1>7 DEF TargetsWereConfirmed, TargetsAreConfirmed, Confirmed
<1>10. MemoryFollowsInterceptors'
  BY <1>1, <1>7 DEF IInv, MemoryFollowsInterceptors, Remembered
<1>11. LedgerFollowsInterceptors'
  BY <1>1, <1>5, <1>6 DEF TypeOK, InterceptorsTypeOK, LedgerFollowsInterceptors
<1>12. BlackboardFollowsInterceptors'
  <2>1. ASSUME NEW p \in engagement'
        PROVE  p \in Held'
    <3>1. p \in engagement /\ hits = {} /\ Closed = {}
      BY <1>2, <2>1
    <3>2. p \in Pair /\ ledger[p.interceptor] = p.track
      BY <1>1, <3>1 DEF IInv, TypeOK, TreeTypeOK, BlackboardFollowsInterceptors
    <3>3. target[p.interceptor] # NoTrack
      BY <3>1, <3>2, InterceptorsAssumption DEF Closed, Pair
    <3>4. [interceptor |-> p.interceptor, track |-> target[p.interceptor]] \in Held
      BY <3>2, <3>3 DEF Held, Idle, Engaged, Pair
    <3>5. target'[p.interceptor] = p.track
      BY <1>3, <1>5, <3>1, <3>2, <3>4 DEF Pair
    <3>6. QED
      BY <3>2, <3>5, InterceptorsAssumption DEF Held, Idle, Engaged, Pair
  <2>2. QED
    BY <1>1, <2>1 DEF BlackboardFollowsInterceptors
<1>13. ClocksAgree'
  BY <1>1, <1>5 DEF IInv, ClocksAgree, Engaged
<1>14. TimeoutNeverCounted'
  <2>1. \A i \in Interceptors : ledgerAge[i] <= TimeoutTicks
    BY <1>1 DEF IInv, ClocksAgree
  <2>2. \A i \in Interceptors : ledgerAge[i] \in 0..(TimeoutTicks + 1)
    BY DEF IInv, TypeOK
  <2>3. ~ \E i \in Closed : ledgerAge[i] > TimeoutTicks
    BY <2>1, <2>2, InterceptorsAssumption DEF Closed
  <2>4. QED
    BY <1>2, <2>3 DEF IInv, TimeoutNeverCounted
<1>15. CommandsFresh' /\ RetaskOnlyWhenAllBusy' /\ PositionsCurrent'
  BY <1>1 DEF IInv, CommandsFresh, RetaskOnlyWhenAllBusy, PositionsCurrent,
              ConfirmedTracks, Confirmed
<1>16. MemoryIsOneToOne' /\ GraceNeverUsed' /\ ModeMatchesMemory'
  BY <1>1 DEF IInv, MemoryIsOneToOne, GraceNeverUsed, ModeMatchesMemory
<1>17. QED
  BY <1>6, <1>8, <1>9, <1>10, <1>11, <1>12, <1>13, <1>14, <1>15, <1>16 DEF IInv

-----------------------------------------------------------------------------
(***************************************************************************)
(* The theorems.                                                           *)
(***************************************************************************)

\* What each step of the loop hands to the next holds in every reachable state.
THEOREM Invariance == Spec => []IInv
<1>1. Init => IInv
  BY InitIsGood
<1>2. IInv /\ [Next]_vars => IInv'
  <2> SUFFICES ASSUME IInv, [Next]_vars
               PROVE  IInv'
    OBVIOUS
  <2>1. CASE Observe
    BY <2>1, ObserveIsGood
  <2>2. CASE Decide
    BY <2>2, DecideIsGood
  <2>3. CASE Command
    BY <2>3, CommandIsGood
  <2>4. CASE Fly
    BY <2>4, FlyIsGood
  <2>5. CASE Resolve
    BY <2>5, ResolveIsGood
  <2>6. CASE UNCHANGED vars
    BY <2>6, StutterIsGood
  <2>7. QED
    BY <2>1, <2>2, <2>3, <2>4, <2>5, <2>6 DEF Next
<1>3. QED
  BY <1>1, <1>2, PTL DEF Spec

\* Every variable of the loop stays in its type.
THEOREM TypeCorrect == Spec => []TypeOK
<1>1. IInv => TypeOK
  BY DEF IInv
<1>2. QED
  BY <1>1, Invariance, PTL

\* No two interceptors ever fly at the same track, for any number of each.
THEOREM TargetsAreNotShared == Spec => []NoSharedTarget
<1>1. IInv => NoSharedTarget
  BY DEF IInv
<1>2. QED
  BY <1>1, Invariance, PTL

\* The memory holds no track and no interceptor twice.
THEOREM MemoryStaysOneToOne == Spec => []MemoryIsOneToOne
<1>1. IInv => MemoryIsOneToOne
  BY DEF IInv
<1>2. QED
  BY <1>1, Invariance, PTL

\* Between two passes memory, ledger and blackboard agree with the interceptors.
THEOREM RecordsAgree == Spec => []EngagementRecordsAgree
<1>1. IInv => EngagementRecordsAgree
  BY DEF IInv, EngagementRecordsAgree, EngagementsRemembered, LedgerAgrees, BlackboardEngagementIsLive,
         MemoryFollowsInterceptors, Remembered, LedgerFollowsInterceptors,
         BlackboardFollowsInterceptors
<1>2. QED
  BY <1>1, Invariance, PTL

\* Once the interceptors have flown, nobody is left flying at a deleted track.
THEOREM DeletedTracksAreReleased == Spec => []TargetsAreConfirmed
<1>1. IInv => TargetsAreConfirmed
  BY DEF IInv
<1>2. QED
  BY <1>1, Invariance, PTL

\* A command diverts a flying interceptor only when none is idle, one per tick.
THEOREM RetasksAreLast == Spec => []RetaskOnlyWhenAllBusy
<1>1. IInv => RetaskOnlyWhenAllBusy
  BY DEF IInv
<1>2. QED
  BY <1>1, Invariance, PTL

\* Two branches of the code change nothing: the grace period of the memory and
\* the counting of timeouts as failed intercepts.
THEOREM DeadBranches == Spec => []DeadBranchesStayDead
<1>1. IInv => DeadBranchesStayDead
  BY DEF IInv, DeadBranchesStayDead
<1>2. QED
  BY <1>1, Invariance, PTL

\* The mode says engage exactly while an engagement is remembered.
THEOREM ModeIsRight == Spec => []ModeMatchesMemory
<1>1. IInv => ModeMatchesMemory
  BY DEF IInv
<1>2. QED
  BY <1>1, Invariance, PTL

\* What the tree remembers and the interceptor flies at has a position, so a
\* flight step drops it only when its time is up.
THEOREM FlightsEndByTimeout == Spec => OnlyTimeoutEndsFlight
<1> DEFINE Ends ==
      \A e \in active :
        pc = "fly" /\ target[e.interceptor] = e.track /\ target'[e.interceptor] = NoTrack
          => elapsed[e.interceptor] = TimeoutTicks
<1>1. IInv /\ [Next]_vars => [Ends]_vars
  <2> SUFFICES ASSUME IInv, Next, NEW e \in active, pc = "fly",
                      target[e.interceptor] = e.track,
                      target'[e.interceptor] = NoTrack
               PROVE  elapsed[e.interceptor] = TimeoutTicks
    BY DEF Ends
  <2>1. Fly
    BY DEF Next, Goto, Observe, Decide, Command, Resolve
  <2>2. e.interceptor \in Interceptors /\ e.track \in Tracks
    BY DEF IInv, TypeOK, TreeTypeOK, Entry
  <2>3. Engaged(e.interceptor) /\ Released(e.interceptor)
    BY <2>1, <2>2, InterceptorsAssumption DEF Fly, Step, Engaged
  <2>4. e.track \in positions
    BY <2>2 DEF IInv, MemoryFollowsInterceptors, PositionsCurrent, ConfirmedTracks
  <2>5. elapsed[e.interceptor] + 1 > TimeoutTicks
    BY <2>3, <2>4 DEF Released, Lost, TimedOut
  <2>6. elapsed[e.interceptor] \in 0..TimeoutTicks
    BY <2>2 DEF IInv, TypeOK, InterceptorsTypeOK
  <2>7. QED
    BY <2>5, <2>6, InterceptorsAssumption
<1>2. QED
  BY <1>1, Invariance, PTL DEF Spec, OnlyTimeoutEndsFlight

\* While the sensors are healthy no tick leaves an interceptor idle and a track it
\* could fly at without one (the idle loop and every other way out of tick).
THEOREM NoInterceptorIsSpared == Spec => NoIdleWithOpenTrack
<1> DEFINE Served ==
      pc = "decide" /\ HealthReports = {TRUE} =>
        \A i \in Idle, t \in Tracks :
          Engageable(t, TRUE) => t \in TracksOf(active') \/ OrdersFor(i)' # {}
<1>1. [Next]_vars => [Served]_vars
  <2> SUFFICES ASSUME Next, pc = "decide", HealthReports = {TRUE},
                      NEW i \in Idle, NEW t \in Tracks, Engageable(t, TRUE)
               PROVE  t \in TracksOf(active') \/ OrdersFor(i)' # {}
    BY DEF Served
  <2>1. Tick(TRUE)
    BY DEF Next, Goto, Observe, Decide, Command, Fly, Resolve
  <2> DEFINE o == [interceptor |-> i, track |-> t]
  <2>2. t \notin TracksOf(Maintained) => o \in Orders(TRUE)
    BY DEF Orders, Open, Pair, Idle
  <2>3. CASE AssignIdle(TRUE)
    <3>1. PICK s \in GreedyAssignments(TRUE) :
            commands' = s /\ active' = Maintained \cup {NewEntry(p) : p \in s}
      BY <2>3 DEF AssignIdle
    <3>2. CASE t \in TracksOf(Maintained)
      BY <3>1, <3>2 DEF TracksOf
    <3>3. CASE t \notin TracksOf(Maintained)
      <4>1. PICK p \in s : Conflict(o, p)
        BY <2>2, <3>3 DEF GreedyAssignments
      <4>2. CASE p.interceptor = i
        BY <3>1, <4>2 DEF OrdersFor
      <4>3. CASE p.track = t
        <5>1. NewEntry(p) \in active' /\ NewEntry(p).track = t
          BY <3>1, <4>3 DEF NewEntry
        <5>2. QED
          BY <5>1 DEF TracksOf
      <4>4. QED
        BY <4>1, <4>2, <4>3 DEF Conflict
    <3>4. QED
      BY <3>2, <3>3
  <2>4. CASE Retask(TRUE)
    BY <2>4 DEF Retask
  <2>5. CASE Hold(TRUE) \/ Deny(TRUE) \/ StandBy(TRUE)
    <3>1. Orders(TRUE) = {} /\ active' = Maintained
      BY <2>5 DEF Hold, Deny, StandBy, NothingEngaged
    <3>2. QED
      BY <2>2, <3>1
  <2>6. QED
    BY <2>1, <2>3, <2>4, <2>5 DEF Tick
<1>2. QED
  BY <1>1, PTL DEF Spec, NoIdleWithOpenTrack

-----------------------------------------------------------------------------
(***************************************************************************)
(* The refinement: what the readers of the log rely on.                    *)
(***************************************************************************)

\* The tracker's report is a step of every track's life.
LEMMA ObserveIsReport ==
  ASSUME IInv, Observe
  PROVE  Flights!Report
<1>1. /\ pc = "observe" /\ pc' = "decide" /\ target' = target
      /\ \A t \in Tracks : fact'[t] \in Fact /\ StageOf(fact'[t]) \in Lifecycle!NextStage(StageOf(fact[t]))
  BY DEF Observe, Goto, NextFacts
<1>2. \A t \in Tracks : StageOf(fact'[t]) \in Flights!Stage
  BY <1>1 DEF StageOf, Fact, Grade, Flights!Stage
<1>3. \A t \in Tracks : StageOf(fact'[t]) \in Flights!NextStage(StageOf(fact[t]))
  BY <1>1 DEF Flights!NextStage, Lifecycle!NextStage
<1>4. Flights!LifecycleNext
  BY <1>2, <1>3 DEF Flights!LifecycleNext
<1>5. QED
  BY <1>1, <1>4 DEF Flights!Report, Flights!Passes

\* The tree's commands send interceptors to confirmed tracks that are free.
LEMMA CommandIsOrder ==
  ASSUME IInv, Command
  PROVE  Flights!Order
<1>1. /\ pc = "command" /\ pc' = "fly" /\ fact' = fact
      /\ target' = [i \in Interceptors |-> NewTarget(commands, i)]
  BY DEF Command, Goto, Assign
<1>2. /\ commands \subseteq Pair /\ target \in [Interceptors -> Tracks \cup {NoTrack}]
      /\ NoTrack \notin Tracks
  BY InterceptorsAssumption DEF IInv, TypeOK, InterceptorsTypeOK, TreeTypeOK
<1>3. ASSUME NEW i \in Interceptors, target'[i] # target[i]
      PROVE  \E o \in commands : o.interceptor = i /\ o.track = target'[i]
  <2>1. NewTarget(commands, i) # target[i]
    BY <1>1, <1>3
  <2>2. Accepted(commands, i) # {}
    BY <2>1 DEF NewTarget
  <2>3. target'[i] = (CHOOSE o \in Accepted(commands, i) : TRUE).track
    BY <1>1, <2>2 DEF NewTarget
  <2>4. (CHOOSE o \in Accepted(commands, i) : TRUE) \in Accepted(commands, i)
    BY <2>2
  <2>5. QED
    BY <2>3, <2>4 DEF Accepted
<1>4. ASSUME NEW i \in Interceptors, target'[i] # target[i]
      PROVE  target'[i] # NoTrack /\ target'[i] \in Tracks /\ Flights!Orderable(target'[i])
  <2>1. PICK o \in commands : o.interceptor = i /\ o.track = target'[i]
    BY <1>3, <1>4
  <2>2. o.track \in Tracks /\ o.track \in positions /\ o.track \notin TracksOf(Held)
    BY <1>2, <2>1 DEF IInv, CommandsFresh, Pair
  <2>3. fact[o.track] \in Grade
    BY <2>2 DEF IInv, PositionsCurrent, ConfirmedTracks, Confirmed
  <2>4. \A j \in Interceptors : target[j] # o.track
    <3> SUFFICES ASSUME NEW j \in Interceptors, target[j] = o.track
                 PROVE  FALSE
      OBVIOUS
    <3>1. Engaged(j)
      BY <1>2, <2>2 DEF Engaged
    <3>2. [interceptor |-> j, track |-> target[j]] \in Held
      BY <3>1 DEF Held, Idle
    <3>3. QED
      BY <2>2, <3>2 DEF TracksOf
  <2>5. QED
    BY <1>2, <2>1, <2>2, <2>3, <2>4 DEF Flights!Orderable, StageOf
<1>5. ASSUME NEW i \in Interceptors, NEW j \in Interceptors,
             target'[i] # target[i], target'[j] # target[j], target'[i] = target'[j]
      PROVE  i = j
  <2>1. PICK o \in commands : o.interceptor = i /\ o.track = target'[i]
    BY <1>3, <1>5
  <2>2. PICK p \in commands : p.interceptor = j /\ p.track = target'[j]
    BY <1>3, <1>5
  <2>3. o = p
    BY <1>5, <2>1, <2>2 DEF IInv, CommandsFresh, Conflict
  <2>4. QED
    BY <2>1, <2>2, <2>3
<1>6. target' \in [Interceptors -> Tracks \cup {NoTrack}]
  <2>1. \A i \in Interceptors : target'[i] \in Tracks \cup {NoTrack}
    BY <1>2, <1>4
  <2>2. QED
    BY <1>1, <2>1
<1>7. QED
  BY <1>1, <1>4, <1>5, <1>6 DEF Flights!Order, Flights!Passes, Flights!Ordered

\* Nobody flies on without a confirmed track.
LEMMA FlyIsFlight ==
  ASSUME IInv, Fly
  PROVE  Flights!Fly
<1> DEFINE S == {i \in Interceptors : Engaged(i) /\ ~Released(i)}
<1>1. /\ pc = "fly" /\ pc' = "resolve" /\ fact' = fact
      /\ target' = [i \in Interceptors |-> IF Released(i) THEN NoTrack ELSE target[i]]
  BY DEF Fly, Goto, Step, treeVars
<1>2. target' = Flights!Kept(S)
  BY <1>1 DEF Flights!Kept, Engaged
<1>3. ASSUME NEW i \in S
      PROVE  Flights!Engaged(i) /\ StageOf(fact[target[i]]) = "confirmed" /\ target[i] \in Tracks
  <2>1. target[i] \in positions /\ target[i] # NoTrack
    BY <1>3 DEF Released, Lost, Engaged
  <2>2. target[i] \in Tracks /\ fact[target[i]] \in Grade
    BY <2>1 DEF IInv, PositionsCurrent, ConfirmedTracks, Confirmed
  <2>3. QED
    BY <2>1, <2>2 DEF StageOf, Flights!Engaged
<1>4. S \in SUBSET {i \in Flights!Flying : [t \in Tracks |-> StageOf(fact[t])][target[i]] = "confirmed"}
  BY <1>3 DEF Flights!Flying
<1>5. QED
  BY <1>1, <1>2, <1>4 DEF Flights!Fly, Flights!Passes

\* Those that hit are idle again, and nobody else.
LEMMA ResolveIsResolve ==
  ASSUME IInv, Resolve
  PROVE  Flights!Resolve
<1>1. PICK hits \in SUBSET {p \in Held : Confirmed(p.track)} : HandleIntercepts(hits)
  BY DEF Resolve
<1> DEFINE S == {i \in Interceptors :
                   Engaged(i) /\ ~\E h \in hits : h.interceptor = i /\ h.track = target[i]}
<1>2. pc = "resolve" /\ pc' = "observe" /\ fact' = fact
  BY DEF Resolve, Goto
<1>3. target' = Flights!Kept(S)
  BY <1>1 DEF HandleIntercepts, Flights!Kept, Engaged
<1>4. S \in SUBSET Flights!Flying
  BY DEF Flights!Flying, Flights!Engaged, Engaged
<1>5. QED
  BY <1>2, <1>3, <1>4 DEF Flights!Resolve, Flights!Passes

\* Seen by the stages of the tracks and by who flies at what, the loop does
\* what MissionFlights promises.
THEOREM LoopKeepsItsPromise == Spec => ImplementsFlights
<1>1. Init => Flights!FlightsInit
  BY DEF Init, TreeInit, InterceptorsInit, Flights!FlightsInit, Flights!LifecycleInit,
         StageOf, Grade
<1>2. IInv /\ [Next]_vars => [Flights!FlightsNext]_(Flights!flights)
  <2> SUFFICES ASSUME IInv, [Next]_vars
               PROVE  Flights!FlightsNext \/ UNCHANGED Flights!flights
    OBVIOUS
  <2>1. CASE Decide
    BY <2>1 DEF Decide, Goto, Tick, interceptorVars, Flights!flights
  <2>2. CASE UNCHANGED vars
    BY <2>2 DEF vars, interceptorVars, treeVars, loopVars, Flights!flights
  <2>3. QED
    BY <2>1, <2>2, ObserveIsReport, CommandIsOrder, FlyIsFlight, ResolveIsResolve
       DEF Next, Flights!FlightsNext
<1>3. QED
  BY <1>1, <1>2, Invariance, PTL DEF Spec, ImplementsFlights, Flights!FlightsSpec

=============================================================================
