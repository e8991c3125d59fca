------------------------- MODULE TrackManagerProofs -------------------------
(***************************************************************************)
(* The track manager keeps no silent track, deletes no other, remembers    *)
(* the deleted ones for its window and gives each track a proper life; and *)
(* the loop's table of events follows it: for any thresholds and any       *)
(* number of tracks.                                                       *)
(***************************************************************************)
EXTENDS TrackManager, TLAPS

\* A track the lifecycle rules have left in tracks_.  A tentative one has not
\* been hit often enough, which is why a track is confirmed only when it is hit.
AtRest(q) ==
  /\ q \in Quality
  /\ q.misses < Threshold(q)
  /\ q.status = "tentative" => q.hits < ConfirmHits

\* A live track's misses are the updates since radar last hit it.
LiveTracks ==
  /\ Live \subseteq 1..nextId - 1
  /\ \A t \in Live : AtRest(tracks[t]) /\ tracks[t].misses = since[t]

\* An entry for a deleted track has the rest of the window to go.
DeletedTracks ==
  /\ \A r \in recent :
       /\ r.id \in 1..nextId - 1 \ Live
       /\ r.left >= 1
       /\ r.left + since[r.id] = Window
  /\ \A t \in 1..nextId - 1 \ Live : since[t] < Window => \E r \in recent : r.id = t

\* Once the tick's deltas are reported the table is right.
TableFollows == IF pc = "update" THEN events = Live ELSE Reported = Live

TrackInv == TypeOK /\ LiveTracks /\ DeletedTracks /\ TableFollows

-----------------------------------------------------------------------------
(***************************************************************************)
(* What radar does to the quality of one track.                            *)
(***************************************************************************)
LEMMA HitQuality ==
  ASSUME NEW q \in Quality
  PROVE  /\ RadarHit(q) \in Quality
         /\ RadarHit(q).misses = 0
         /\ RadarHit(q).status = q.status
<1>1. q.hits \in 0..ConfirmHits /\ CountHit(q.hits) \in 0..ConfirmHits
  BY TrackManagerAssumption DEF CountHit, Quality
<1>2. 0 \in 0..DeleteMisses + ConfirmedDeleteMisses
  BY TrackManagerAssumption
<1>3. QED
  BY <1>1, <1>2 DEF RadarHit, Quality

LEMMA MissQuality ==
  ASSUME NEW q, AtRest(q)
  PROVE  /\ Miss(q) \in Quality
         /\ Miss(q).misses = q.misses + 1
         /\ Miss(q).status = q.status
         /\ Miss(q).hits = q.hits
BY TrackManagerAssumption DEF AtRest, Miss, Quality, Threshold

LEMMA NewQuality ==
  NewTrack \in Quality /\ NewTrack.misses = 0 /\ NewTrack.status = "tentative"
<1>1. [status |-> "tentative", hits |-> 0, misses |-> 0] \in Quality
  BY TrackManagerAssumption DEF Quality
<1>2. QED
  BY <1>1, HitQuality DEF NewTrack

\* Every track as the lifecycle rules find it.
LEMMA MeasuredQuality ==
  ASSUME TrackInv, NEW hit \in SUBSET Live, NEW born \in SUBSET Ids, born \cap Live = {},
         NEW refined, NEW t \in Live \cup born
  PROVE  LET q == Measured(hit, born, refined)[t]
         IN  /\ q \in Quality
             /\ q.misses = IF t \in hit \cup born THEN 0 ELSE since[t] + 1
             /\ q.status = IF t \in born THEN "tentative" ELSE tracks[t].status
             /\ t \notin hit \cup born /\ q.status = "tentative" => q.hits < ConfirmHits
<1> DEFINE q == Measured(hit, born, refined)[t]
<1>1. CASE t \in born
  <2>1. q = NewTrack
    BY <1>1 DEF Measured, Refinement
  <2>2. QED
    BY <1>1, <2>1, NewQuality
<1>2. CASE t \in hit
  <2>1. q = RadarHit(tracks[t]) /\ t \in Live /\ t \notin born
    BY <1>2 DEF Measured, Refinement
  <2>2. tracks[t] \in Quality
    BY <2>1 DEF TrackInv, TypeOK
  <2>3. QED
    BY <1>2, <2>1, <2>2, HitQuality
<1>3. CASE t \notin hit \cup born
  <2>1. q = Miss(tracks[t]) /\ t \in Live
    BY <1>3 DEF Measured, Refinement
  <2>2. AtRest(tracks[t]) /\ tracks[t].misses = since[t]
    BY <2>1 DEF TrackInv, LiveTracks
  <2>3. QED
    BY <1>3, <2>1, <2>2, MissQuality DEF AtRest
<1>4. QED
  BY <1>1, <1>2, <1>3

\* What the lifecycle rules make of a track they keep.
LEMMA KeptIsAtRest ==
  ASSUME NEW q \in Quality, ~Expired(q),
         q.status = "tentative" /\ q.hits >= ConfirmHits => q.misses = 0
  PROVE  /\ AtRest([q EXCEPT !.status = StatusAfter(q)])
         /\ [q EXCEPT !.status = StatusAfter(q)].misses = q.misses
         /\ q.status = "confirmed" => [q EXCEPT !.status = StatusAfter(q)].status = "confirmed"
BY TrackManagerAssumption DEF AtRest, Expired, StatusAfter, Threshold, Quality

-----------------------------------------------------------------------------
(***************************************************************************)
(* An update.                                                              *)
(***************************************************************************)

\* A new manager.
LEMMA TrackInitIsGood == Init => TrackInv
<1> SUFFICES ASSUME Init
             PROVE  TrackInv
  OBVIOUS
<1>1. Live = {} /\ 1..nextId - 1 = {}
  BY DEF Init, Live
<1>2. 0 \in 0..Window + DeleteMisses + ConfirmedDeleteMisses /\ 1 \in 1..MaxTracks + 1
  BY TrackManagerAssumption
<1>3. TypeOK
  BY <1>1, <1>2 DEF Init, TypeOK, NoDeltas, Deltas
<1>4. QED
  BY <1>1, <1>3 DEF Init, TrackInv, LiveTracks, DeletedTracks, TableFollows

\* An update taken apart: what radar hits, what is new, and what is kept of it.
UpdateTo(hit, last, refined, near) ==
  /\ pc = "update" /\ pc' = "report"
  /\ nextId' = last + 1
  /\ UpdateWith(hit, nextId..last, refined, near)
  /\ UNCHANGED events

\* What the lifecycle rules look at and keep, by id.
LEMMA UpdateByTrack ==
  ASSUME TrackInv,
         NEW hit \in SUBSET Live, NEW last \in nextId - 1..MaxTracks,
         NEW refined, NEW near, UpdateTo(hit, last, refined, near)
  PROVE  LET born == nextId..last
             m == Measured(hit, born, refined)
         IN  /\ born \subseteq Ids /\ born \cap Live = {} /\ nextId \in Nat
             /\ last + 1 \in 1..MaxTracks + 1 /\ 1..last = 1..nextId - 1 \cup born
             /\ DOMAIN m = Live \cup born
             /\ Live' = {t \in Live \cup born : ~Expired(m[t])}
             /\ hit \cup born \subseteq Live'
             /\ \A t \in Live' :
                  /\ AtRest(tracks'[t])
                  /\ tracks'[t].misses = since'[t]
                  /\ since'[t] = IF t \in hit \cup born THEN 0 ELSE since[t] + 1
                  /\ t \in Live /\ tracks[t].status = "confirmed" => tracks'[t].status = "confirmed"
<1> DEFINE born == nextId..last
           m == Measured(hit, born, refined)
<1>1. /\ born \subseteq Ids /\ nextId \in Nat /\ last \in Int
      /\ last + 1 \in 1..MaxTracks + 1 /\ 1..last = 1..nextId - 1 \cup born
  BY TrackManagerAssumption DEF TrackInv, TypeOK, Ids
<1>2. born \cap Live = {}
  BY <1>1 DEF TrackInv, LiveTracks
<1>3. DOMAIN m = Live \cup born
  BY DEF Measured
<1>4. Live' = {t \in Live \cup born : ~Expired(m[t])}
  BY <1>3 DEF UpdateTo, UpdateWith, ApplyLifecycleRules, Live
<1>5. \A t \in Live' : tracks'[t] = [m[t] EXCEPT !.status = StatusAfter(m[t])]
  BY <1>3 DEF UpdateTo, UpdateWith, ApplyLifecycleRules, Live
<1> HIDE DEF born, m
<1>6. \A t \in Live \cup born :
        /\ m[t] \in Quality
        /\ m[t].misses = IF t \in hit \cup born THEN 0 ELSE since[t] + 1
        /\ m[t].status = IF t \in born THEN "tentative" ELSE tracks[t].status
        /\ t \notin hit \cup born /\ m[t].status = "tentative" => m[t].hits < ConfirmHits
  BY <1>1, <1>2, MeasuredQuality DEF m
<1>7. hit \cup born \subseteq Live'
  <2> SUFFICES ASSUME NEW t \in hit \cup born
               PROVE  ~Expired(m[t])
    BY <1>4
  <2>1. m[t].misses = 0
    BY <1>6
  <2>2. QED
    BY <2>1, TrackManagerAssumption DEF Expired, Threshold
<1>8. \A t \in Live' : since'[t] = IF t \in hit \cup born THEN 0 ELSE since[t] + 1
  <2> SUFFICES ASSUME NEW t \in Live'
               PROVE  since'[t] = IF t \in hit \cup born THEN 0 ELSE since[t] + 1
    OBVIOUS
  <2>1. t \in Ids /\ (t \in Live \/ t \in born)
    BY <1>1, <1>4 DEF TrackInv, TypeOK
  <2>2. QED
    BY <2>1 DEF UpdateTo, UpdateWith, SinceAfter, Live, born
<1>9. ASSUME NEW t \in Live'
      PROVE  /\ AtRest(tracks'[t])
             /\ tracks'[t].misses = since'[t]
             /\ t \in Live /\ tracks[t].status = "confirmed" => tracks'[t].status = "confirmed"
  <2>1. m[t] \in Quality /\ ~Expired(m[t])
    BY <1>4, <1>6
  <2>2. m[t].status = "tentative" /\ m[t].hits >= ConfirmHits => m[t].misses = 0
    BY <1>4, <1>6, <2>1, TrackManagerAssumption DEF Quality
  <2>3. tracks'[t] = [m[t] EXCEPT !.status = StatusAfter(m[t])]
    BY <1>5
  <2>4. /\ AtRest(tracks'[t]) /\ tracks'[t].misses = m[t].misses
        /\ m[t].status = "confirmed" => tracks'[t].status = "confirmed"
    BY <2>1, <2>2, <2>3, KeptIsAtRest
  <2>5. QED
    BY <1>2, <1>4, <1>6, <1>8, <2>4
<1>10. QED
  BY <1>1, <1>2, <1>3, <1>4, <1>7, <1>8, <1>9 DEF born, m

\* What an update leaves of the deleted tracks it remembered.
LEMMA AgedTracks ==
  ASSUME TrackInv
  PROVE  /\ Aged \subseteq [id : Ids, confirmed : BOOLEAN, left : 0..Window]
         /\ \A r \in Aged : /\ r.id \in 1..nextId - 1 \ Live
                          /\ r.left >= 1
                          /\ r.left + since[r.id] + 1 = Window
         /\ \A t \in 1..nextId - 1 \ Live : since[t] + 1 < Window => \E r \in Aged : r.id = t
<1>1. /\ recent \subseteq [id : Ids, confirmed : BOOLEAN, left : 0..Window]
      /\ Window \in Nat /\ \A t \in Ids : since[t] \in Nat
      /\ 1..nextId - 1 \subseteq Ids
  BY TrackManagerAssumption DEF TrackInv, TypeOK, Ids
<1>2. ASSUME NEW x \in recent, x.left > 1
      PROVE  /\ [x EXCEPT !.left = @ - 1] \in [id : Ids, confirmed : BOOLEAN, left : 0..Window]
             /\ [x EXCEPT !.left = @ - 1].id = x.id
             /\ [x EXCEPT !.left = @ - 1].left = x.left - 1
             /\ x.left \in Nat
  BY <1>1, <1>2
<1>3. \A x \in recent : /\ x.id \in 1..nextId - 1 \ Live
                       /\ x.left >= 1 /\ x.left + since[x.id] = Window
  BY DEF TrackInv, DeletedTracks
<1>4. ASSUME NEW r \in Aged
      PROVE  /\ r \in [id : Ids, confirmed : BOOLEAN, left : 0..Window]
             /\ r.id \in 1..nextId - 1 \ Live
             /\ r.left >= 1
             /\ r.left + since[r.id] + 1 = Window
  <2>1. PICK x \in recent : x.left > 1 /\ r = [x EXCEPT !.left = @ - 1]
    BY DEF Aged
  <2>2. r.id = x.id /\ r.left = x.left - 1 /\ x.left \in Nat
        /\ r \in [id : Ids, confirmed : BOOLEAN, left : 0..Window]
    BY <1>2, <2>1
  <2>3. x.id \in 1..nextId - 1 \ Live /\ since[x.id] \in Nat /\ x.left + since[x.id] = Window
    BY <1>1, <1>3
  <2>4. QED
    BY <2>1, <2>2, <2>3
<1>5. ASSUME NEW t \in 1..nextId - 1 \ Live, since[t] + 1 < Window
      PROVE  \E r \in Aged : r.id = t
  <2>1. since[t] \in Nat
    BY <1>1
  <2>2. PICK x \in recent : x.id = t
    BY <1>1, <1>5, <2>1 DEF TrackInv, DeletedTracks
  <2>3. x.left > 1
    BY <1>1, <1>3, <1>5, <2>1, <2>2
  <2>4. [x EXCEPT !.left = @ - 1] \in Aged
    BY <2>3 DEF Aged
  <2>5. QED
    BY <1>2, <2>2, <2>3, <2>4
<1>6. QED
  BY <1>4, <1>5

LEMMA UpdateIsGood ==
  ASSUME TrackInv,
         NEW hit \in SUBSET Live, NEW last \in nextId - 1..MaxTracks,
         NEW refined \in SUBSET (Live \cup nextId..last),
         NEW near \in [nextId..last -> Lost \cup {0}],
         UpdateTo(hit, last, refined, near)
  PROVE  TrackInv'
<1> DEFINE born == nextId..last
           m == Measured(hit, born, refined)
<1>1. /\ born \subseteq Ids /\ born \cap Live = {} /\ nextId \in Nat
      /\ last + 1 \in 1..MaxTracks + 1 /\ 1..last = 1..nextId - 1 \cup born
      /\ DOMAIN m = Live \cup born
      /\ Live' = {t \in Live \cup born : ~Expired(m[t])}
      /\ hit \cup born \subseteq Live'
      /\ \A t \in Live' :
           /\ AtRest(tracks'[t])
           /\ tracks'[t].misses = since'[t]
           /\ since'[t] = IF t \in hit \cup born THEN 0 ELSE since[t] + 1
           /\ t \in Live /\ tracks[t].status = "confirmed" => tracks'[t].status = "confirmed"
  BY UpdateByTrack
<1>2. /\ Live \subseteq 1..nextId - 1 /\ 1..nextId - 1 \subseteq Ids /\ Live' \subseteq 1..last
      /\ nextId' = last + 1 /\ 1..nextId' - 1 = 1..last /\ last \in Int
  <2>1. nextId \in 1..MaxTracks + 1 /\ last \in Int /\ last \in nextId - 1..MaxTracks
    BY TrackManagerAssumption DEF TrackInv, TypeOK
  <2>2. Live \subseteq 1..nextId - 1 /\ nextId' = last + 1
    BY DEF TrackInv, LiveTracks, UpdateTo
  <2>3. 1..nextId' - 1 = 1..last /\ 1..nextId - 1 \subseteq Ids
    BY <2>1, <2>2, TrackManagerAssumption DEF Ids
  <2>4. QED
    BY <1>1, <2>1, <2>2, <2>3
<1>3. /\ recent' = Aged \cup
             {[id |-> t, confirmed |-> m[t].status = "confirmed", left |-> Window] :
                t \in (Live \cup born) \ Live'}
      /\ deltas' =
           [created   |-> born,
            confirmed |-> {t \in Live' : m[t].status # tracks'[t].status},
            updated   |-> hit \cup refined,
            coasted   |-> Live \ hit,
            deleted   |-> (Live \cup born) \ Live',
            warnings  |-> {<<near[t], t>> : t \in {x \in born : near[x] # 0}}]
      /\ since' = SinceAfter(hit, born)
      /\ pc = "update" /\ pc' = "report" /\ events' = events
  <2>1. {t \in DOMAIN m : Expired(m[t])} = (Live \cup born) \ Live'
    BY <1>1
  <2>2. QED
    BY <1>1, <2>1 DEF UpdateTo, UpdateWith, ApplyLifecycleRules, Live
<1> HIDE DEF born, m
<1>4. LiveTracks'
  BY <1>1, <1>2 DEF LiveTracks, AtRest, Quality, Threshold, Live
<1>5. \A t \in Ids :
           since'[t] = IF t \in hit \cup born \/ (t \in Live /\ t \notin Live') THEN 0
                       ELSE IF t \in Live \/ (t < nextId /\ since[t] < Window) THEN since[t] + 1
                       ELSE since[t]
  BY <1>3 DEF SinceAfter, Live
<1>6. Window \in Nat \ {0} /\ (\A t \in Ids : since[t] \in Nat) /\ last \in Int
  BY <1>2, TrackManagerAssumption DEF TrackInv, TypeOK
<1>7. DeletedTracks'
  <2>1. ASSUME NEW r \in recent'
        PROVE  /\ r.id \in 1..last \ Live'
               /\ r.left >= 1
               /\ r.left + since'[r.id] = Window
    <3>1. CASE r \in Aged
      <4>1. /\ r.id \in 1..nextId - 1 \ Live /\ r.left >= 1 /\ r.left + since[r.id] + 1 = Window
            /\ r.left \in Nat /\ r.id \in Ids
        BY <1>2, <3>1, AgedTracks
      <4>2. r.id \notin born /\ r.id \notin hit /\ r.id \notin Live' /\ r.id \in 1..last
        BY <1>1, <4>1 DEF born
      <4>3. since[r.id] \in Nat /\ since[r.id] < Window /\ r.id < nextId
        BY <1>1, <1>6, <4>1
      <4>4. since'[r.id] = since[r.id] + 1
        BY <1>5, <4>1, <4>2, <4>3
      <4>5. QED
        BY <1>6, <4>1, <4>2, <4>3, <4>4
    <3>2. CASE r \notin Aged
      <4>1. PICK t \in (Live \cup born) \ Live' :
              r = [id |-> t, confirmed |-> m[t].status = "confirmed", left |-> Window]
        BY <1>3, <3>2
      <4>2. t \in Live /\ t \notin hit \cup born /\ t \in 1..last /\ t \in Ids
        BY <1>1, <1>2, <4>1
      <4>3. since'[t] = 0
        BY <1>5, <4>1, <4>2
      <4>4. QED
        BY <1>6, <4>1, <4>2, <4>3
    <3>3. QED
      BY <3>1, <3>2
  <2>2. ASSUME NEW t \in 1..last \ Live', since'[t] < Window
        PROVE  \E r \in recent' : r.id = t
    <3>1. CASE t \in Live \cup born
      <4>1. [id |-> t, confirmed |-> m[t].status = "confirmed", left |-> Window] \in recent'
        BY <1>3, <3>1
      <4>2. QED
        BY <4>1
    <3>2. CASE t \notin Live \cup born
      <4>1. t \in 1..nextId - 1 \ Live /\ t \in Ids /\ t < nextId /\ t \notin hit
        BY <1>1, <1>2, <3>2
      <4>2. since[t] + 1 < Window
        BY <1>5, <1>6, <2>2, <3>2, <4>1
      <4>3. PICK r \in Aged : r.id = t
        BY <4>1, <4>2, AgedTracks
      <4>4. QED
        BY <1>3, <4>3
    <3>3. QED
      BY <3>1, <3>2
  <2>3. 1..nextId' - 1 \ Live' = 1..last \ Live'
    BY <1>2
  <2>4. QED
    BY <2>1, <2>2, <2>3 DEF DeletedTracks, Live
<1>8. TableFollows'
  <2>1. events = Live
    BY <1>3 DEF TrackInv, TableFollows
  <2>2. /\ deltas'.created = born /\ deltas'.updated = hit \cup refined
        /\ deltas'.confirmed \subseteq Live' /\ deltas'.deleted = (Live \cup born) \ Live'
    BY <1>3
  <2>3. refined \subseteq Live \cup born /\ hit \subseteq Live
    BY DEF born
  <2>4. Reported' = Live'
    BY <1>1, <1>3, <2>1, <2>2, <2>3 DEF Reported
  <2>5. QED
    BY <1>3, <2>4 DEF TableFollows
<1>9. TypeOK'
  <2>1. Live' \subseteq Ids /\ \A t \in Live' : tracks'[t] \in Quality
    BY <1>1, <1>2 DEF TrackInv, TypeOK, AtRest
  <2>2. recent' \subseteq [id : Ids, confirmed : BOOLEAN, left : 0..Window]
    <3>1. ASSUME NEW t \in Ids
          PROVE  [id |-> t, confirmed |-> m[t].status = "confirmed", left |-> Window]
                   \in [id : Ids, confirmed : BOOLEAN, left : 0..Window]
      BY <1>6
    <3>2. (Live \cup born) \ Live' \subseteq Ids
      BY <1>1, <1>2
    <3>3. ASSUME NEW r \in recent'
          PROVE  r \in [id : Ids, confirmed : BOOLEAN, left : 0..Window]
      <4>1. CASE r \in Aged
        BY <4>1, AgedTracks
      <4>2. CASE r \notin Aged
        <5>1. PICK t \in (Live \cup born) \ Live' :
                r = [id |-> t, confirmed |-> m[t].status = "confirmed", left |-> Window]
          BY <1>3, <4>2
        <5>2. QED
          BY <3>1, <3>2, <5>1
      <4>3. QED
        BY <4>1, <4>2
    <3>4. QED
      BY <3>3
  <2>3. deltas' \in Deltas
    <3>1. Lost \subseteq Ids
      BY AgedTracks DEF Lost
    <3>2. {<<near[t], t>> : t \in {x \in born : near[x] # 0}} \subseteq Ids \X Ids
      BY <1>1, <3>1 DEF born
    <3>3. refined \subseteq Ids /\ hit \subseteq Ids
      BY <1>1, <1>2 DEF born
    <3>4. QED
      BY <1>1, <1>2, <1>3, <2>1, <3>2, <3>3 DEF Deltas
  <2>4. since' \in [Ids -> 0..Window + DeleteMisses + ConfirmedDeleteMisses]
    <3>1. DOMAIN since' = Ids /\ since' = [t \in Ids |-> since'[t]]
      BY <1>3 DEF SinceAfter
    <3>2. ASSUME NEW t \in Ids
          PROVE  since'[t] \in 0..Window + DeleteMisses + ConfirmedDeleteMisses
      <4>1. CASE t \in Live'
        BY <1>1, <4>1, TrackManagerAssumption DEF AtRest, Quality
      <4>2. CASE t \notin Live'
        <5>1. since[t] \in 0..Window + DeleteMisses + ConfirmedDeleteMisses
          BY DEF TrackInv, TypeOK
        <5>2. since'[t] = 0 \/ since'[t] = since[t] \/ (since[t] < Window /\ since'[t] = since[t] + 1)
          BY <1>1, <1>5, <4>2
        <5>3. QED
          BY <5>1, <5>2, TrackManagerAssumption
      <4>3. QED
        BY <4>1, <4>2
    <3>3. QED
      BY <3>1, <3>2
  <2>5. nextId' \in 1..MaxTracks + 1 /\ events' \subseteq Ids /\ pc' \in {"update", "report"}
    BY <1>1, <1>2, <1>3 DEF TrackInv, TypeOK
  <2>6. QED
    BY <2>1, <2>2, <2>3, <2>4, <2>5 DEF TypeOK, Live, Ids, Quality, Deltas
<1>10. QED
  BY <1>4, <1>7, <1>8, <1>9 DEF TrackInv

LEMMA ReportIsGood ==
  ASSUME TrackInv, Report
  PROVE  TrackInv'
<1>1. UNCHANGED <<tracks, nextId, recent, deltas, since>> /\ events' = Reported
      /\ pc = "report" /\ pc' = "update"
  BY DEF Report, managerVars
<1>2. Reported = Live /\ Live' = Live
  BY <1>1 DEF TrackInv, TableFollows, Live
<1>3. QED
  BY <1>1, <1>2 DEF TrackInv, TypeOK, LiveTracks, DeletedTracks, TableFollows, Live

\* An update is one of its choices.
LEMMA UpdateTakenApart ==
  ASSUME TrackInv, Update
  PROVE  \E hit \in SUBSET Live, last \in nextId - 1..MaxTracks :
           \E refined \in SUBSET (Live \cup nextId..last),
              near \in [nextId..last -> Lost \cup {0}] :
             UpdateTo(hit, last, refined, near)
<1>1. PICK hit \in SUBSET Live, last \in nextId - 1..MaxTracks :
        LET born == nextId..last
        IN  /\ nextId' = last + 1
            /\ \E refined \in (IF UseEoir THEN SUBSET (Live \cup born) ELSE {{}}),
                  near \in [born -> Lost \cup {0}] :
                 UpdateWith(hit, born, refined, near)
  BY DEF Update
<1>2. PICK refined \in (IF UseEoir THEN SUBSET (Live \cup nextId..last) ELSE {{}}),
           near \in [nextId..last -> Lost \cup {0}] :
        UpdateWith(hit, nextId..last, refined, near)
  BY <1>1
<1>3. refined \in SUBSET (Live \cup nextId..last)
  BY <1>2
<1>4. UpdateTo(hit, last, refined, near)
  BY <1>1, <1>2 DEF Update, UpdateTo
<1>5. QED
  BY <1>3, <1>4

-----------------------------------------------------------------------------
(***************************************************************************)
(* The theorems.                                                           *)
(***************************************************************************)

\* The invariant every other theorem rests on.
THEOREM TrackInvariance == Spec => []TrackInv
<1>1. TrackInv /\ [Next]_vars => TrackInv'
  <2> SUFFICES ASSUME TrackInv, [Next]_vars
               PROVE  TrackInv'
    OBVIOUS
  <2>1. CASE Update
    BY <2>1, UpdateTakenApart, UpdateIsGood
  <2>2. CASE Report
    BY <2>2, ReportIsGood
  <2>3. CASE UNCHANGED vars
    BY <2>3 DEF vars, managerVars, TrackInv, TypeOK, LiveTracks, DeletedTracks, TableFollows,
                Live, AtRest, Quality, Threshold, Reported
  <2>4. QED
    BY <2>1, <2>2, <2>3 DEF Next
<1>2. QED
  BY <1>1, TrackInitIsGood, PTL DEF Spec

\* Every variable stays in its type.
THEOREM TracksWellTyped == Spec => []TypeOK
<1>1. TrackInv => TypeOK
  BY DEF TrackInv
<1>2. QED
  BY <1>1, TrackInvariance, PTL

\* No live track has been silent for as long as its status allows.
THEOREM SilentTracksGo == Spec => []NoTrackOutlivesSilence
<1>1. TrackInv => NoTrackOutlivesSilence
  BY DEF TrackInv, LiveTracks, AtRest, Threshold, NoTrackOutlivesSilence
<1>2. QED
  BY <1>1, TrackInvariance, PTL

\* Between ticks the loop's table of events is of the live tracks.
THEOREM EventsAreOfLiveTracks == Spec => []EventsFollowTracks
<1>1. TrackInv => EventsFollowTracks
  BY DEF TrackInv, TableFollows, EventsFollowTracks
<1>2. QED
  BY <1>1, TrackInvariance, PTL

\* A deleted track is remembered for its window and no longer.
THEOREM MemoryIsAWindow == Spec => []DeletedAreRemembered
<1>1. TrackInv => DeletedAreRemembered
  <2> SUFFICES ASSUME TrackInv, NEW t \in 1..nextId - 1 \ Live
               PROVE  (\E r \in recent : r.id = t) <=> since[t] < Window
    BY DEF DeletedAreRemembered
  <2>1. ASSUME NEW r \in recent, r.id = t
        PROVE  since[t] < Window
    <3>1. r.left \in Nat /\ t \in Ids /\ r.left >= 1 /\ r.left + since[t] = Window
      BY <2>1, TrackManagerAssumption DEF TrackInv, TypeOK, DeletedTracks
    <3>2. since[t] \in Nat
      BY <3>1, TrackManagerAssumption DEF TrackInv, TypeOK
    <3>3. QED
      BY <3>1, <3>2, TrackManagerAssumption
  <2>2. QED
    BY <2>1 DEF TrackInv, DeletedTracks
<1>2. QED
  BY <1>1, TrackInvariance, PTL

\* A track deleted by an update had missed it and enough of those before.
LEMMA DeletedWasSilent ==
  ASSUME TrackInv, NEW hit \in SUBSET Live, NEW last \in nextId - 1..MaxTracks,
         NEW refined, NEW near, UpdateTo(hit, last, refined, near),
         NEW t \in Live \ Live'
  PROVE  since[t] + 1 >= Threshold(tracks[t])
<1> DEFINE born == nextId..last
           m == Measured(hit, born, refined)
<1>1. /\ born \subseteq Ids /\ born \cap Live = {} /\ nextId \in Nat
      /\ last + 1 \in 1..MaxTracks + 1 /\ 1..last = 1..nextId - 1 \cup born
      /\ DOMAIN m = Live \cup born
      /\ Live' = {x \in Live \cup born : ~Expired(m[x])}
      /\ hit \cup born \subseteq Live'
      /\ \A x \in Live' :
           /\ AtRest(tracks'[x])
           /\ tracks'[x].misses = since'[x]
           /\ since'[x] = IF x \in hit \cup born THEN 0 ELSE since[x] + 1
           /\ x \in Live /\ tracks[x].status = "confirmed" => tracks'[x].status = "confirmed"
  BY UpdateByTrack
<1> HIDE DEF born
<1>2. Expired(m[t]) /\ t \notin hit \cup born
  BY <1>1
<1>3. m[t].misses = since[t] + 1 /\ m[t].status = tracks[t].status
  BY <1>1, <1>2, MeasuredQuality
<1> HIDE DEF m
<1>4. QED
  BY <1>2, <1>3 DEF Expired, Threshold

\* Only as many misses in a row as its status asks for delete a track.
THEOREM DeletionNeedsSilence == Spec => OnlySilenceDeletes
<1> DEFINE DeletesTheSilent ==
      \A t \in Live \ DOMAIN tracks' :
        since[t] + 1 >= IF tracks[t].status = "confirmed" THEN ConfirmedDeleteMisses
                                                          ELSE DeleteMisses
<1>1. TrackInv /\ [Next]_vars => [DeletesTheSilent]_vars
  <2> SUFFICES ASSUME TrackInv, Next
               PROVE  DeletesTheSilent
    OBVIOUS
  <2>1. CASE Update
    <3>1. PICK hit \in SUBSET Live, last \in nextId - 1..MaxTracks :
            \E refined, near : UpdateTo(hit, last, refined, near)
      BY <2>1, UpdateTakenApart
    <3>2. PICK refined, near : UpdateTo(hit, last, refined, near)
      BY <3>1
    <3>3. QED
      BY <3>2, DeletedWasSilent DEF Threshold, Live
  <2>2. CASE Report
    BY <2>2 DEF Report, managerVars, Live
  <2>3. QED
    BY <2>1, <2>2 DEF Next
<1>2. QED
  BY <1>1, TrackInvariance, PTL DEF Spec, OnlySilenceDeletes

\* Each id goes through the life the rest of the program relies on.
THEOREM TracksLiveProperly == Spec => ImplementsLifecycle
<1>1. Init => Lifecycle!LifecycleInit
  BY DEF Init, Lifecycle!LifecycleInit, StageOf, Ids
<1>2. TrackInv /\ [Next]_vars => [Lifecycle!LifecycleNext]_[t \in Ids |-> StageOf(t)]
  <2> SUFFICES ASSUME TrackInv, [Next]_vars
               PROVE  \/ Lifecycle!LifecycleNext
                      \/ [t \in Ids |-> StageOf(t)]' = [t \in Ids |-> StageOf(t)]
    OBVIOUS
  <2>1. CASE Update
    <3>1. PICK hit \in SUBSET Live, last \in nextId - 1..MaxTracks :
            \E refined, near : UpdateTo(hit, last, refined, near)
      BY <2>1, UpdateTakenApart
    <3>2. PICK refined, near : UpdateTo(hit, last, refined, near)
      BY <3>1
    <3> DEFINE born == nextId..last
               m == Measured(hit, born, refined)
    <3>3. /\ born \subseteq Ids /\ born \cap Live = {} /\ nextId \in Nat
          /\ last + 1 \in 1..MaxTracks + 1 /\ 1..last = 1..nextId - 1 \cup born
          /\ DOMAIN m = Live \cup born
          /\ Live' = {t \in Live \cup born : ~Expired(m[t])}
          /\ hit \cup born \subseteq Live'
          /\ \A t \in Live' :
               /\ AtRest(tracks'[t])
               /\ tracks'[t].misses = since'[t]
               /\ since'[t] = IF t \in hit \cup born THEN 0 ELSE since[t] + 1
               /\ t \in Live /\ tracks[t].status = "confirmed" => tracks'[t].status = "confirmed"
      BY <3>2, UpdateByTrack
    <3> HIDE DEF m
    <3>4. nextId' = last + 1 /\ last \in Int /\ last >= nextId - 1
      BY <3>2, TrackManagerAssumption DEF UpdateTo, TrackInv, TypeOK
    <3>5. Live \subseteq 1..nextId - 1 /\ \A t \in Live : tracks[t].status \in {"tentative", "confirmed"}
      BY DEF TrackInv, TypeOK, LiveTracks, Quality
    <3>6. \A t \in Live' : tracks'[t].status \in {"tentative", "confirmed"}
      BY <3>3 DEF AtRest, Quality
    <3>7. ASSUME NEW t \in Ids
          PROVE  StageOf(t)' \in Lifecycle!Stage /\ StageOf(t)' \in Lifecycle!NextStage(StageOf(t))
      <4>1. CASE t \in born
        <5>1. StageOf(t) = "unborn" /\ StageOf(t)' \in {"tentative", "confirmed"}
          BY <3>3, <3>4, <3>6, <4>1 DEF StageOf, Live
        <5>2. QED
          BY <5>1 DEF Lifecycle!Stage, Lifecycle!NextStage
      <4>2. CASE t \in Live
        <5>1. StageOf(t) = tracks[t].status /\ t < nextId'
          BY <3>3, <3>4, <3>5, <4>2 DEF StageOf
        <5>2. CASE t \in Live'
          <6>1. StageOf(t)' = tracks'[t].status
            BY <3>3, <3>4, <5>1, <5>2 DEF StageOf, Live, Ids
          <6>2. QED
            BY <3>3, <3>5, <3>6, <4>2, <5>1, <5>2, <6>1 DEF Lifecycle!Stage, Lifecycle!NextStage
        <5>3. CASE t \notin Live'
          <6>1. StageOf(t)' = "gone"
            BY <3>3, <3>4, <5>1, <5>3 DEF StageOf, Live, Ids
          <6>2. QED
            BY <3>5, <4>2, <5>1, <6>1 DEF Lifecycle!Stage, Lifecycle!NextStage
        <5>4. QED
          BY <5>2, <5>3
      <4>3. CASE t \notin Live \cup born
        <5>1. t \notin Live' /\ (t >= nextId <=> t >= nextId')
          BY <3>3, <3>4, <4>3 DEF Ids
        <5>2. StageOf(t)' = StageOf(t) /\ StageOf(t) \in {"unborn", "gone"}
          BY <4>3, <5>1 DEF StageOf, Live
        <5>3. QED
          BY <5>2 DEF Lifecycle!Stage, Lifecycle!NextStage
      <4>4. QED
        BY <4>1, <4>2, <4>3
    <3>8. Lifecycle!LifecycleNext
      BY <3>7 DEF Lifecycle!LifecycleNext
    <3>9. QED
      BY <3>8
  <2>2. CASE Report \/ UNCHANGED vars
    BY <2>2 DEF Report, vars, managerVars, StageOf, Live
  <2>3. QED
    BY <2>1, <2>2 DEF Next
<1>3. QED
  BY <1>1, <1>2, TrackInvariance, PTL DEF Spec, ImplementsLifecycle, Lifecycle!LifecycleSpec

=============================================================================
