------------------------ MODULE HealthMonitorProofs -------------------------
(***************************************************************************)
(* Silence is reported in time, and a running sensor is not taken for a    *)
(* silent one: for any number of sensors and streams and any timing that   *)
(* leaves the heartbeats room.                                             *)
(***************************************************************************)
EXTENDS HealthMonitor, TLAPS

-----------------------------------------------------------------------------
(***************************************************************************)
(* The invariant.                                                          *)
(***************************************************************************)

\* No thread holds a time for longer than Lag.
HeldBriefly ==
  /\ \A c \in scan : c <= Lag
  /\ \A s \in Sensors, h \in Streams : \A p \in ping[<<s, h>>] : p <= Lag

\* Neither what is recorded nor what is about to be is younger than the last
\* heartbeat: a handler may record an older one over it.
NotYounger ==
  \A s \in Sensors :
    /\ \A seen \in lastSeen[s] : heard[s] <= seen
    /\ \A h \in Streams : \A p \in ping[<<s, h>>] : heard[s] <= p

\* How long a sensor can have been silent before it is marked: the timeout and a
\* delay by the last scan, and what the monitor has spent since.
MarkedInTime ==
  \A s \in Sensors :
    lastSeen[s] # {} /\ ~stale[s] =>
      /\ scan = {} => heard[s] <= Timeout + Lag + slept
      /\ \A c \in scan : heard[s] <= Timeout + Lag + slept + c

SilenceInv == TypeOK /\ HeldBriefly /\ NotYounger /\ MarkedInTime

\* A running sensor beats.
BeatsInTime == \A s \in Sensors : \A n \in up[s] : n <= Beat \/ heard[s] <= Beat

\* What is recorded is not much older than the last heartbeat, or one that is
\* not recorded yet will soon replace it.
Fresh(s) ==
  \A seen \in lastSeen[s] :
    \/ seen <= Lag + heard[s]
    \/ \E h \in Streams : \E p \in ping[<<s, h>>] : seen <= Beat + Lag + p

\* A running sensor is fresh and not marked, or has not beaten since its start,
\* or one of its first heartbeats is not recorded yet.
HeardOrSoonHeard ==
  \A s \in Sensors : \A n \in up[s] :
    \/ Fresh(s) /\ ~stale[s]
    \/ n <= Beat /\ n <= heard[s]
    \/ \E h \in Streams : \E p \in ping[<<s, h>>] : n <= Beat + p

RunningInv == TypeOK /\ HeldBriefly /\ BeatsInTime /\ HeardOrSoonHeard

-----------------------------------------------------------------------------
(***************************************************************************)
(* Time.                                                                   *)
(***************************************************************************)

\* The bounds are beyond all the times that matter.
LEMMA Bounds ==
  /\ Beat \in Nat /\ Timeout \in Nat /\ Period \in Nat /\ Lag \in Nat
  /\ Forever \in Nat /\ Overdue \in Nat
  /\ Overdue = Timeout + Period + Lag + Lag + 1
  /\ Forever = Overdue + Lag + Beat
BY MonitorAssumption DEF Forever, Overdue

\* What a tick does to an age.
LEMMA OlderAge ==
  ASSUME NEW n \in Age
  PROVE  /\ Older(n) \in Age
         /\ n <= Older(n) /\ Older(n) <= n + 1
         /\ n < Forever => Older(n) = n + 1
         /\ \A m \in Age : n <= m => Older(n) <= Older(m)
BY Bounds DEF Older, Age

\* A tick makes every age of a set older, and no other.
LEMMA OlderAges ==
  ASSUME NEW ages, NEW m \in AllOlder(ages)
  PROVE  \E n \in ages : m = Older(n)
BY DEF AllOlder

\* What may be known or not stays so.
LEMMA MaybeOlder ==
  ASSUME NEW ages \in Maybe
  PROVE  /\ AllOlder(ages) \in Maybe
         /\ ages \subseteq Age
         /\ AllOlder(ages) = {} <=> ages = {}
         /\ \A n \in ages : ages = {n} /\ AllOlder(ages) = {Older(n)}
<1>1. CASE ages = {}
  BY <1>1 DEF AllOlder, Maybe
<1>2. ASSUME NEW n \in Age, ages = {n}
      PROVE  /\ AllOlder(ages) \in Maybe
             /\ ages \subseteq Age
             /\ AllOlder(ages) = {} <=> ages = {}
             /\ \A k \in ages : ages = {k} /\ AllOlder(ages) = {Older(k)}
  <2>1. AllOlder(ages) = {Older(n)} /\ Older(n) \in Age
    BY <1>2, OlderAge DEF AllOlder
  <2>2. QED
    BY <1>2, <2>1 DEF Maybe
<1>3. ages = {} \/ \E n \in Age : ages = {n}
  BY DEF Maybe
<1>4. QED
  BY <1>1, <1>2, <1>3

\* What is under type is known to be one age or none.
LEMMA KnownTimes ==
  ASSUME TypeOK
  PROVE  /\ scan \in Maybe /\ scan \subseteq Age
         /\ slept \in Nat /\ slept <= Period
         /\ \A s \in Sensors :
              /\ lastSeen[s] \in Maybe /\ lastSeen[s] \subseteq Age
              /\ up[s] \in Maybe /\ up[s] \subseteq Age
              /\ heard[s] \in Age
              /\ \A h \in Streams : ping[<<s, h>>] \in Maybe /\ ping[<<s, h>>] \subseteq Age
<1>1. \A ages \in Maybe : ages \subseteq Age
  BY DEF Maybe
<1>2. \A s \in Sensors, h \in Streams : ping[<<s, h>>] \in Maybe
  BY DEF TypeOK, Handlers
<1>3. QED
  BY <1>1, <1>2, Bounds DEF TypeOK


LEMMA TypesAtFirst == Init => TypeOK
<1>1. 0 \in Age /\ {} \in Maybe /\ 0 \in 0..Period
  BY Bounds DEF Age, Maybe
<1>2. QED
  BY <1>1 DEF Init, TypeOK

LEMMA TypesAfterStep ==
  ASSUME TypeOK, [Next]_vars
  PROVE  TypeOK'
<1>1. 0 \in Age /\ {} \in Maybe /\ {0} \in Maybe /\ 0 \in 0..Period
  BY Bounds DEF Age, Maybe
<1>2. ASSUME NEW s \in Sensors, Start(s) \/ Stop(s) PROVE TypeOK'
  BY <1>1, <1>2 DEF TypeOK, Start, Stop
<1>3. ASSUME NEW s \in Sensors, NEW h \in Streams, ReadClock(s, h) PROVE TypeOK'
  BY <1>1, <1>3 DEF TypeOK, ReadClock
<1>4. ASSUME NEW s \in Sensors, NEW h \in Streams, Record(s, h) PROVE TypeOK'
  <2>1. ping[<<s, h>>] \in Maybe
    BY KnownTimes
  <2>2. lastSeen' \in [Sensors -> Maybe]
    BY <1>4, <2>1 DEF TypeOK, Record, SeenAfterPing
  <2>3. QED
    BY <1>1, <1>4, <2>2 DEF TypeOK, Record, StaleAfterPing
<1>5. CASE StartScan
  BY <1>1, <1>5 DEF TypeOK, StartScan
<1>6. CASE Scan
  <2>1. \A s \in Sensors : (stale[s] \/ Stale(s)) \in BOOLEAN
    OBVIOUS
  <2>2. stale' \in [Sensors -> BOOLEAN]
    BY <1>6, <2>1 DEF Scan
  <2>3. QED
    BY <1>1, <1>6, <2>2 DEF TypeOK, Scan
<1>7. CASE Tick
  <2>1. \A ages \in Maybe : AllOlder(ages) \in Maybe
    BY MaybeOlder
  <2>2. lastSeen' \in [Sensors -> Maybe] /\ up' \in [Sensors -> Maybe] /\ ping' \in [Handlers -> Maybe]
    BY <1>7, <2>1 DEF TypeOK, Tick
  <2>3. scan' \in Maybe /\ stale' \in [Sensors -> BOOLEAN]
    BY <1>7, <2>1 DEF TypeOK, Tick
  <2>4. slept' \in 0..Period
    BY <1>7, Bounds DEF TypeOK, Tick
  <2>5. heard' \in [Sensors -> Age]
    BY <1>7, OlderAge DEF TypeOK, Tick
  <2>6. QED
    BY <2>2, <2>3, <2>4, <2>5 DEF TypeOK
<1>8. CASE UNCHANGED vars
  BY <1>8 DEF TypeOK, vars
<1>9. QED
  BY <1>2, <1>3, <1>4, <1>5, <1>6, <1>7, <1>8 DEF Next

\* What a tick does to each time.
LEMMA TickAges ==
  ASSUME TypeOK, Tick
  PROVE  /\ scan = {} => scan' = {} /\ slept' = slept + 1
         /\ scan # {} => slept' = slept
         /\ scan' = {} => scan = {}
         /\ \A m \in scan' : \E n \in scan : m = Older(n) /\ n # Lag
         /\ \A s \in Sensors :
              /\ heard'[s] = Older(heard[s])
              /\ stale'[s] = stale[s]
              /\ lastSeen'[s] = {} <=> lastSeen[s] = {}
              /\ \A m \in lastSeen'[s] : \E n \in lastSeen[s] : m = Older(n)
              /\ \A m \in up'[s] : \E n \in up[s] : m = Older(n)
              /\ \A h \in Streams :
                   /\ \A m \in ping'[<<s, h>>] : \E n \in ping[<<s, h>>] : m = Older(n) /\ n # Lag
                   /\ \A n \in ping[<<s, h>>] : Older(n) \in ping'[<<s, h>>] /\ n # Lag
<1>1. \A ages \in Maybe : AllOlder(ages) = {} <=> ages = {}
  BY MaybeOlder
<1>2. \A ages : \A m \in AllOlder(ages) : \E n \in ages : m = Older(n)
  BY DEF AllOlder
<1>3. \A ages : \A n \in ages : Older(n) \in AllOlder(ages)
  BY DEF AllOlder
<1>4. /\ scan' = AllOlder(scan) /\ Lag \notin scan
      /\ \A s \in Sensors :
           /\ lastSeen'[s] = AllOlder(lastSeen[s]) /\ up'[s] = AllOlder(up[s])
           /\ heard'[s] = Older(heard[s]) /\ stale'[s] = stale[s]
           /\ \A h \in Streams : ping'[<<s, h>>] = AllOlder(ping[<<s, h>>]) /\ Lag \notin ping[<<s, h>>]
  BY DEF Tick, Handlers
<1>5. slept' = IF scan = {} THEN slept + 1 ELSE slept
  BY DEF Tick
<1>6. ASSUME NEW s \in Sensors
      PROVE  /\ lastSeen'[s] = {} <=> lastSeen[s] = {}
             /\ \A m \in lastSeen'[s] : \E n \in lastSeen[s] : m = Older(n)
             /\ \A m \in up'[s] : \E n \in up[s] : m = Older(n)
  BY <1>1, <1>2, <1>4, KnownTimes
<1>7. ASSUME NEW s \in Sensors, NEW h \in Streams
      PROVE  /\ \A m \in ping'[<<s, h>>] : \E n \in ping[<<s, h>>] : m = Older(n) /\ n # Lag
             /\ \A n \in ping[<<s, h>>] : Older(n) \in ping'[<<s, h>>] /\ n # Lag
  <2>1. ping'[<<s, h>>] = AllOlder(ping[<<s, h>>]) /\ Lag \notin ping[<<s, h>>]
    BY <1>4
  <2>2. QED
    BY <1>2, <1>3, <2>1
<1>8. /\ scan' = {} <=> scan = {}
      /\ \A m \in scan' : \E n \in scan : m = Older(n) /\ n # Lag
  BY <1>1, <1>2, <1>4, KnownTimes
<1>9. QED
  BY <1>4, <1>5, <1>6, <1>7, <1>8

-----------------------------------------------------------------------------
(***************************************************************************)
(* Silence.                                                                *)
(***************************************************************************)

LEMMA SilenceInvAtFirst == Init => SilenceInv
<1> SUFFICES ASSUME Init
             PROVE  SilenceInv
  OBVIOUS
<1>1. TypeOK
  BY TypesAtFirst
<1>2. \A s \in Sensors, h \in Streams : ping[<<s, h>>] = {}
  BY DEF Init, Handlers
<1>3. \A s \in Sensors : lastSeen[s] = {}
  BY DEF Init
<1>4. HeldBriefly
  BY <1>2 DEF Init, HeldBriefly
<1>5. NotYounger /\ MarkedInTime
  BY <1>2, <1>3 DEF NotYounger, MarkedInTime
<1>6. QED
  BY <1>1, <1>4, <1>5 DEF SilenceInv

\* Threads hold their times briefly, whatever happens.
LEMMA HeldBrieflyAfterStep ==
  ASSUME TypeOK, HeldBriefly, [Next]_vars
  PROVE  HeldBriefly'
<1>1. CASE UNCHANGED <<ping, scan>>
  BY <1>1 DEF HeldBriefly
<1>2. ASSUME NEW s \in Sensors, NEW h \in Streams, ReadClock(s, h) \/ Record(s, h)
      PROVE  HeldBriefly'
  <2>1. ASSUME NEW x \in Sensors, NEW y \in Streams, NEW p \in ping'[<<x, y>>]
        PROVE  p <= Lag
    <3>1. p = 0 \/ p \in ping[<<x, y>>]
      BY <1>2 DEF TypeOK, Handlers, ReadClock, Record
    <3>2. QED
      BY <3>1, Bounds DEF HeldBriefly
  <2>2. UNCHANGED scan
    BY <1>2 DEF ReadClock, Record
  <2>3. QED
    BY <2>1, <2>2 DEF HeldBriefly
<1>3. CASE StartScan \/ Scan
  BY <1>3, Bounds DEF HeldBriefly, StartScan, Scan
<1>4. CASE Tick
  <2>1. \A n \in Age : n <= Lag /\ n # Lag => Older(n) <= Lag
    BY OlderAge, Bounds DEF Age
  <2>2. \A m \in scan' : m <= Lag
    BY <1>4, <2>1, TickAges, KnownTimes DEF HeldBriefly
  <2>3. ASSUME NEW s \in Sensors, NEW h \in Streams, NEW m \in ping'[<<s, h>>]
        PROVE  m <= Lag
    <3>1. PICK n \in ping[<<s, h>>] : m = Older(n) /\ n # Lag
      BY <1>4, TickAges
    <3>2. QED
      BY <2>1, <3>1, KnownTimes DEF HeldBriefly
  <2>4. QED
    BY <2>2, <2>3 DEF HeldBriefly
<1>5. QED
  BY <1>1, <1>2, <1>3, <1>4 DEF Next, Start, Stop, vars

\* What a heartbeat does to its sensor's times, and to no other's.
LEMMA ReadClockTimes ==
  ASSUME TypeOK, NEW s \in Sensors, NEW h \in Streams, ReadClock(s, h)
  PROVE  /\ UNCHANGED <<scan, slept, up, lastSeen, stale>>
         /\ up[s] # {} /\ ping[<<s, h>>] = {}
         /\ heard'[s] = 0
         /\ \A x \in Sensors : x # s => heard'[x] = heard[x]
         /\ ping'[<<s, h>>] = {0}
BY DEF TypeOK, Handlers, ReadClock

\* What recording it does.
LEMMA RecordTimes ==
  ASSUME TypeOK, NEW s \in Sensors, NEW h \in Streams, Record(s, h)
  PROVE  /\ UNCHANGED <<scan, slept, up, heard>>
         /\ ping[<<s, h>>] # {}
         /\ lastSeen'[s] = ping[<<s, h>>] /\ ~stale'[s]
         /\ ping'[<<s, h>>] = {}
BY DEF TypeOK, Handlers, Record, SeenAfterPing, StaleAfterPing

LEMMA NotYoungerAfterStep ==
  ASSUME TypeOK, NotYounger, [Next]_vars
  PROVE  NotYounger'
<1>1. CASE UNCHANGED <<lastSeen, ping, heard>>
  BY <1>1 DEF NotYounger
<1>2. ASSUME NEW s \in Sensors, NEW h \in Streams, ReadClock(s, h) \/ Record(s, h),
             NEW x \in Sensors
      PROVE  /\ \A seen \in lastSeen'[x] : heard'[x] <= seen
             /\ \A y \in Streams : \A p \in ping'[<<x, y>>] : heard'[x] <= p
  <2>1. \A seen \in lastSeen[x] : heard[x] <= seen /\ seen \in Nat
    BY KnownTimes DEF NotYounger, Age
  <2>2. \A y \in Streams : \A p \in ping[<<x, y>>] : heard[x] <= p /\ p \in Nat
    BY KnownTimes DEF NotYounger, Age
  <2>3. CASE ReadClock(s, h)
    <3>1. heard'[x] \in {0, heard[x]} /\ lastSeen'[x] = lastSeen[x]
      BY <2>3, ReadClockTimes
    <3>2. \A y \in Streams : ping'[<<x, y>>] = ping[<<x, y>>] \/ (ping'[<<x, y>>] = {0} /\ heard'[x] = 0)
      <4> SUFFICES ASSUME NEW y \in Streams, ping'[<<x, y>>] # ping[<<x, y>>]
                   PROVE  ping'[<<x, y>>] = {0} /\ heard'[x] = 0
        OBVIOUS
      <4>1. x = s /\ y = h
        BY <2>3 DEF ReadClock, TypeOK, Handlers
      <4>2. QED
        BY <2>3, <4>1, ReadClockTimes
    <3>3. QED
      BY <2>1, <2>2, <3>1, <3>2
  <2>4. CASE Record(s, h)
    <3>1. heard'[x] = heard[x] /\ (lastSeen'[x] = lastSeen[x] \/ lastSeen'[x] = ping[<<x, h>>])
      BY <2>4 DEF Record, SeenAfterPing, TypeOK
    <3>2. \A y \in Streams : ping'[<<x, y>>] = ping[<<x, y>>] \/ ping'[<<x, y>>] = {}
      <4> SUFFICES ASSUME NEW y \in Streams, ping'[<<x, y>>] # ping[<<x, y>>]
                   PROVE  ping'[<<x, y>>] = {}
        OBVIOUS
      <4>1. x = s /\ y = h
        BY <2>4 DEF Record, TypeOK, Handlers
      <4>2. QED
        BY <2>4, <4>1, RecordTimes
    <3>3. QED
      BY <2>1, <2>2, <3>1, <3>2
  <2>5. QED
    BY <1>2, <2>3, <2>4
<1>3. ASSUME Tick, NEW x \in Sensors
      PROVE  /\ \A seen \in lastSeen'[x] : heard'[x] <= seen
             /\ \A y \in Streams : \A p \in ping'[<<x, y>>] : heard'[x] <= p
  <2>1. \A m, n \in Age : m <= n => Older(m) <= Older(n)
    BY OlderAge
  <2>2. heard[x] \in Age /\ heard'[x] = Older(heard[x])
    BY <1>3, KnownTimes, TickAges
  <2>3. ASSUME NEW seen \in lastSeen'[x] PROVE heard'[x] <= seen
    <3>1. PICK n \in lastSeen[x] : seen = Older(n)
      BY <1>3, TickAges
    <3>2. n \in Age /\ heard[x] <= n
      BY KnownTimes DEF NotYounger
    <3>3. QED
      BY <2>1, <2>2, <3>1, <3>2
  <2>4. ASSUME NEW y \in Streams, NEW p \in ping'[<<x, y>>] PROVE heard'[x] <= p
    <3>1. PICK n \in ping[<<x, y>>] : p = Older(n)
      BY <1>3, TickAges
    <3>2. n \in Age /\ heard[x] <= n
      BY KnownTimes DEF NotYounger
    <3>3. QED
      BY <2>1, <2>2, <3>1, <3>2
  <2>5. QED
    BY <2>3, <2>4
<1>4. QED
  BY <1>1, <1>2, <1>3 DEF Next, Start, Stop, StartScan, Scan, NotYounger, vars

LEMMA MarkedInTimeAfterStep ==
  ASSUME SilenceInv, [Next]_vars
  PROVE  MarkedInTime'
<1> USE DEF SilenceInv
<1> SUFFICES ASSUME NEW x \in Sensors, lastSeen'[x] # {}, ~stale'[x]
             PROVE  /\ scan' = {} => heard'[x] <= Timeout + Lag + slept'
                    /\ \A c \in scan' : heard'[x] <= Timeout + Lag + slept' + c
  BY DEF MarkedInTime
<1>1. /\ heard[x] \in Nat /\ slept \in Nat
      /\ \A c \in scan : c \in Nat /\ c <= Lag
      /\ \A seen \in lastSeen[x] : seen \in Nat /\ heard[x] <= seen
  BY KnownTimes DEF HeldBriefly, NotYounger, Age
<1>2. ASSUME lastSeen[x] # {}, ~stale[x]
      PROVE  /\ scan = {} => heard[x] <= Timeout + Lag + slept
             /\ \A c \in scan : heard[x] <= Timeout + Lag + slept + c
  BY <1>2 DEF MarkedInTime
<1>3. CASE UNCHANGED <<lastSeen, stale, scan, slept, heard>>
  BY <1>2, <1>3
<1>4. ASSUME NEW s \in Sensors, NEW h \in Streams, ReadClock(s, h) \/ Record(s, h)
      PROVE  /\ scan' = {} => heard'[x] <= Timeout + Lag + slept'
             /\ \A c \in scan' : heard'[x] <= Timeout + Lag + slept' + c
  <2>1. CASE ReadClock(s, h)
    <3>1. UNCHANGED <<scan, slept, lastSeen, stale>> /\ heard'[x] \in {0, heard[x]}
      BY <2>1, ReadClockTimes
    <3>2. QED
      BY <1>1, <1>2, <3>1, Bounds
  <2>2. CASE Record(s, h) /\ x # s
    <3>1. UNCHANGED <<scan, slept, heard>> /\ lastSeen'[x] = lastSeen[x] /\ stale'[x] = stale[x]
      BY <2>2 DEF Record, TypeOK
    <3>2. lastSeen[x] # {} /\ ~stale[x]
      BY <3>1, Zenon
    <3>3. QED
      BY <1>2, <3>1, <3>2
  <2>3. CASE Record(s, h) /\ x = s
    <3>1. UNCHANGED <<scan, slept, heard>>
      BY <2>3, RecordTimes
    <3>2. PICK p : p \in ping[<<s, h>>]
      BY <2>3, RecordTimes
    <3>3. heard[s] <= p /\ p <= Lag /\ p \in Nat
      BY <3>2, KnownTimes DEF NotYounger, HeldBriefly, Age
    <3>4. QED
      BY <1>1, <2>3, <3>1, <3>3, Bounds
  <2>4. QED
    BY <1>4, <2>1, <2>2, <2>3
<1>5. CASE StartScan
  BY <1>1, <1>2, <1>5, Bounds DEF StartScan
<1>6. CASE Scan
  <2>1. PICK c : c \in scan
    BY <1>6 DEF Scan
  <2>2. PICK seen : seen \in lastSeen[x]
    BY <1>6 DEF Scan
  <2>3. ~(seen - c > Timeout)
    BY <1>6, <2>1, <2>2 DEF Scan, Stale
  <2>4. heard[x] <= Timeout + Lag
    BY <1>1, <2>1, <2>2, <2>3, Bounds
  <2>5. QED
    BY <1>1, <1>6, <2>4, Bounds DEF Scan
<1>7. CASE Tick
  <2>1. lastSeen[x] # {} /\ ~stale[x]
    BY <1>7, TickAges
  <2>2. heard'[x] \in Nat /\ heard'[x] <= heard[x] + 1
    BY <1>7, KnownTimes, OlderAge, TickAges DEF Age
  <2>3. ASSUME scan' = {} PROVE heard'[x] <= Timeout + Lag + slept'
    <3>1. scan = {} /\ slept' = slept + 1
      BY <1>7, <2>3, TickAges
    <3>2. QED
      BY <1>1, <1>2, <2>1, <2>2, <3>1, Bounds
  <2>4. ASSUME NEW c \in scan' PROVE heard'[x] <= Timeout + Lag + slept' + c
    <3>1. PICK n \in scan : c = Older(n) /\ n # Lag
      BY <1>7, TickAges
    <3>2. slept' = slept /\ n \in Age /\ n < Forever
      BY <1>1, <1>7, <3>1, KnownTimes, TickAges, Bounds
    <3>3. c = n + 1
      BY <3>1, <3>2, OlderAge
    <3>4. QED
      BY <1>1, <1>2, <2>1, <2>2, <3>1, <3>2, <3>3, Bounds
  <2>5. QED
    BY <2>3, <2>4
<1>8. QED
  BY <1>3, <1>4, <1>5, <1>6, <1>7 DEF Next, Start, Stop, vars

THEOREM SilenceInvariance == Spec => []SilenceInv
<1>1. SilenceInv /\ [Next]_vars => SilenceInv'
  BY TypesAfterStep, HeldBrieflyAfterStep, NotYoungerAfterStep, MarkedInTimeAfterStep
     DEF SilenceInv
<1>2. QED
  BY <1>1, SilenceInvAtFirst, PTL DEF Spec

\* Every time stays known or unknown, and in its bounds.
THEOREM HealthTypeCorrect == Spec => []TypeOK
<1>1. SilenceInv => TypeOK
  BY DEF SilenceInv
<1>2. QED
  BY <1>1, SilenceInvariance, PTL

\* However the handlers and the monitor race, a sensor that was heard once is
\* marked as stale when it has been silent for the timeout, a sleep of
\* stale_monitor_loop and one delay of each: for any number of sensors, any
\* timeout and any delays.
THEOREM SilenceIsAlwaysReported == Spec => []SilenceIsReported
<1>1. SilenceInv => SilenceIsReported
  <2> SUFFICES ASSUME SilenceInv, NEW s \in Sensors, lastSeen[s] # {}, heard[s] >= Overdue, ~stale[s]
               PROVE  FALSE
    BY DEF SilenceIsReported
  <2>1. heard[s] \in Nat /\ slept \in Nat /\ slept <= Period
    BY KnownTimes DEF SilenceInv, Age
  <2>2. \A c \in scan : c \in Nat /\ c <= Lag
    BY KnownTimes DEF SilenceInv, HeldBriefly, Age
  <2>3. CASE scan = {}
    BY <2>1, <2>3, Bounds DEF SilenceInv, MarkedInTime
  <2>4. ASSUME NEW c \in scan PROVE FALSE
    <3>1. heard[s] <= Timeout + Lag + slept + c
      BY DEF SilenceInv, MarkedInTime
    <3>2. QED
      BY <2>1, <2>2, <3>1, Bounds
  <2>5. QED
    BY <2>3, <2>4
<1>2. QED
  BY <1>1, SilenceInvariance, PTL

-----------------------------------------------------------------------------
(***************************************************************************)
(* Running sensors.                                                        *)
(***************************************************************************)

LEMMA RunningInvAtFirst == Init => RunningInv
<1> SUFFICES ASSUME Init
             PROVE  RunningInv
  OBVIOUS
<1>1. \A s \in Sensors : up[s] = {}
  BY DEF Init
<1>2. BeatsInTime /\ HeardOrSoonHeard
  BY <1>1 DEF BeatsInTime, HeardOrSoonHeard
<1>3. QED
  BY <1>2, SilenceInvAtFirst DEF SilenceInv, RunningInv

LEMMA BeatsAfterStep ==
  ASSUME TypeOK, BeatsInTime, [Next]_vars
  PROVE  BeatsInTime'
<1> SUFFICES ASSUME NEW x \in Sensors, NEW n \in up'[x]
             PROVE  n <= Beat \/ heard'[x] <= Beat
  BY DEF BeatsInTime
<1>1. CASE UNCHANGED <<up, heard>>
  BY <1>1 DEF BeatsInTime
<1>2. ASSUME NEW s \in Sensors, Start(s) \/ Stop(s) PROVE n <= Beat \/ heard'[x] <= Beat
  <2>1. UNCHANGED heard /\ (n = 0 \/ n \in up[x])
    BY <1>2 DEF Start, Stop, TypeOK
  <2>2. QED
    BY <2>1, Bounds DEF BeatsInTime
<1>3. ASSUME NEW s \in Sensors, NEW h \in Streams, ReadClock(s, h)
      PROVE  n <= Beat \/ heard'[x] <= Beat
  <2>1. UNCHANGED up /\ (heard'[x] = 0 \/ heard'[x] = heard[x])
    BY <1>3 DEF ReadClock, TypeOK
  <2>2. QED
    BY <2>1, Bounds DEF BeatsInTime
<1>4. CASE Tick
  <2>1. PICK m \in up[x] : n = Older(m)
    BY <1>4, TickAges
  <2>2. m \in Age /\ heard[x] \in Age /\ heard'[x] = Older(heard[x])
    BY <1>4, <2>1, KnownTimes, TickAges
  <2>3. m < Beat \/ heard[x] < Beat
    BY <1>4, <2>1, <2>2, Bounds DEF Tick, Due, Age
  <2>4. QED
    BY <2>1, <2>2, <2>3, OlderAge, Bounds DEF Age
<1>5. QED
  BY <1>1, <1>2, <1>3, <1>4 DEF Next, Record, StartScan, Scan, vars

\* A time recorded is fresh, and stays so.
LEMMA FreshAfterTick ==
  ASSUME TypeOK, NEW s \in Sensors, Fresh(s), Tick, HeldBriefly
  PROVE  Fresh(s)'
<1> SUFFICES ASSUME NEW seen \in lastSeen'[s]
             PROVE  \/ seen <= Lag + heard'[s]
                    \/ \E h \in Streams : \E p \in ping'[<<s, h>>] : seen <= Beat + Lag + p
  BY DEF Fresh
<1>1. PICK n \in lastSeen[s] : seen = Older(n)
  BY TickAges
<1>2. /\ n \in Age /\ heard[s] \in Age /\ heard'[s] = Older(heard[s])
      /\ seen \in Age /\ seen <= n + 1 /\ seen <= Forever
  BY <1>1, KnownTimes, TickAges, OlderAge, Bounds DEF Age
<1>3. CASE n <= Lag + heard[s]
  <2>1. heard'[s] = Forever \/ heard'[s] = heard[s] + 1
    BY <1>2, Bounds DEF Older
  <2>2. QED
    BY <1>2, <1>3, <2>1, Bounds DEF Age
<1>4. ASSUME NEW h \in Streams, NEW p \in ping[<<s, h>>], n <= Beat + Lag + p
      PROVE  \E q \in ping'[<<s, h>>] : seen <= Beat + Lag + q
  <2>1. Older(p) \in ping'[<<s, h>>] /\ p # Lag
    BY TickAges
  <2>2. p \in Age /\ p < Forever
    BY <2>1, KnownTimes, Bounds DEF HeldBriefly, Age
  <2>3. Older(p) = p + 1
    BY <2>2, OlderAge
  <2>4. seen <= Beat + Lag + Older(p)
    BY <1>2, <1>4, <2>2, <2>3, Bounds DEF Age
  <2>5. QED
    BY <2>1, <2>4
<1>5. QED
  BY <1>3, <1>4 DEF Fresh

\* The three ways of a running sensor to be well, after a step.
Well(s, n) ==
  \/ Fresh(s) /\ ~stale[s]
  \/ n <= Beat /\ n <= heard[s]
  \/ \E h \in Streams : \E p \in ping[<<s, h>>] : n <= Beat + p

LEMMA WellAfterHandler ==
  ASSUME RunningInv, NEW s \in Sensors, NEW h \in Streams, ReadClock(s, h) \/ Record(s, h),
         NEW x \in Sensors, NEW n \in up[x], Well(x, n)
  PROVE  Well(x, n)'
<1>1. n \in Nat /\ heard[x] \in Nat /\ (n <= Beat \/ heard[x] <= Beat)
  BY KnownTimes DEF RunningInv, BeatsInTime, Age
<1>2. CASE x # s
  <2>1. /\ lastSeen'[x] = lastSeen[x] /\ heard'[x] = heard[x] /\ stale'[x] = stale[x]
        /\ \A y \in Streams : ping'[<<x, y>>] = ping[<<x, y>>]
    BY <1>2 DEF ReadClock, Record, RunningInv, TypeOK, Handlers
  <2>2. Fresh(x)' <=> Fresh(x)
    BY <2>1 DEF Fresh
  <2>3. CASE Fresh(x) /\ ~stale[x]
    BY <2>1, <2>2, <2>3, Zenon DEF Well
  <2>4. CASE n <= Beat /\ n <= heard[x]
    BY <2>1, <2>4 DEF Well
  <2>5. CASE \E y \in Streams : \E p \in ping[<<x, y>>] : n <= Beat + p
    BY <2>1, <2>5 DEF Well
  <2>6. QED
    BY <2>3, <2>4, <2>5 DEF Well
<1>3. CASE x = s /\ ReadClock(s, h)
  <2>1. /\ lastSeen'[s] = lastSeen[s] /\ stale'[s] = stale[s] /\ ping'[<<s, h>>] = {0} /\ ping[<<s, h>>] = {}
    BY <1>3, ReadClockTimes DEF RunningInv
  <2>2. \A y \in Streams : y # h => ping'[<<s, y>>] = ping[<<s, y>>]
    BY <1>3 DEF ReadClock, RunningInv, TypeOK, Handlers
  <2>3. CASE n <= Beat
    <3>1. n <= Beat + 0
      BY <1>1, <2>3, Bounds
    <3>2. QED
      BY <1>3, <2>1, <3>1 DEF Well
  <2>4. CASE \E y \in Streams : \E p \in ping[<<x, y>>] : n <= Beat + p
    <3>1. PICK y \in Streams : \E p \in ping[<<x, y>>] : n <= Beat + p
      BY <2>4
    <3>2. ping'[<<s, y>>] = ping[<<s, y>>]
      BY <1>3, <2>1, <2>2, <3>1
    <3>3. QED
      BY <1>3, <3>1, <3>2 DEF Well
  <2>5. CASE Fresh(x) /\ ~stale[x] /\ heard[x] <= Beat
    <3>1. ASSUME NEW seen \in lastSeen[s]
          PROVE  \E y \in Streams : \E p \in ping'[<<s, y>>] : seen <= Beat + Lag + p
      <4>1. seen \in Nat
        BY KnownTimes DEF RunningInv, Age
      <4>2. CASE seen <= Lag + heard[s]
        <5>1. seen <= Beat + Lag + 0 /\ 0 \in ping'[<<s, h>>]
          BY <1>1, <1>3, <2>1, <2>5, <4>1, <4>2, Bounds
        <5>2. QED
          BY <5>1
      <4>3. ASSUME NEW y \in Streams, NEW p \in ping[<<s, y>>], seen <= Beat + Lag + p
            PROVE  \E q \in ping'[<<s, y>>] : seen <= Beat + Lag + q
        BY <2>1, <2>2, <4>3
      <4>4. QED
        BY <1>3, <2>5, <4>2, <4>3 DEF Fresh
    <3>2. Fresh(s)'
      BY <2>1, <3>1 DEF Fresh
    <3>3. QED
      BY <1>3, <2>1, <2>5, <3>2, Zenon DEF Well
  <2>6. QED
    BY <1>1, <2>3, <2>4, <2>5 DEF Well
<1>4. CASE x = s /\ Record(s, h)
  <2>1. lastSeen'[s] = ping[<<s, h>>] /\ ~stale'[s] /\ heard'[s] = heard[s]
    BY <1>4, RecordTimes DEF RunningInv
  <2>2. \A p \in ping[<<s, h>>] : p \in Nat /\ p <= Lag
    BY KnownTimes DEF RunningInv, HeldBriefly, Age
  <2>3. Fresh(s)'
    BY <1>1, <1>4, <2>1, <2>2, Bounds DEF Fresh
  <2>4. QED
    BY <1>4, <2>1, <2>3 DEF Well
<1>5. QED
  BY <1>2, <1>3, <1>4

LEMMA WellAfterTick ==
  ASSUME RunningInv, Tick, NEW x \in Sensors, NEW n \in up[x], Well(x, n)
  PROVE  Well(x, Older(n))'
<1>1. /\ n \in Age /\ heard[x] \in Age /\ heard'[x] = Older(heard[x]) /\ stale'[x] = stale[x]
  BY KnownTimes, TickAges DEF RunningInv
<1>2. CASE Fresh(x) /\ ~stale[x]
  <2>1. Fresh(x)'
    BY <1>2, FreshAfterTick DEF RunningInv
  <2>2. ~stale'[x]
    BY <1>1, <1>2, Zenon
  <2>3. QED
    BY <2>1, <2>2 DEF Well
<1>3. CASE n <= Beat /\ n <= heard[x]
  <2>1. ~(n >= Beat /\ heard[x] >= Beat)
    BY DEF Tick, Due
  <2>2. n < Beat
    BY <1>1, <1>3, <2>1, Bounds DEF Age
  <2>3. Older(n) <= Beat /\ Older(n) <= heard'[x]
    BY <1>1, <1>3, <2>2, OlderAge, Bounds DEF Age
  <2>4. QED
    BY <2>3 DEF Well
<1>4. ASSUME NEW h \in Streams, NEW p \in ping[<<x, h>>], n <= Beat + p
      PROVE  Well(x, Older(n))'
  <2>1. Older(p) \in ping'[<<x, h>>] /\ p # Lag
    BY TickAges DEF RunningInv
  <2>2. p \in Age /\ p < Forever
    BY <2>1, KnownTimes, Bounds DEF RunningInv, HeldBriefly, Age
  <2>3. Older(p) = p + 1 /\ Older(n) <= n + 1 /\ Older(n) \in Age
    BY <1>1, <2>2, OlderAge
  <2>4. Older(n) <= Beat + Older(p)
    BY <1>1, <1>4, <2>2, <2>3, Bounds DEF Age
  <2>5. QED
    BY <2>1, <2>4 DEF Well
<1>5. QED
  BY <1>2, <1>3, <1>4 DEF Well

\* A scan marks no sensor whose times are fresh.
LEMMA WellAfterScan ==
  ASSUME RunningInv, Beat + 2 * Lag <= Timeout, Scan, NEW x \in Sensors, NEW n \in up[x], Well(x, n)
  PROVE  Well(x, n)'
<1>1. n \in Nat /\ heard[x] \in Nat /\ (n <= Beat \/ heard[x] <= Beat)
  BY KnownTimes DEF RunningInv, BeatsInTime, Age
<1>2. UNCHANGED <<lastSeen, ping, heard>> /\ (stale'[x] <=> stale[x] \/ Stale(x))
  BY DEF Scan
<1>3. CASE Fresh(x) /\ ~stale[x] /\ heard[x] <= Beat
  <2>1. ASSUME NEW seen \in lastSeen[x], NEW c \in scan PROVE ~(seen - c > Timeout)
    <3>1. seen \in Nat /\ c \in Nat
      BY KnownTimes DEF RunningInv, Age
    <3>2. CASE seen <= Lag + heard[x]
      BY <1>1, <1>3, <3>1, <3>2, Bounds
    <3>3. ASSUME NEW h \in Streams, NEW p \in ping[<<x, h>>], seen <= Beat + Lag + p
          PROVE  ~(seen - c > Timeout)
      <4>1. p \in Nat /\ p <= Lag
        BY KnownTimes DEF RunningInv, HeldBriefly, Age
      <4>2. QED
        BY <3>1, <3>3, <4>1, Bounds
    <3>4. QED
      BY <1>3, <3>2, <3>3 DEF Fresh
  <2>2. ~Stale(x)
    BY <2>1 DEF Stale
  <2>3. Fresh(x)'
    BY <1>2, <1>3 DEF Fresh
  <2>4. QED
    BY <1>2, <1>3, <2>2, <2>3 DEF Well
<1>4. CASE n <= Beat /\ n <= heard[x]
  BY <1>2, <1>4 DEF Well
<1>5. CASE \E h \in Streams : \E p \in ping[<<x, h>>] : n <= Beat + p
  BY <1>2, <1>5 DEF Well
<1>6. QED
  BY <1>1, <1>3, <1>4, <1>5, Bounds DEF Well

LEMMA HeardAfterStep ==
  ASSUME RunningInv, Beat + 2 * Lag <= Timeout, [Next]_vars
  PROVE  HeardOrSoonHeard'
<1> SUFFICES ASSUME NEW x \in Sensors, NEW n \in up'[x]
             PROVE  Well(x, n)'
  BY DEF HeardOrSoonHeard, Well
<1>1. ASSUME NEW m \in up[x] PROVE Well(x, m)
  BY DEF RunningInv, HeardOrSoonHeard, Well
<1>2. CASE UNCHANGED <<lastSeen, ping, stale, heard, up>>
  BY <1>1, <1>2 DEF Well, Fresh
<1>3. ASSUME NEW s \in Sensors, Start(s) \/ Stop(s) PROVE Well(x, n)'
  <2>1. UNCHANGED <<lastSeen, ping, stale, heard>> /\ (n = 0 \/ n \in up[x])
    BY <1>3 DEF Start, Stop, RunningInv, TypeOK
  <2>2. CASE n \in up[x]
    BY <1>1, <2>1, <2>2 DEF Well, Fresh
  <2>3. CASE n = 0
    <3>1. heard[x] \in Nat
      BY KnownTimes DEF RunningInv, Age
    <3>2. QED
      BY <2>1, <2>3, <3>1, Bounds DEF Well
  <2>4. QED
    BY <2>1, <2>2, <2>3
<1>4. ASSUME NEW s \in Sensors, NEW h \in Streams, ReadClock(s, h) \/ Record(s, h)
      PROVE  Well(x, n)'
  <2>1. UNCHANGED up
    BY <1>4 DEF ReadClock, Record
  <2>2. QED
    BY <1>1, <1>4, <2>1, WellAfterHandler
<1>5. CASE Tick
  <2>1. PICK m \in up[x] : n = Older(m)
    BY <1>5, TickAges DEF RunningInv
  <2>2. QED
    BY <1>1, <1>5, <2>1, WellAfterTick
<1>6. CASE Scan
  <2>1. UNCHANGED up
    BY <1>6 DEF Scan
  <2>2. QED
    BY <1>1, <1>6, <2>1, WellAfterScan
<1>7. QED
  BY <1>2, <1>3, <1>4, <1>5, <1>6 DEF Next, StartScan, vars

\* A running sensor is not reported: neither a scan that holds an old time nor
\* a handler that records one out of order marks it, and its first recorded
\* heartbeat takes back the mark of an earlier silence.  Two delays and the time
\* between two heartbeats must fit into stale_timeout_s.
THEOREM RunningSensorIsNotReported ==
  ASSUME Beat + 2 * Lag <= Timeout
  PROVE  Spec => []RunningIsNotStale
<1>1. RunningInv /\ [Next]_vars => RunningInv'
  BY TypesAfterStep, HeldBrieflyAfterStep, BeatsAfterStep, HeardAfterStep DEF RunningInv
<1>2. RunningInv => RunningIsNotStale
  <2> SUFFICES ASSUME RunningInv, NEW s \in Sensors, NEW n \in up[s], n > Beat + Lag
               PROVE  ~stale[s]
    BY DEF RunningIsNotStale
  <2>1. n \in Nat
    BY KnownTimes DEF RunningInv, Age
  <2>2. \A h \in Streams : \A p \in ping[<<s, h>>] : p \in Nat /\ p <= Lag
    BY KnownTimes DEF RunningInv, HeldBriefly, Age
  <2>3. ~(n <= Beat) /\ \A h \in Streams : \A p \in ping[<<s, h>>] : ~(n <= Beat + p)
    BY <2>1, <2>2, Bounds
  <2>4. QED
    BY <2>3 DEF RunningInv, HeardOrSoonHeard
<1>3. QED
  BY <1>1, <1>2, RunningInvAtFirst, PTL DEF Spec

=============================================================================
