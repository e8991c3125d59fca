--------------------------- MODULE HealthMonitor ----------------------------
(***************************************************************************)
(* Heartbeats: handler threads record when a sensor was last heard, the    *)
(* monitor thread looks for sensors that have been silent too long.  Both  *)
(* read the clock first and take the lock afterwards, and either may be    *)
(* held up in between.  Sensors stop and are restarted.                    *)
(*                                                                         *)
(* Time is counted in ticks, and every point of time is kept as its age,   *)
(* so that nothing grows: an age stays at Forever once it gets there.      *)
(***************************************************************************)
EXTENDS Integers

CONSTANTS
  Sensors,    \* the sensors
  Streams,    \* the heartbeat streams a sensor may have open at a time
  Beat,       \* bound: ticks between two heartbeats of a running sensor
  Timeout,    \* stale_timeout_s, in ticks
  Period,     \* bound: ticks the monitor sleeps
  Lag         \* bound: ticks a thread spends between the clock and the lock

ASSUME MonitorAssumption ==
  /\ Beat \in Nat /\ Timeout \in Nat /\ Period \in Nat /\ Lag \in Nat

VARIABLES
  lastSeen,   \* age of last_seen in health_by_sensor_, {} for no entry
  stale,      \* stale_reported
  ping,       \* age of the time a handler holds, {} when it waits for a ping
  scan,       \* age of the time the monitor holds, {} when it sleeps
  slept,      \* how long the monitor has slept
  up,         \* how long a sensor has been running, {} when it is not
  heard       \* age of the last heartbeat of a sensor

vars == <<lastSeen, stale, ping, scan, slept, up, heard>>

Handlers == Sensors \X Streams

\* By then a silence has been reported, so no property tells longer ages apart.
Overdue == Timeout + Period + 2 * Lag + 1
Forever == Overdue + Lag + Beat
Age == 0..Forever
Maybe == {{}} \cup {{n} : n \in Age}

TypeOK ==
  /\ lastSeen \in [Sensors -> Maybe]
  /\ stale \in [Sensors -> BOOLEAN]
  /\ ping \in [Handlers -> Maybe]
  /\ scan \in Maybe
  /\ slept \in 0..Period
  /\ up \in [Sensors -> Maybe]
  /\ heard \in [Sensors -> Age]

Init ==
  /\ lastSeen = [s \in Sensors |-> {}]
  /\ stale = [s \in Sensors |-> FALSE]
  /\ ping = [h \in Handlers |-> {}]
  /\ scan = {}
  /\ slept = 0
  /\ up = [s \in Sensors |-> {}]
  /\ heard = [s \in Sensors |-> 0]

-----------------------------------------------------------------------------
(***************************************************************************)
(* The sensors and time.                                                   *)
(***************************************************************************)
Start(s) ==
  /\ up[s] = {}
  /\ up' = [up EXCEPT ![s] = {0}]
  /\ UNCHANGED <<lastSeen, stale, ping, scan, slept, heard>>

Stop(s) ==
  /\ up[s] # {}
  /\ up' = [up EXCEPT ![s] = {}]
  /\ UNCHANGED <<lastSeen, stale, ping, scan, slept, heard>>

Older(n) == IF n = Forever THEN n ELSE n + 1
AllOlder(ages) == {Older(n) : n \in ages}

\* A running sensor's next heartbeat is due Beat ticks after its last one, or
\* after its start.
Due(s) == \E n \in up[s] : n >= Beat /\ heard[s] >= Beat

Tick ==
  /\ \A s \in Sensors : ~Due(s)
  /\ \A h \in Handlers : Lag \notin ping[h]
  /\ Lag \notin scan
  /\ scan = {} => slept < Period
  /\ lastSeen' = [s \in Sensors |-> AllOlder(lastSeen[s])]
  /\ ping' = [h \in Handlers |-> AllOlder(ping[h])]
  /\ scan' = AllOlder(scan)
  /\ slept' = IF scan = {} THEN slept + 1 ELSE slept
  /\ up' = [s \in Sensors |-> AllOlder(up[s])]
  /\ heard' = [s \in Sensors |-> Older(heard[s])]
  /\ UNCHANGED stale

-----------------------------------------------------------------------------
(***************************************************************************)
(* ingest_health_ping.                                                     *)
(***************************************************************************)

\* A heartbeat arrives, and the handler reads the clock.
ReadClock(s, h) ==
  /\ up[s] # {}
  /\ ping[<<s, h>>] = {}
  /\ ping' = [ping EXCEPT ![<<s, h>>] = {0}]
  /\ heard' = [heard EXCEPT ![s] = 0]
  /\ UNCHANGED <<lastSeen, stale, scan, slept, up>>

\* Mutant: the mark of an earlier silence stays.
StaleKept(s) == stale[s]

\* stale_reported and last_seen once a heartbeat is recorded.
StaleAfterPing(s) == FALSE
SeenAfterPing(s, h) == ping[<<s, h>>]

\* Under state_mutex_.
Record(s, h) ==
  /\ ping[<<s, h>>] # {}
  /\ lastSeen' = [lastSeen EXCEPT ![s] = SeenAfterPing(s, h)]
  /\ stale' = [stale EXCEPT ![s] = StaleAfterPing(s)]
  /\ ping' = [ping EXCEPT ![<<s, h>>] = {}]
  /\ UNCHANGED <<scan, slept, up, heard>>

-----------------------------------------------------------------------------
(***************************************************************************)
(* stale_monitor_loop: check_stale_sensors and a sleep.                    *)
(***************************************************************************)
StartScan ==
  /\ scan = {}
  /\ scan' = {0}
  /\ UNCHANGED <<lastSeen, stale, ping, slept, up, heard>>

\* Mutant: only the first sensor found is reported.
FirstStale(s) ==
  LET Silent(x) == \E seen \in lastSeen[x], now \in scan : seen - now > Timeout
  IN  Silent(s) /\ s = CHOOSE x \in Sensors : Silent(x)

\* The time the monitor holds may be earlier than last_seen.
Stale(s) == \E seen \in lastSeen[s], now \in scan : seen - now > Timeout

\* Under state_mutex_.
Scan ==
  /\ scan # {}
  /\ stale' = [s \in Sensors |-> stale[s] \/ Stale(s)]
  /\ scan' = {}
  /\ slept' = 0
  /\ UNCHANGED <<lastSeen, ping, up, heard>>

Next ==
  \/ \E s \in Sensors : Start(s) \/ Stop(s)
  \/ \E s \in Sensors, h \in Streams : ReadClock(s, h) \/ Record(s, h)
  \/ StartScan
  \/ Scan
  \/ Tick

Spec == Init /\ [][Next]_vars

-----------------------------------------------------------------------------
(***************************************************************************)
(* Properties.                                                             *)
(***************************************************************************)

\* A sensor that has been running since its first heartbeat must have been
\* recorded is not marked as stale, neither by a scan that races a heartbeat
\* nor by a mark left from before its restart.
RunningIsNotStale ==
  \A s \in Sensors : (\E n \in up[s] : n > Beat + Lag) => ~stale[s]

\* A sensor that was heard once and has been silent for the timeout, a sleep of
\* the monitor and a delay of each of its steps, is marked as stale.
SilenceIsReported ==
  \A s \in Sensors : lastSeen[s] # {} /\ heard[s] >= Overdue => stale[s]

=============================================================================
