# TLA+ models of AegisTrack

This directory holds TLA+ models of the parts of AegisTrack where order,
concurrency and shared records matter: the engagement logic of the simulation
(behavior tree, interceptor manager, simulation loop), the track manager with its
association algorithms, the telemetry ingest pipeline (bounded queue, worker
thread, shutdown, heartbeats), the streams that lead to it and the program that
feeds its tracker from it, and the web console (replay of a logged mission,
playback, telemetry socket, live and playback buttons). TLC checks them
on small instances; the TLA+ proof system (TLAPS) proves, for all values of their
constants, the invariants of all of these but the replay, the Hungarian solver's
optimality among them, and four refinements. Paths below are relative to the
repository, so `src/tools/run_sim.cpp` is the C++ file.

To run something: `tlc -config mission_loop.cfg MCMissionLoop`,
`tlapm MissionLoopProofs.tla`. `PROJECT.json` lists every run, its module, the
mutants of the code each property rejects, and for each definition the lines it
translates.

## 1. The system

| component | state | operations | talks to |
|---|---|---|---|
| track manager (`fusion_core/track_manager.cpp`) | tracks with status, hits, misses, score; recently deleted tracks | predict, update with measurements, lifecycle rules | simulation loop, by return value |
| measurement buffer, association, EKF (`fusion_core/`) | measurements ordered by send time; filter state | push, pop_ready; assignment; predict, update | track manager |
| mission blackboard (`decision/blackboard.cpp`) | track facts, interceptor facts, sensor health, one engagement, mode | setters, snapshot | loop writes, tree reads and writes |
| mission behavior tree (`decision/mission_behavior_tree.cpp`) | memory: active engagements, stable tracks, last denied track with its cooldown, last mode | tick | reads a snapshot of the blackboard, returns commands |
| interceptor manager (`agents/interceptor/`) | per interceptor target and engagement clock; positions of confirmed tracks | update_track_positions, assign, step, handle_intercepts | loop |
| simulation loop (`tools/run_sim.cpp`) | ledger `engagement_by_interceptor`, counters, incident capture | one pass per tick | all of the above |
| ingest pipeline (`services/telemetry_ingest/ingest_pipeline.cpp`) | bounded queue, last sequence per sensor, heartbeat table, stop flag, counters; a worker and a stale-monitor thread | ingest_batch, ingest_health_ping, check_stale_sensors, worker_loop, destructor | gRPC handlers call in, the bus is called out to |
| gRPC services, sensor node (`services/`) | streams, sequence number, one delayed batch | StreamDetections, Heartbeat; send, delay, drop, flush | each other, the pipeline |
| message bus (`transport/message_bus.h`) | subscribers per topic | subscribe, unsubscribe, publish | worker to subscribers |
| fault injector (`faults/fault_injector.h`) | random numbers, probabilities | should_drop, should_delay, jitter | pipeline, sensors |
| load test (`tools/run_load_test.cpp`) | virtual sensors, delayed batches | send, wait for an empty queue, report | an ingest pipeline of its own |
| cluster demo (`tools/run_cluster_demo.cpp`) | measurements handed from the worker to the main loop | drain, fuse, decide | pipeline, track manager |
| observability (`observability/`) | log file, counters, rolling capture of lines | write, count, capture | everything |
| replay and benchmarks (`tools/`) | none that outlives a run | parse, compare, measure | log files |
| mission control API (`apps/api`) | database rows, among them one of the playback session; the log file it reads | queries, start and stop playback, telemetry over a web socket | web console |
| web replay (`apps/web/src/lib/replay`, `store/replay-store.ts`) | parsed log, playhead, speed, playing or not | parse, select the frame of a time, play, seek, clear | the log of `run_sim` |
| web console (`apps/web/src`) | web socket, indicator, playback mode, copies of the API's answers | go from page to page, start, stop, poll | API |

The behaviours that are hard to test, each at its line, are the `hazards` of
`PROJECT.json`. They fall in five groups.

- *Records of the same fact.* Who is engaged with what is written down four
  times: in the manager, in the tree's memory, in the loop's ledger and, for
  one pair, on the blackboard. Hits, timeouts, retasks and vanishing tracks
  touch them at different points of the pass.
- *Gates over several ticks.* Stability counting, the denial cooldown, the
  engagement timeout and the grace period interact; a gate can starve a track
  or turn out to be dead code.
- *Threads around the queue.* gRPC handlers put in, a worker takes out and
  sleeps on a condition variable, the destructor stops it; handlers and the stale
  monitor read clocks before they lock.
- *Streams in a chain.* Each link may break, each handler waits for the next one,
  and the sensor node disturbs the order on purpose.
- *Late events.* Timers, sockets, polls and requests of a page go on when it has
  been left, and write the stores the next page shows.
- *Limits.* The full queue, a timeout that is passed by one tick, a log that
  ends within a line.

What makes each part correct: the manager and the tree never send two
interceptors to one track; the four records agree whenever a new pass starts;
a fit track is engaged in the end; the pipeline delivers each stream in order,
loses only what it counts, does not sleep on work and can be shut down; silent
sensors are reported and live ones are not; the next service in a chain has a
prefix of what this one has; a track lives exactly as long as its thresholds say,
and its life is the one the engagement logic relies on; the association is the
best there is; the tracker is fed each measurement once and in order; the replay
shows the mission that was flown; the console shows what it last heard, and never
gets stuck.

## 2. Modules

| module | models |
|---|---|
| `Interceptors` | the interceptor manager |
| `MissionTree` | the behavior tree's memory, the blackboard, one `tick` |
| `MissionLoop` | the mission part of a pass of `run_sim`, composing the two; properties; `IInv` |
| `MissionDenials` | `MissionLoop` with a count of each track's own cooldown |
| `MissionFlights` | what a pass of the loop promises to readers of its log (abstract specification); `MissionLoop` is shown to implement it |
| `MissionLoopProofs` | lemmas about a tick; the invariance proof and its theorems |
| `MCMissionLoop` | symmetry for TLC |
| `LossyFifo` | what a bounded ingest channel promises (abstract specification) |
| `IngestPipeline` | queue, worker, streams, destructor; shown to implement `LossyFifo` |
| `ClusterDemo` | `run_cluster_demo` around an `IngestPipeline`: topic, callback, measurement buffer, ticks |
| `IngestPipelineProofs` | the pipeline's invariant, count, order and refinement, alone and inside the demo; the demo's own invariant |
| `HealthMonitor` | heartbeats of an ingest pipeline and its stale monitor |
| `HealthMonitorProofs` | its two invariants, one for silent and one for running sensors |
| `DetectionStream` | a sensor node and a chain of ingest services |
| `DetectionStreamProofs` | its invariant, for a chain of any length |
| `TrackLifecycle` | what the tracker promises about a track's status (abstract specification) |
| `TrackManager` | `update_with_measurements` and the loop's table of track events; shown to implement `TrackLifecycle` |
| `TrackManagerProofs` | its invariant, theorems and refinement |
| `Hungarian` | `hungarian_solve`, step by step |
| `TrackAssociation` | the two association methods of the track manager, on top of `Hungarian` |
| `TrackAssociationProofs` | the solver's invariant; that all three results are what they should be, for any matrix |
| `ReplayFrames` | parser, normalizer, selectors and status label of the replay, as operators |
| `ReplayLog` | the lines `run_sim` writes of the passes of `MissionFlights`, a crash that cuts them off, and what the frames show |
| `ReplayPlayer` | the replay store and the effects of the view that plays it |
| `TelemetryLink` | the globe's web socket and the indicator |
| `PlaybackMode` | the live and playback buttons, the API's row, the query client's fetches |
| `WebConsole` | a user on the pages of the console, composing the last three |
| `WebConsoleProofs` | the invariants of the three, of the console, and of a log and its frames |
| `Induction` | lemmas for the proofs: induction over numbers and finite sets, orders of sequences, the last element of a kind, sums |

### The engagement core

A pass of the loop is five steps, in the order of `pc`:

| step | code (`run_sim.cpp`) | what happens |
|---|---|---|
| `Observe` | 582-637 | time advances, new track facts and positions |
| `Decide` | 638-656 | `Tick`: the behavior tree, with a snapshot of the manager's states |
| `Command` | 658-677 | commands enter the ledger and go to `Assign` |
| `Fly` | 678 | `Step`: lost targets and timeouts release interceptors |
| `Resolve` | 680-742 | hits, then ledger entries without an interceptor are closed |

The program is single-threaded here, so the steps only name the places where
the records may disagree.

*Tracks.* The tree tells tracks apart by their status and by three thresholds,
so a track is one fact: `unborn`, `tentative`, `weak` (score at or below
the threshold), `unsafe` (score passed; confidence or range check fails), `fit`,
`gone`. `NextFacts` says how a fact may change: as `TrackLifecycle` lets the
status change, which `TrackManager` is shown to implement (ids are not reused, a
confirmed track does not become tentative again, a deleted one is erased at once
and the loop never shows the tree the status Deleted). Between these a fact
changes freely, which is what the sensors and the filter do to it.

*Scores.* Which pair the greedy loop prefers, whether a retask gains the
margin, and which confirmed track has the highest priority is a free choice on
each tick. The greedy loop over idle interceptors takes pairs until none is
left; its outcomes are the maximal matchings between idle interceptors and open
tracks (`GreedyAssignments`). All scores are assumed finite: positions and speeds
are finite numbers and divisors are bounded away from zero in
`engagement_scoring.h`. With infinite scores the fallback branches of the
engage sequence could be reached; with finite ones they cannot
(`NoFallbackAssignment`), so the model has no action for them.

*Time* is in ticks. `TimeoutTicks` is the number of whole ticks in the
engagement timeout, `CooldownTicks` the number of ticks that begin before a
cooldown ends. The arithmetic is exact; the program adds `double`s, and where a
timeout is an exact multiple of the tick, rounding can move it by one tick
between the two clocks that are compared. `TimeoutNeverCounted` is a statement
about exact arithmetic.

*Memory.* An entry is a pair and its `missing_ticks`; start and command times and
the low-confidence count are written and never used in a decision. Stability
counts stop at the threshold. `Refreshed`, `Reconciled` and `Maintained` are the
three passes over the memory at the start of `tick`; each way out of `tick` is an
action (`AssignIdle`, `Retask`, `Hold`, `Deny`, `StandBy`).

*Sensor health* is constant in `run_sim` (lines 385-401). The tree also handles
degraded health, so `HealthReports` lets a run have it change on every tick.

### The ingest pipeline

A step is what one thread does under one lock or between two locks. For each
detection a stream first passes the sequence check (`Check`, under
`state_mutex_`), then may be dropped by the fault injector (`FaultDrop`), then is
offered to the queue (`Enqueue`, under `queue_mutex_`). The worker tests `stop_`,
takes the mutex, and takes a measurement, leaves, or waits. The wait is two steps,
`StartToWait` and `FallAsleep`: between them the mutex is still held and the
predicate already evaluated. That is the only place where holding the mutex is
visible to others (`QueueUnlocked`). `WakeForNoReason` is the spurious wakeup a
condition variable allows. `Publish` and `Count` are apart because readers of
`published_total()` may run between them.

The destructor is three steps, none of which takes `queue_mutex_`. It starts when
no stream is inside `ingest_batch`: a gRPC server waits for its handlers.

`ClusterDemo` puts the pipeline into its program. The worker copies the callbacks
of the topic and calls them after the lock is gone (`PublishToSubscribers`,
`Callback`); the main thread subscribes when the server already takes streams,
and each tick swaps the callback's vector, pushes what it found into the
measurement buffer and takes out what is due. All else a tick does touches nothing
another thread sees, so `Tick` is one step. When `main` returns its vector is
destroyed before the pipeline; a callback that comes later has no defined effect in
the program and adds nothing in the model.

A sensor has one stream, as `sensor_node` opens one. Sequence numbers are
arbitrary, so dropped, delayed and swapped batches and several detections with
one number are all included. An injected delay changes a time stamp and nothing
the pipeline looks at; metrics and log lines are left out. The stale-monitor
thread ends by itself within 200 ms of `stop_`; what it does is in `HealthMonitor`,
which shares no state with the queue (`state_mutex_` guards two tables that never
meet).

`LossyFifo` is what a subscriber may rely on: messages come in the order of their
acceptance, each at most once, and unless faults are injected one is lost only
when the backlog has reached its limit. The refinement takes the measurement
in the worker's hand together with the queue as the backlog.

`HealthMonitor` keeps times as ages in ticks. A handler reads the clock
(`ReadClock`) and records it later under the lock (`Record`); the monitor reads the
clock (`StartScan`), then scans under the lock (`Scan`). `Tick` lets time pass, but
not beyond the bounds on these delays (`Lag`), on the monitor's sleep (`Period`,
200 ms in the code) and between heartbeats (`Beat`, one second). Sensors start and
stop at any time; a sensor may have several heartbeat streams, as when it is
restarted before its old stream has ended.

### The replay and the console

`ReplayLog` is the simulation as `MissionFlights` promises it, with the lines each
part of a pass logs, in their order and with their times: a measurement bears the
time it was sent, one tick before the pass; the copies of a track in the deltas may
be older than its status. `Crash` ends the file anywhere in the lines of the last
pass, within a line perhaps. `ReplayFrames` parses such a log and selects the frame
of a time. The events of a dataset are a set: the parser sorts them by time and line
(`Before`), and each selector that depends on their order compares or sorts them by
the same rule again. Fields a selector does not read are left out; so are coordinates
and trails.

`ReplayPlayer` has one action for each operation of the store and each beat of the
timer. An action includes the rendering and the effects that follow it, because the
browser turns to its next event only afterwards; the timer keeps the values of the
render that started it. `TelemetryLink` numbers the visits of the globe: the
socket of an earlier visit may still report its end. `PlaybackMode` takes the
requests of both buttons, polls and refetches one by one; a handler of the API reads
the row in one step and commits the columns it has changed in another. The query
client keeps one fetch at a time and may retry or give up. `WebConsole` adds the
pages: leaving one runs its clean-ups, the stores stay. An exception thrown by a
request is not caught anywhere, so the buttons that waited for it stay disabled until
their page is left (`RequestFails`).

### The streams

`DetectionStream` follows one stream from `sensor_node` through a chain of services
that forward it. A step is one call: produce a batch, one write, one read, the
ingestion of a batch, one forwarding write, half-close, finish. A batch is its
number and how many detections it holds. Drops, delays and swaps are free choices
(`Produce`), so bursts need nothing of their own. gRPC is modelled from how it is
used: in order, no duplicates, a write to a healthy stream succeeds, a write to a
broken one or one whose reader has left may be accepted and lost or be refused,
and `Finish` returns when the reader has answered or the stream is broken. `Break`
may happen to any stream at any time. The service's own pipeline is reduced to
its order of arrival and to the out-of-order count.

### Tracks and association

`TrackManager` has one action for a whole `update_with_measurements`: radar hits
and misses, new tracks, refinements, lifecycle rules, recently deleted tracks and
the reports of the tick. Which tracks are hit, how many measurements start tracks,
which tracks are refined and which lost track a new one is near are free choices,
since the values of measurements decide them. `Report` is the loop's pass over the
reports, which keeps `last_track_event_trace_by_track`. The only history is `since`,
the updates since radar hit a live track or since a track was deleted.

`Hungarian` is the function itself, one action per pass of a loop, with the arrays
of the code and its virtual column 0; costs are natural numbers, and the infinity of
`minv` is a value that is no number. `TrackAssociation`
reads its result the way `associate_hungarian` does and defines
`associate_nearest_neighbor` on the same costs.

## 3. Runs

| run | bounds | result |
|---|---|---|
| `mission_loop` | 2 interceptors, 3 tracks, timeout 2, stability 2, cooldown 3, health TRUE or FALSE on each tick; symmetric | 7 invariants, `OnlyTimeoutEndsFlight` and `ImplementsFlights` hold; 28 718 states |
| `mission_liveness` | 2 x 2, healthy, timeout 1, no symmetry | `NoIdleWithOpenTrack`, `FitTrackIsEngaged` hold; 5 565 states |
| `mission_denials` | 1 x 2, cooldown 3 | `DenialsSpacedOut` is violated |
| `cluster_demo` | 2 streams of 2 detections, 1 sequence number, 2 send times, queue 2, drop oldest, 2 ticks, with and without injected drops | 3 invariants, `ImplementsFifo`, `QueueDrains` hold; 429 190 states |
| `ingest_shutdown` | 1 stream of 1 | `ShutdownCompletes` is violated |
| `health_monitor` | 2 sensors, 2 streams each; beat 1, timeout 3, sleep 1, lag 1 | `SilenceIsReported`, `RunningIsNotStale` hold; 2 591 019 states |
| `detection_stream` | 2 services, 4 batches of one detection | 2 invariants and `AllFinish` hold; 238 374 states |
| `detection_disorder` | 1 service, 2 batches of up to two detections | `InOrderCountsNone` is violated |
| `track_manager` | 3 tracks, 2 hits confirm, 2 and 3 misses delete, window 2 | 4 invariants, an action property and the refinement hold; 5 140 states |
| `track_association` | every 3 x 2 matrix over {0, 1, 3, outside} | 3 invariants and `Terminates` hold; 58 838 states |
| `replay_log` | 2 tracks, 2 interceptors, 2 passes and a third for reacquisitions, a feed of 3 | `FrameShowsTracks`, `FrameShowsFlights`, `PastIsFixed` hold; 237 699 states |
| `web_console` | 3 pages, 3 clicks, 2 visits of the globe, 2 requests, one speed, a replay of 20 steps with two places to seek | 4 invariants, `PlaybackOnlyAdvances`, `ConsoleSettles` hold; 256 058 states |

Why these bounds are enough to be interesting. Two interceptors and three tracks
allow every shape the tree distinguishes: both busy with a third track open
(retask), one idle with two open tracks (greedy choice), a hit on one pair while
the other flies on, a track that vanishes under one of them. A timeout of
two ticks lets an engagement be maintained once before it ends, and the stability
and cooldown lengths overlap it. Nothing in the code counts beyond these, and the
safety properties of this part are proved without bounds. In the demo two streams
of two overfill a queue of two, one being ahead of the other, while the worker holds
a measurement and another waits in the vector; a stream can be level with its last
number, and a detection can be sent later than one that follows it, due at the first
tick or the second, and come after the tick it was due at, or after `main` has left. `Faults` holds both values, so half of
the initial states have an injector (the demo itself constructs none). `Load`, the
number of detections per stream, is the only bound that is not in the code; it is
reached when the streams have ended, so these runs do not check deadlock.

In `replay_log` two passes show a track created and confirmed, deleted or missed,
and an interceptor assigned, assigned again, hit or released; `AnotherPass` adds the
third that a reacquisition needs, and the crash may cut into each of the two.
`EoirPasses` bounds the passes in which EO/IR refines tracks radar did not hit, missed
ones and new ones alike; the second has both. The log
grows with every pass, so no run is long; it stops there, hence no deadlock
check. In `web_console` two visits of the globe are enough for an old socket to
report into a new visit, two requests for two handlers to overlap and for a click to
meet a poll and another click's refetch, and three clicks for leaving a page, coming
back and using it. `Pages` holds the globe, the timeline and one page without either;
the remaining pages of the navigation show the same copies, and the dashboard adds
buttons the globe has. `MaxVisits`, `MaxRequests`, `MaxClicks`, `ScrubTimes` and
`Speeds` are bounds; a replay of twenty steps of 5 ms takes two
beats at speed 1x and one at 2x, a seek to 25 leaves less than a beat, and one to 12
a beat and a part of one. The proofs have none of these bounds.

The health run has the smallest timeout for which its properties hold: below
`Beat + 2 * Lag` a live sensor can be reported, because a handler that is overtaken
writes back an older time. With the code's values (a heartbeat every second, a
timeout of two) there is room for lags of half a second. `Overdue`, the bound in
`SilenceIsReported`, is tight as well. `MaxBatches` is four so that a swap, a drop and a batch left for
the end fit into one run; two services are the shortest chain in which a handler
both waits and is waited for; `MaxTracks` lets a third track be compared with two
deleted ones. `MaxTracks`, `MaxBatches` and the ages that stop at `Forever` are not
in the code, and the proofs hold for all their values. In `track_association` three
rows are the fewest for which a path passes through two columns that are already
matched, and three by two needs padding; larger matrices are left to the proofs.

*Fairness.* `MissionLoop!FairSpec` says that the loop goes on
(`WF_vars(Next)`): it is a `for` loop without blocking calls, and the property is
about runs long enough. Nothing is assumed about the track facts, the tree's
preferences or hits. `IngestPipeline!FairSpec` is weak fairness of the worker and
of the destructor's thread, which the operating system schedules; none is
assumed for the streams or for spurious wakeups. `DemoSpec` assumes the same of the
worker with its callback and of the destructor, and nothing of the ticks.
`DetectionStream!FairSpec` is weak fairness of the node and of each handler, which are
threads that run until they block; a stream never has to break. `Hungarian!FairSpec`
says that the function runs on. `HealthMonitor` needs no fairness: its bounds are on
time. `ConsoleFairness` is weak fairness of the timer and of the polls, which the
browser runs as long as they are set, and of each request's own steps; strong
fairness of a fetch that is answered and arrives, because a poll that fails is sent
again and a network that lost all of them would owe nothing. Users and sockets owe nothing.

`TypeOK` of `Hungarian`, `HealthMonitor`, `DetectionStream`, `IngestPipeline` and
`WebConsole` documents the ranges of the variables and is not part of a run: all of
these are proved, as parts of the invariants. `TypeOK` of `MissionLoop` and
`TrackManager` is, since there a range is a limit of the code.

## 4. What the runs show

The four records of an engagement agree between two passes
(`EngagementRecordsAgree`), although a hit clears the blackboard's engagement
whichever pair it names. No two interceptors share a
target. Two pieces of code do nothing (`DeadBranchesStayDead`): the grace period of the
maintain loop, because reconciliation removes the same entries first, and the
counter `intercept_fail_total`, because the interceptor is
released while the time since the command is one tick short of the timeout.

The track manager keeps no track past its misses, whatever EO/IR does, deletes none
earlier, and implements the lifecycle that `MissionLoop` assumes. The Hungarian
association is best among the gated ones although gate and padding have prices.
A broken stream anywhere leaves prefixes along the chain and no process waiting;
but only when no stream broke does the node's success mean delivery, because the
handlers ignore how the forward stream ended.

From the queue to the tracker nothing is lost, doubled or given out of turn once the
demo listens (`TrackerIsFed`); what is published before is counted and unheard. A
measurement may overtake another of its sensor only if it was sent earlier.

The replay shows the mission that was flown (`FrameShowsTracks`,
`FrameShowsFlights`): who flies is shown with its target, whatever else was logged
in the pass, hits are in the feed, and a log that is cut off shows its past
unchanged. Three inaccuracies are in the properties because they are in the
code: a track that was confirmed in the pass of its creation and lies near a deleted
one is shown as tentative, because its reacquisition is logged with the older copy; an
assignment that ended by timeout or loss stays shown as assigned, next to an
interceptor shown idle, because no line is logged for its end; and a coasting label
stays until the track's next stability event.

In the console the indicator may say "Link Down" while a socket is up, when an
earlier one closes late, or after one garbled message; it never says linked without a
socket (`LinkIsShown`). A click whose refetch went through is shown (`ClickIsShown`);
overlapping start and stop can leave a row that says playback and does not run, and
nothing else can (`MixedOnlyByOverlap`). Playback comes to its end and stops, the
badge catches up, the buttons come back unless their request threw
(`ConsoleSettles`).

Three places where the code falls short of what the repository says:

1. `mission_denials`. The memory has one slot for the denied track and its
   cooldown (`mission_behavior_tree.cpp:948`). Two tracks that are best in turn
   evict each other, and each is denied again inside its own cooldown; the test
   "denial cooldown prevents repeated denial spam" drives one track.
2. `ingest_shutdown`. `~IngestPipeline` stores `stop_` and notifies without
   `queue_mutex_`. If both happen after the worker has evaluated its predicate
   and before it sleeps, nobody wakes it again and the join hangs. Storing
   `stop_` under `queue_mutex_` would close the window. A spurious wakeup would
   rescue the worker, but none is owed.
3. `detection_disorder`. All detections of a batch carry its number, and ingest
   takes a number that is not above the last one for disorder
   (`ingest_pipeline.cpp:56`). A scan with a false alarm is therefore counted as
   out of order, while `TRIAGE.md` reads the counter as a sign of bursts and
   reordering.

## 5. What is proved

For all values of the constants that satisfy the named assumptions of the modules:

- *Engagement* (`MissionLoopProofs`), for any sets of
  interceptors and tracks, any timeout, stability and cooldown lengths and any health
  reports: `Invariance` (`Spec => []IInv`); from it `TypeCorrect`,
  `TargetsAreNotShared`, `MemoryStaysOneToOne`, `RecordsAgree`,
  `DeletedTracksAreReleased`, `RetasksAreLast`, `DeadBranches`, `ModeIsRight`, the
  action properties `FlightsEndByTimeout` and `NoInterceptorIsSpared`, and the
  refinement `LoopKeepsItsPromise`: `MissionLoop` implements `MissionFlights`.
- *Tracks* (`TrackManagerProofs`), for any number of tracks, thresholds and window:
  `TrackInvariance`; from it `TracksWellTyped`, `SilentTracksGo`,
  `EventsAreOfLiveTracks`, `MemoryIsAWindow`, the action property
  `DeletionNeedsSilence`, and the refinement `TracksLiveProperly`: `TrackManager`
  implements `TrackLifecycle`.
- *Association* (`TrackAssociationProofs`), for matrices of any size and any costs:
  `HungarianInvariance`; from it `TheAssignmentIsCheapest`, `TheHungarianPairsBest`,
  and `NearestLeavesNoPair`. The second has a hypothesis, because without it the
  statement is false: the costs inside the gate must be so small that as many of
  them as there are pairs come to less than the price of one pair outside. In the
  code a gated cost is at most 9.21 (`track_manager.h:32-33`) and the price is 1e9
  (`track_manager.h:41`), which leaves room for a hundred million tracks.
- *Ingest* (`IngestPipelineProofs`), for any streams, load, queue limit, overflow
  policy and injector: `IngestInvariance`, `NoWakeUpIsLost`, `NothingIsLostUncounted`,
  `OrderThroughThePipeline`, the refinement `PipelineIsFifo` (`LossyFifo`);
  `DemoRunsThePipeline` shows that `ClusterDemo` leaves its pipeline a pipeline, so
  `DemoIsServed` says the same of the demo; `TheTrackerIsFed` takes the order on to
  the tracker, for any number of ticks and times of sending.
- *Heartbeats* (`HealthMonitorProofs`), for any sensors, streams, beat, sleep and lag:
  `SilenceInvariance`; from it `SilenceIsAlwaysReported` for any timeout, and
  `RunningSensorIsNotReported` if the timeout is at least `Beat + 2 * Lag`. With the
  code's beat of one second and timeout of two, handlers may lag by half a second;
  the run shows the smallest such timeout.
- *Streams* (`DetectionStreamProofs`), for a chain of any length, any number and sizes
  of batches: `StreamInvariance`; from it `OrderAlongTheWay` and `SuccessDelivers`.
- *Console* (`WebConsoleProofs`), for any replay, seeks, speeds, pages, and numbers of
  clicks, visits and requests: `ReplayTypeCorrect`, `ConsoleInvariance`,
  `PlayheadStaysInRange`, `PlaybackAdvances`, `IndicatorIsRight`,
  `BadgeIsNotOlder`, `RowIsMixedByOverlapOnly`.
- *Replay* (`WebConsoleProofs`), for any finite number of tracks and interceptors, any
  number of passes and any length of the feed: `LogInvariance`; from it
  `TracksOfFrame`, `FlightsOfFrame`, and the action property `PastStaysFixed`.

The assumptions are the `ASSUME`s of the modules: what is a natural number is one,
`NoTrack` is not a track and infinity no number, the window and the thresholds for
deletion are not zero, a chain has a service and a matrix a row and a column, a price
is above the gates and the padding above the prices, a
replay does not end before it starts. The streams of the pipeline are finitely many,
since their detections are counted, and the tracks and interceptors of a log are, since
a pass writes a line for each; nothing is assumed about finiteness of the sets of
interceptors and tracks of the mission, or of sensors.

The refinements meet: `MissionLoop` relies on `TrackLifecycle` for how a fact may
change, `MissionFlights` extends it, and `ReplayLog` is checked against
`MissionFlights`.

### The engagement invariant

*Why a strengthening is needed.* None of the properties is inductive: each speaks
about the end of a pass, and inside a pass the records differ on purpose. `IInv`
says what each step hands to the next. After `Observe` the positions are those
of the confirmed tracks and a target is confirmed or gone. After `Decide` every
command is in the memory, for a confirmed track nobody holds, and commands do not
conflict; an interceptor may be missing from the memory only if its track is gone
or it is about to be retasked. `Command` needs exactly that to keep targets
distinct and the ledger equal to the manager. `Fly` may release interceptors, so
until `Resolve` the ledger may be ahead of the manager, never different from it.
The two clocks differ by the tick that `Fly` has added and `Observe` has not.

The first part of `MissionLoopProofs` does the tree's half: `MaintainedEntries` and
`HeldIsMaintained` say that the maintained memory is the part of the interceptors'
targets whose tracks are still there; `AssignIdleGuarantee`, `RetaskGuarantee`
and `KeepGuarantee` say what each way out of `tick` leaves behind; `TickIsGood`
puts them together. `NoFallbackAssignment` justifies leaving the fallback branches
out: it follows from the invariant that a track that passes the gates there is not
held by an interceptor and no interceptor is idle.

### The other invariants

*Track manager.* `TrackInv` ties the counters of the code to the history: between
updates a live track's misses are the updates since radar last hit it and are below
its threshold (`AtRest`), and the ticks left to a deleted track plus the updates since
its deletion make the window. The properties speak of the history, the code counts.

*Pipeline.* `IngestInv` says that the worker has a measurement in hand exactly when it
is about to publish it, and that the queue is empty from its look at the queue until
it is woken. The second is what holding the mutex up to the sleep is for; the
first makes the backlog of the refinement a sequence that `Take` does not change.
`AllAccountedFor` is inductive with it: a sum over the streams, of which each step
changes one term. `StreamsKeepOrder` orders a stream's detections through the
pipeline: in hand after queue, queue after the worker's, that after the delivered.

*Demo.* `DemoInv` follows a measurement from the callback: what is in the vector is,
stream by stream, in order and newer than all the main thread has taken from it
(`ArrivesInOrder`); the buffer is sorted by the time of sending and, for equal times,
in the order of arrival (`BufferIsSorted`). That a measurement overtakes only what was sent
later follows when the due ones are taken from its front.

*Association.* `HungarianInv` has three parts. Every row entered is held by one column,
where column 0 and, during the walk back, the column the walk is at count apart
(`RowsAreHeldOnce`). `minv` is the least reduced cost out of the tree (`TreeGrows`), so
a shift by its minimum violates no edge. The edges of the tree are tight, and a column
has a higher rank than the one before it (`TreeIsTight`): the walk back does not come
to a column twice, so what it has taken over it does not disturb. At the end the
matched edges are tight and no edge is violated, so the sum of the potentials is what
the matching costs and no more than what any other costs; leaving out the padding, of
which every full matching has as many, keeps the comparison. For the gates, a
pairing inside them is filled up to a full one: one pair outside more costs more than
all the gated ones together, so the cheapest has the fewest, and among those the
cheapest gated part.

*Heartbeats.* An entry may be older than the last heartbeat, never younger
(`NotYounger`); the silence of an unmarked sensor is bounded by what the monitor's last
scan could have missed and its time since (`MarkedInTime`). That a running sensor is
not marked rests on `HeardOrSoonHeard`: the entry is as fresh as the last heartbeat up to
the lag, or a handler holds a fresher one.

*Streams.* What a service has logged and what is on its way to it is a prefix of what
its writer has passed on, and all of it as long as the stream is sound
(`LosesItsEndOnly`). The node's own sequence has at most one larger number in front of
each (`OnlySwaps`). A handler of sound streams is done only when those behind it are
(`SoundLosesNothing`), which gives the chain of any length from one link.

*Numbers, sets and sums.* The library's induction theorems cannot be used, because they
take an operator as parameter. `Induction` proves what is needed without: inclusion is
a well-founded relation on finite subsets, hence a set of natural numbers has a least
element, hence a set of them that contains 0 and all successors is `Nat`; a proof by
induction takes the set of the numbers its statement is true of. That recursively
defined functions exist and what sums over finite sets are is shown in the same way.

*Console.* `ReplayInv` says that a timer that runs has seen the store as it is, which
is why a beat never acts on an old value. `LinkInv` needs no more than the types:
`LinkIsShown` is inductive.
`PlaybackInv` orders the copies: nothing knows of a later commit, an answer is as new
as what is shown and as the clicks that wait for it, and a handler has read the row
as it is unless something was committed since. The three share no variable, so each
step of one keeps the others (`StepsOfParts`).

*Replay.* The frame after a pass shows the last line of each kind, so `LogInv` says what
that line is: of a track the last line of its stability bears the stage it has reached,
or stands for its coasting if radar has just missed it (`TracksLogged`); of an
interceptor that flies, the last assignment names its target, and no hit on that target
is later (`FlightsLogged`); its last state is true, or shows a target it has just hit,
to which it was assigned last (`StatesLogged`). For that the times must be in the order
of the lines (`InPassOrder`, measurements apart, which bear the time they were sent),
hits must be the last lines of a pass (`HitsAtEnd`) and no two interceptors may share a
target. Each group of lines is written in an order nobody promises; a group holds one
line of each id, so which one is last in it does not matter (`LineOfOne`). The frame of
a past time is the same because what is written belongs to the pass that begins or is
under way, and what a crash cuts to the last one (`LogGrows`, `CrashKeepsPast`).

*Only model-checked:* all liveness (`FitTrackIsEngaged`, `QueueDrains`, `AllFinish`,
`Terminates`, `ConsoleSettles`), because the proof system does not handle fairness and
ENABLED here; and the three properties that are violated. Every invariant and every
action property of a run that passes is stated by a theorem.

## 6. Not modelled

Filtering, gating, threat scoring and sensor physics are real arithmetic; their
results enter as free choices. Costs and times are exact: the Hungarian solver of
the code computes with `double` and pads with 1e12, next to which differences below
about 1e-4 are lost. The node's health stream, on which it waits for each answer, is
only a source of heartbeats. Metrics, log lines other than those the replay reads,
traces and drawing are left out, and so are the load test, a measuring client of
the pipeline, the rolling incident capture, incident replay and the benchmarks,
which read or measure what is modelled elsewhere. Nobody unsubscribes from a topic in
a program; the message bus is what the demo uses of it.

Of the web tree, nine lines in ten are the vendored Cesium bundle
(`public/cesium`), third-party code. Most of the rest is markup, colours,
coordinates and text: the canvas but for its status label, the globe viewer, the
layers, the metrics strip (whose fault count is that of the whole mission at any
time), the feed's formatting. The normalizer spreads all times of a log into
`Math.min`, which an engine refuses for very long logs; the model has no such limit.
React's development mode runs effects twice; the model is the built application.
The API's remaining services read tables and files and return them. `PROJECT.json`
gives the reason for each component.

## 7. Plan

Done: the engagement core, ingest, health, tracks, streams, bus and demo with the
measurement buffer, the replay and the console, and the proofs of all their safety
properties, action properties and refinements. Left:

1. *Sensor node's health stream*: ping and answer, against a handler that stops, and
   `HealthMonitor` composed with it.
2. *Capture and incident replay*: what a triggered capture must contain, the rerun as
   a function of events.
