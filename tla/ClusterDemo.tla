---------------------------- MODULE ClusterDemo -----------------------------
(***************************************************************************)
(* run_cluster_demo: an ingest pipeline, its measurements topic, and the   *)
(* main thread that subscribes to the topic, collects what the pipeline's  *)
(* worker publishes, and at every tick hands the measurements that are due *)
(* to the tracker.                                                         *)
(*                                                                         *)
(* The worker and the main thread meet in the callback's vector, which is  *)
(* under its own mutex.  What the main thread does between two looks at    *)
(* the vector touches nothing shared, so a tick is one step, taken when it *)
(* swaps the vector.                                                       *)
(***************************************************************************)
EXTENDS IngestPipeline, SequencesExt

CONSTANT Ticks   \* options.ticks

ASSUME TicksAssumption == Ticks \in Nat

VARIABLES
  main,       \* where the main thread is
  calling,    \* the measurement whose callback the worker is about to run
  incoming,   \* incoming_measurements
  buffer,     \* measurement_buffer, by t_sent
  now,        \* fusion_time_s, in ticks
  fused,      \* what the tracker was given, in order
  unheard     \* how many were published before there was a subscriber

demoVars == <<main, calling, incoming, buffer, now, fused, unheard>>
allVars == <<vars, demoVars>>

DemoInit ==
  /\ Init
  /\ main = "serving"
  /\ calling = <<>>
  /\ incoming = <<>>
  /\ buffer = <<>>
  /\ now = 0
  /\ fused = <<>>
  /\ unheard = 0

-----------------------------------------------------------------------------
(***************************************************************************)
(* The worker: publish copies the topic's callbacks under the topic's lock *)
(* and calls them afterwards.                                              *)
(***************************************************************************)
PublishToSubscribers ==
  /\ Publish
  /\ IF main = "serving"
       THEN unheard' = unheard + 1 /\ UNCHANGED calling
       ELSE calling' = popped /\ UNCHANGED unheard
  /\ UNCHANGED <<main, incoming, buffer, now, fused>>

\* When main has returned the vector is gone, and nobody sees what is added.
Callback ==
  /\ calling # <<>>
  /\ incoming' = IF main = "left" THEN <<>> ELSE incoming \o calling
  /\ calling' = <<>>
  /\ UNCHANGED <<vars, main, buffer, now, fused, unheard>>

CountWhenCalled == calling = <<>> /\ Count /\ UNCHANGED demoVars

WorkerElsewhere ==
  (LoopTest \/ Take \/ Leave \/ StartToWait \/ FallAsleep) /\ UNCHANGED demoVars

DemoWorker ==
  PublishToSubscribers \/ Callback \/ CountWhenCalled \/ WorkerElsewhere

-----------------------------------------------------------------------------
(***************************************************************************)
(* The main thread.  The server already takes streams when it subscribes.  *)
(***************************************************************************)
Subscribe ==
  /\ main = "serving"
  /\ main' = "ticking"
  /\ UNCHANGED <<vars, calling, incoming, buffer, now, fused, unheard>>

\* What is in front of a buffer: everything before the first sent after time.
Due(b, time) == {k \in DOMAIN b : \A j \in 1..k : b[j].sent <= time}

\* Mutant: a measurement goes before those sent at the same time.
PushedFirst(b, m) ==
  InsertAt(b, Cardinality({k \in DOMAIN b : \A j \in 1..k : b[j].sent < m.sent}) + 1, m)

\* push: before the first that was sent later.
Pushed(b, m) == InsertAt(b, Cardinality(Due(b, m.sent)) + 1, m)

\* What was swapped out of the vector is pushed in turn.
AllPushed(b, new) ==
  LET After[k \in 0..Len(new)] ==
        IF k = 0 THEN b ELSE Pushed(After[k - 1], new[k])
  IN  After[Len(new)]

\* pop_ready takes from the front while it is due.
Tick ==
  /\ main = "ticking"
  /\ now < Ticks
  /\ now' = now + 1
  /\ incoming' = <<>>
  /\ LET drained == AllPushed(buffer, incoming)
         ready == Cardinality(Due(drained, now'))
     IN  /\ fused' = fused \o SubSeq(drained, 1, ready)
         /\ buffer' = SubSeq(drained, ready + 1, Len(drained))
  /\ UNCHANGED <<vars, main, calling, unheard>>

\* The server has shut down, which waits for the streams; the vector goes, then
\* the pipeline's destructor starts.
Return ==
  /\ main = "ticking"
  /\ now = Ticks
  /\ Destroy
  /\ main' = "left"
  /\ incoming' = <<>>
  /\ UNCHANGED <<calling, buffer, now, fused, unheard>>

Unheeded ==
  /\ \/ \E s \in Streams : Ingest(s)
     \/ WakeForNoReason
     \/ Destructor
  /\ UNCHANGED demoVars

DemoNext == DemoWorker \/ Subscribe \/ Tick \/ Return \/ Unheeded

\* The worker thread, and main in the destructor, are scheduled.
DemoSpec ==
  /\ DemoInit /\ [][DemoNext]_allVars
  /\ WF_allVars(DemoWorker)
  /\ WF_allVars(Destructor /\ UNCHANGED demoVars)

-----------------------------------------------------------------------------
OnTheWay == fused \o buffer \o incoming \o calling

\* The tracker is given no measurement twice, and while main runs none that was
\* published to it is lost between the worker and the tracker.
EachFedOnce ==
  /\ IsInjective(OnTheWay) /\ ToSet(OnTheWay) \subseteq ToSet(delivered)
  /\ main # "left" => Len(OnTheWay) + unheard = Len(delivered)

\* Nothing is given to the tracker before its time, and nothing that came in
\* before a tick and is due stays behind one that is not.
FedWhenDue ==
  /\ \A k \in DOMAIN fused : fused[k].sent <= now
  /\ \A k \in DOMAIN buffer : buffer[k].sent > now

\* A sensor's measurements are given to the tracker in the order they came in,
\* but for one sent earlier than those it overtakes.
FedInOrder ==
  \A j, k \in DOMAIN fused :
    j < k /\ fused[j].stream = fused[k].stream /\ fused[k].n < fused[j].n
      => fused[j].sent < fused[k].sent

\* What the tracker of run_cluster_demo relies on, through the queue, the topic,
\* the callback's vector and the measurement buffer.
TrackerIsFed == EachFedOnce /\ FedWhenDue /\ FedInOrder

=============================================================================
