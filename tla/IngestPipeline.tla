--------------------------- MODULE IngestPipeline ---------------------------
(***************************************************************************)
(* The ingest pipeline: streams of detections are checked for order and    *)
(* put into a bounded queue; a worker thread takes them out and publishes  *)
(* them on the measurements topic; the destructor stops the worker.        *)
(*                                                                         *)
(* A step is what one thread does under one lock, or between two locks.    *)
(* The one place where a lock is seen to be held is the worker's between   *)
(* looking at the queue and going to sleep.                                *)
(***************************************************************************)
EXTENDS Naturals, Sequences, FiniteSets

CONSTANTS
  Streams,      \* the open streams, each carrying the detections of one sensor
  Seqs,         \* the sequence numbers detections carry
  Times,        \* the values of t_sent
  Load,         \* bound: detections per stream
  MaxQueue,     \* max_queue
  DropOldest,   \* drop_oldest
  Faults        \* whether there may be, and may not be, a fault injector

ASSUME PipelineAssumption ==
  /\ IsFiniteSet(Streams)
  /\ Seqs \subseteq Nat
  /\ Times \subseteq Nat
  /\ Load \in Nat
  /\ MaxQueue \in Nat
  /\ DropOldest \in BOOLEAN
  /\ Faults \subseteq BOOLEAN

VARIABLES
  taken,       \* how many detections of each stream have been taken up
  hand,        \* the detection of a stream between the check and the queue
  lastSeq,     \* last_seq_by_sensor_, {} when there is none
  outOfOrder,  \* ingest_out_of_order_total
  queue,       \* queue_
  drops,       \* total_drops_
  worker,      \* where the worker thread is
  popped,      \* the measurement the worker is to publish, if any
  delivered,   \* what the topic's subscribers have been given, in order
  published,   \* total_published_
  stop,        \* stop_
  owner,       \* where the owner of the pipeline is
  faulty       \* is there a fault injector, fixed at construction

streamVars == <<taken, hand, lastSeq, outOfOrder>>
queueVars == <<queue, drops>>
workerVars == <<worker, popped, delivered, published>>
ownerVars == <<stop, owner, faulty>>
vars == <<streamVars, queueVars, workerVars, ownerVars>>

\* A detection: the n-th of its stream.  The pipeline carries t_sent along and
\* never looks at it, so a delay the fault injector adds to it is in it already.
Detection == [stream : Streams, n : 1..Load, seq : Seqs, sent : Times]

WorkerAt == {"loop", "lock", "parking", "parked", "publish", "count", "done"}
OwnerAt == {"running", "notify", "join", "gone"}

TypeOK ==
  /\ taken \in [Streams -> 0..Load]
  /\ hand \in [Streams -> SUBSET Detection]
  /\ lastSeq \in [Streams -> SUBSET Seqs]
  /\ outOfOrder \in Nat
  /\ queue \in Seq(Detection) /\ Len(queue) <= MaxQueue
  /\ drops \in Nat
  /\ worker \in WorkerAt
  /\ popped \in Seq(Detection) /\ Len(popped) <= 1
  /\ delivered \in Seq(Detection)
  /\ published \in Nat
  /\ stop \in BOOLEAN
  /\ owner \in OwnerAt
  /\ faulty \in Faults

Init ==
  /\ taken = [s \in Streams |-> 0]
  /\ hand = [s \in Streams |-> {}]
  /\ lastSeq = [s \in Streams |-> {}]
  /\ outOfOrder = 0
  /\ queue = <<>>
  /\ drops = 0
  /\ worker = "loop"
  /\ popped = <<>>
  /\ delivered = <<>>
  /\ published = 0
  /\ stop = FALSE
  /\ owner = "running"
  /\ faulty \in Faults

-----------------------------------------------------------------------------
(***************************************************************************)
(* ingest_batch, for each detection: the check under state_mutex_, then    *)
(* enqueue_measurement: the fault injector, then the queue.                *)
(***************************************************************************)

Regressed(s, seq) == \E last \in lastSeq[s] : seq <= last

Check(s) ==
  /\ owner = "running"
  /\ hand[s] = {}
  /\ taken[s] < Load
  /\ \E seq \in Seqs, sent \in Times :
       /\ hand' = [hand EXCEPT ![s] =
                     {[stream |-> s, n |-> taken[s] + 1, seq |-> seq, sent |-> sent]}]
       /\ outOfOrder' = IF Regressed(s, seq) THEN outOfOrder + 1 ELSE outOfOrder
       /\ lastSeq' = [lastSeq EXCEPT ![s] = {seq}]
  /\ taken' = [taken EXCEPT ![s] = @ + 1]
  /\ UNCHANGED <<queueVars, workerVars, ownerVars>>

\* Mutant: measurements are put into the queue without its lock.
NoQueueLock == TRUE

\* queue_mutex_ is free: the worker keeps it while it goes to sleep.
QueueUnlocked == worker # "parking"

\* Mutant: last in is first out.
OfferedInFront(d) ==
  IF Len(queue) < MaxQueue THEN <<d>> \o queue
  ELSE IF DropOldest /\ queue # <<>> THEN <<d>> \o Tail(queue)
  ELSE queue

\* The queue after d has been offered to it.
Offered(d) ==
  IF Len(queue) < MaxQueue THEN Append(queue, d)
  ELSE IF DropOldest /\ queue # <<>> THEN Append(Tail(queue), d)
  ELSE queue

\* Mutant: nobody is notified.
NotWoken == worker

\* notify_one and notify_all: the worker is the only thread that waits.
Woken == IF worker = "parked" THEN "lock" ELSE worker

Enqueue(s) ==
  /\ QueueUnlocked
  /\ \E d \in hand[s] : queue' = Offered(d)
  /\ hand' = [hand EXCEPT ![s] = {}]
  /\ drops' = IF Len(queue) < MaxQueue THEN drops ELSE drops + 1
  /\ worker' = Woken
  /\ UNCHANGED <<taken, lastSeq, outOfOrder, popped, delivered, published, ownerVars>>

\* Mutant: an injected drop is not counted.
FaultDropSilently(s) ==
  /\ faulty
  /\ hand[s] # {}
  /\ hand' = [hand EXCEPT ![s] = {}]
  /\ UNCHANGED <<taken, lastSeq, outOfOrder, queueVars, workerVars, ownerVars>>

FaultDrop(s) ==
  /\ faulty
  /\ hand[s] # {}
  /\ hand' = [hand EXCEPT ![s] = {}]
  /\ drops' = drops + 1
  /\ UNCHANGED <<taken, lastSeq, outOfOrder, queue, workerVars, ownerVars>>

-----------------------------------------------------------------------------
(***************************************************************************)
(* worker_loop.                                                            *)
(***************************************************************************)
WorkerUnchanged == UNCHANGED <<streamVars, drops, ownerVars>>

LoopTest ==
  /\ worker = "loop"
  /\ worker' = IF stop THEN "done" ELSE "lock"
  /\ UNCHANGED <<queue, popped, delivered, published>> /\ WorkerUnchanged

\* The predicate of the wait holds: take one out, or leave if there is none.
Take ==
  /\ worker = "lock"
  /\ queue # <<>>
  /\ popped' = <<Head(queue)>>
  /\ queue' = Tail(queue)
  /\ worker' = "publish"
  /\ UNCHANGED <<delivered, published>> /\ WorkerUnchanged

Leave ==
  /\ worker = "lock"
  /\ queue = <<>> /\ stop
  /\ worker' = "done"
  /\ UNCHANGED <<queue, popped, delivered, published>> /\ WorkerUnchanged

\* It does not hold: the mutex is kept until the thread is asleep.
StartToWait ==
  /\ worker = "lock"
  /\ queue = <<>> /\ ~stop
  /\ worker' = "parking"
  /\ UNCHANGED <<queue, popped, delivered, published>> /\ WorkerUnchanged

FallAsleep ==
  /\ worker = "parking"
  /\ worker' = "parked"
  /\ UNCHANGED <<queue, popped, delivered, published>> /\ WorkerUnchanged

\* A condition variable may wake its waiter for no reason.
WakeForNoReason ==
  /\ worker = "parked"
  /\ worker' = "lock"
  /\ UNCHANGED <<queue, popped, delivered, published>> /\ WorkerUnchanged

Publish ==
  /\ worker = "publish"
  /\ delivered' = delivered \o popped
  /\ popped' = <<>>
  /\ worker' = "count"
  /\ UNCHANGED <<queue, published>> /\ WorkerUnchanged

Count ==
  /\ worker = "count"
  /\ published' = published + 1
  /\ worker' = "loop"
  /\ UNCHANGED <<queue, popped, delivered>> /\ WorkerUnchanged

Worker ==
  LoopTest \/ Take \/ Leave \/ StartToWait \/ FallAsleep \/ Publish \/ Count

-----------------------------------------------------------------------------
(***************************************************************************)
(* The destructor: it may run once no stream is being served.  It takes no *)
(* lock to set stop_ or to notify.                                         *)
(***************************************************************************)
Destroy ==
  /\ owner = "running"
  /\ \A s \in Streams : hand[s] = {}
  /\ stop' = TRUE
  /\ owner' = "notify"
  /\ UNCHANGED <<streamVars, queueVars, workerVars, faulty>>

NotifyAll ==
  /\ owner = "notify"
  /\ worker' = Woken
  /\ owner' = "join"
  /\ UNCHANGED <<streamVars, queueVars, popped, delivered, published, stop, faulty>>

Join ==
  /\ owner = "join"
  /\ worker = "done"
  /\ owner' = "gone"
  /\ UNCHANGED <<streamVars, queueVars, workerVars, stop, faulty>>

Destructor == NotifyAll \/ Join

Ingest(s) == Check(s) \/ FaultDrop(s) \/ Enqueue(s)

Next ==
  \/ \E s \in Streams : Ingest(s)
  \/ Worker
  \/ WakeForNoReason
  \/ Destroy
  \/ Destructor

Spec == Init /\ [][Next]_vars

\* The worker thread and the thread in the destructor are scheduled.
FairSpec == Spec /\ WF_vars(Worker) /\ WF_vars(Destructor)

-----------------------------------------------------------------------------
(***************************************************************************)
(* Safety.                                                                 *)
(***************************************************************************)

\* The detections taken up, the n-th of s as <<s, n>>, and the streams one of
\* which is between the check and the queue.
TakenUp == {d \in Streams \X (1..Load) : d[2] <= taken[d[1]]}
InHand == {s \in Streams : hand[s] # {}}

\* Every detection taken up from a stream is on its way, was delivered, or is
\* counted as a drop, whatever the threads and the overflow policy did to it.
AllAccountedFor ==
  Cardinality(TakenUp) =
    Cardinality(InHand) + Len(queue) + Len(popped) + Len(delivered) + drops

\* The worker is never asleep while a measurement waits: no notification of a
\* new measurement is lost between its look at the queue and its sleep.
SleepsOnlyWhenEmpty == worker = "parked" => queue = <<>>

\* The promise to the subscribers: a FIFO that loses nothing but at its limit.
\* What the worker has taken out is still in the backlog until it is published.
Channel ==
  INSTANCE LossyFifo WITH
    Messages <- Detection, Limit <- MaxQueue, backlog <- popped \o queue, lost <- drops

ImplementsFifo == Channel!FifoSpec

(***************************************************************************)
(* Liveness.                                                               *)
(***************************************************************************)

\* A measurement in the queue is worked off, unless the pipeline is destroyed.
QueueDrains == queue # <<>> ~> (queue = <<>> \/ stop)

\* The destructor returns: every run of a program that owns a pipeline ends.
ShutdownCompletes == owner = "notify" ~> owner = "gone"

=============================================================================
