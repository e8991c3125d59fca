------------------------ MODULE IngestPipelineProofs ------------------------
(***************************************************************************)
(* The ingest pipeline loses no wake-up, and keeps the promise of a FIFO   *)
(* that loses something only at its limit or to an injected fault, for any *)
(* number of streams and any length of the queue, on its own and inside    *)
(* run_cluster_demo.                                                       *)
(***************************************************************************)
EXTENDS ClusterDemo, Induction

\* The worker has a measurement in hand exactly on its way to publish it.
InHandToPublish == (worker = "publish") <=> (popped # <<>>)

\* From its look at the queue until it is woken the queue is empty: that it
\* keeps the lock on its way to sleep is what makes SleepsOnlyWhenEmpty hold.
WaitsForNothing == worker \in {"parking", "parked"} => queue = <<>>

IngestInv == TypeOK /\ InHandToPublish /\ WaitsForNothing

\* What the queue is after an offer, with and without room.
LEMMA OfferedQueue ==
  ASSUME TypeOK, NEW d \in Detection
  PROVE  Offered(d) \in Seq(Detection) /\ Len(Offered(d)) <= MaxQueue
<1>1. queue \in Seq(Detection) /\ Len(queue) <= MaxQueue /\ MaxQueue \in Nat
  BY PipelineAssumption DEF TypeOK
<1>2. CASE Len(queue) < MaxQueue
  BY <1>1, <1>2 DEF Offered
<1>3. CASE ~(Len(queue) < MaxQueue) /\ DropOldest /\ queue # <<>>
  <2>1. Tail(queue) \in Seq(Detection) /\ Len(Tail(queue)) = Len(queue) - 1
    BY <1>1, <1>3
  <2>2. QED
    BY <1>1, <1>3, <2>1 DEF Offered
<1>4. CASE ~(Len(queue) < MaxQueue) /\ ~(DropOldest /\ queue # <<>>)
  BY <1>1, <1>4 DEF Offered
<1>5. QED
  BY <1>2, <1>3, <1>4

\* A new pipeline.
LEMMA IngestInitIsGood == Init => IngestInv
<1> SUFFICES ASSUME Init
             PROVE  IngestInv
  OBVIOUS
<1>1. stop \in BOOLEAN
  BY Zenon DEF Init
<1>2. TypeOK
  BY <1>1, PipelineAssumption DEF Init, TypeOK, WorkerAt, OwnerAt
<1>3. QED
  BY <1>2 DEF Init, IngestInv, InHandToPublish, WaitsForNothing

\* What one stream does.
LEMMA IngestStepIsGood ==
  ASSUME IngestInv, NEW s \in Streams, Ingest(s)
  PROVE  IngestInv'
<1> USE DEF IngestInv, InHandToPublish, WaitsForNothing
<1>1. CASE Check(s)
  <2>1. PICK seq \in Seqs, sent \in Times :
          /\ hand' = [hand EXCEPT ![s] =
                       {[stream |-> s, n |-> taken[s] + 1, seq |-> seq, sent |-> sent]}]
          /\ outOfOrder' = IF Regressed(s, seq) THEN outOfOrder + 1 ELSE outOfOrder
          /\ lastSeq' = [lastSeq EXCEPT ![s] = {seq}]
    BY <1>1 DEF Check
  <2>2. taken[s] \in 0..Load /\ taken[s] < Load /\ Load \in Nat
    BY <1>1, PipelineAssumption DEF Check, TypeOK
  <2>3. [stream |-> s, n |-> taken[s] + 1, seq |-> seq, sent |-> sent] \in Detection
    BY <2>1, <2>2 DEF Detection
  <2>4. /\ hand' \in [Streams -> SUBSET Detection]
        /\ lastSeq' \in [Streams -> SUBSET Seqs]
        /\ outOfOrder' \in Nat
    BY <2>1, <2>3 DEF TypeOK
  <2>5. taken' \in [Streams -> 0..Load]
    BY <1>1, <2>2 DEF Check, TypeOK
  <2>6. QED
    BY <1>1, <2>4, <2>5 DEF Check, TypeOK, queueVars, workerVars, ownerVars
<1>2. CASE FaultDrop(s)
  <2>1. hand' \in [Streams -> SUBSET Detection] /\ drops' \in Nat
    BY <1>2 DEF FaultDrop, TypeOK
  <2>2. UNCHANGED <<taken, lastSeq, outOfOrder, queue, worker, popped, delivered, published,
                    stop, owner, faulty>>
    BY <1>2 DEF FaultDrop, workerVars, ownerVars
  <2>3. QED
    BY <2>1, <2>2 DEF TypeOK
<1>3. CASE Enqueue(s)
  <2>1. PICK d \in hand[s] : queue' = Offered(d)
    BY <1>3 DEF Enqueue
  <2>2. d \in Detection
    BY <2>1 DEF TypeOK
  <2>3. queue' \in Seq(Detection) /\ Len(queue') <= MaxQueue
    BY <2>1, <2>2, OfferedQueue
  <2>4. /\ worker' \in WorkerAt
        /\ worker' \notin {"parking", "parked"}
        /\ worker' = "publish" <=> worker = "publish"
    BY <1>3 DEF Enqueue, QueueUnlocked, Woken, TypeOK, WorkerAt
  <2>5. QED
    BY <1>3, <2>3, <2>4 DEF Enqueue, TypeOK, ownerVars
<1>4. QED
  BY <1>1, <1>2, <1>3 DEF Ingest

\* What the worker does, woken for whatever reason.
LEMMA WorkerStepIsGood ==
  ASSUME IngestInv, Worker \/ WakeForNoReason
  PROVE  IngestInv'
<1> USE DEF IngestInv, InHandToPublish, WaitsForNothing, TypeOK, WorkerAt,
            WorkerUnchanged, streamVars, ownerVars
<1>1. CASE LoopTest
  BY <1>1 DEF LoopTest
<1>2. CASE Take
  <2>1. Head(queue) \in Detection /\ Tail(queue) \in Seq(Detection)
        /\ Len(Tail(queue)) <= MaxQueue
    BY <1>2, PipelineAssumption DEF Take
  <2>2. <<Head(queue)>> \in Seq(Detection) /\ Len(<<Head(queue)>>) = 1
    BY <2>1
  <2>3. QED
    BY <1>2, <2>1, <2>2 DEF Take
<1>3. CASE Leave
  BY <1>3 DEF Leave
<1>4. CASE StartToWait
  BY <1>4 DEF StartToWait
<1>5. CASE FallAsleep
  BY <1>5 DEF FallAsleep
<1>6. CASE Publish
  <2>1. delivered \o popped \in Seq(Detection)
    OBVIOUS
  <2>2. QED
    BY <1>6, <2>1 DEF Publish
<1>7. CASE Count
  BY <1>7 DEF Count
<1>8. CASE WakeForNoReason
  BY <1>8 DEF WakeForNoReason
<1>9. QED
  BY <1>1, <1>2, <1>3, <1>4, <1>5, <1>6, <1>7, <1>8 DEF Worker

\* What the owner does.
LEMMA OwnerStepIsGood ==
  ASSUME IngestInv, Destroy \/ Destructor
  PROVE  IngestInv'
<1> USE DEF IngestInv, InHandToPublish, WaitsForNothing, TypeOK, OwnerAt,
            streamVars, queueVars, workerVars
<1>1. CASE Destroy
  <2>1. stop' \in BOOLEAN
    BY <1>1, Zenon DEF Destroy
  <2>2. QED
    BY <1>1, <2>1 DEF Destroy
<1>2. CASE NotifyAll
  <2>1. worker' \in WorkerAt /\ worker' # "parked" /\ (worker' = "parking" => worker = "parking")
        /\ (worker' = "publish" <=> worker = "publish")
    BY <1>2 DEF NotifyAll, Woken, WorkerAt
  <2>2. QED
    BY <1>2, <2>1 DEF NotifyAll
<1>3. CASE Join
  BY <1>3 DEF Join
<1>4. QED
  BY <1>1, <1>2, <1>3 DEF Destructor

\* Every variable stays in its type, and the queue within its limit.
THEOREM IngestInvariance == Spec => []IngestInv
<1>1. IngestInv /\ [Next]_vars => IngestInv'
  <2> SUFFICES ASSUME IngestInv, [Next]_vars
               PROVE  IngestInv'
    OBVIOUS
  <2>1. CASE UNCHANGED vars
    BY <2>1 DEF vars, streamVars, queueVars, workerVars, ownerVars,
                IngestInv, TypeOK, InHandToPublish, WaitsForNothing
  <2>2. QED
    BY <2>1, IngestStepIsGood, WorkerStepIsGood, OwnerStepIsGood DEF Next
<1>2. QED
  BY <1>1, IngestInitIsGood, PTL DEF Spec

\* The worker never sleeps while a measurement waits.
THEOREM NoWakeUpIsLost == Spec => []SleepsOnlyWhenEmpty
<1>1. IngestInv => SleepsOnlyWhenEmpty
  BY DEF IngestInv, WaitsForNothing, SleepsOnlyWhenEmpty
<1>2. QED
  BY <1>1, IngestInvariance, PTL

-----------------------------------------------------------------------------
(***************************************************************************)
(* Every detection is accounted for.                                       *)
(***************************************************************************)

\* What is counted is finite, and its numbers are natural numbers.
LEMMA CountsAreNumbers ==
  ASSUME TypeOK
  PROVE  /\ IsFiniteSet(TakenUp) /\ Cardinality(TakenUp) \in Nat
         /\ IsFiniteSet(InHand) /\ Cardinality(InHand) \in Nat
         /\ Len(queue) \in Nat /\ Len(popped) \in Nat /\ Len(delivered) \in Nat
         /\ drops \in Nat
<1>1. IsFiniteSet(1..Load)
  BY PipelineAssumption, FS_Interval
<1>2. IsFiniteSet(Streams \X (1..Load))
  BY <1>1, PipelineAssumption, FS_Product
<1>3. TakenUp \subseteq Streams \X (1..Load) /\ InHand \subseteq Streams
  BY DEF TakenUp, InHand
<1>4. IsFiniteSet(TakenUp) /\ IsFiniteSet(InHand)
  BY <1>2, <1>3, PipelineAssumption, FS_Subset
<1>5. Cardinality(TakenUp) \in Nat /\ Cardinality(InHand) \in Nat
  BY <1>4, FS_CardinalityType
<1>6. QED
  BY <1>4, <1>5 DEF TypeOK

\* A stream without a detection takes one up: one more of each.
LEMMA CheckIsAccountedFor ==
  ASSUME TypeOK, AllAccountedFor, NEW s \in Streams, Check(s)
  PROVE  AllAccountedFor'
<1>1. /\ taken[s] \in 0..Load /\ taken[s] < Load /\ Load \in Nat /\ hand[s] = {}
      /\ taken' = [taken EXCEPT ![s] = @ + 1] /\ taken \in [Streams -> 0..Load]
  BY PipelineAssumption DEF Check, TypeOK
<1> DEFINE d == <<s, taken[s] + 1>>
<1>2. TakenUp' = TakenUp \cup {d}
  <2>1. ASSUME NEW e \in Streams \X (1..Load)
        PROVE  e[2] <= taken'[e[1]] <=> (e[2] <= taken[e[1]] \/ e = d)
    <3>1. PICK t \in Streams, n \in 1..Load : e = <<t, n>>
      OBVIOUS
    <3>2. CASE t = s
      BY <1>1, <3>1, <3>2
    <3>3. CASE t # s
      BY <1>1, <3>1, <3>3
    <3>4. QED
      BY <3>2, <3>3
  <2>2. d \in Streams \X (1..Load)
    BY <1>1
  <2> HIDE DEF d
  <2>3. QED
    BY <2>1, <2>2 DEF TakenUp
<1>3. d \notin TakenUp
  BY <1>1 DEF TakenUp
<1> HIDE DEF d
<1>4. Cardinality(TakenUp') = Cardinality(TakenUp) + 1
  BY <1>2, <1>3, CountsAreNumbers, FS_AddElement
<1>5. InHand' = InHand \cup {s} /\ s \notin InHand
  <2>1. PICK h : h # {} /\ hand' = [hand EXCEPT ![s] = h]
    BY DEF Check
  <2>2. QED
    BY <1>1, <2>1 DEF InHand, TypeOK
<1>6. Cardinality(InHand') = Cardinality(InHand) + 1
  BY <1>5, CountsAreNumbers, FS_AddElement
<1>7. UNCHANGED <<queue, popped, delivered, drops>>
  BY DEF Check, queueVars, workerVars
<1>8. QED
  BY <1>4, <1>6, <1>7, CountsAreNumbers DEF AllAccountedFor

\* What leaves a stream's hand is in the queue or counted: at the limit the queue
\* keeps its length, whichever of its ends is dropped, or with no room at all.
LEMMA LeavingIsAccountedFor ==
  ASSUME TypeOK, AllAccountedFor, NEW s \in Streams, Enqueue(s) \/ FaultDrop(s)
  PROVE  AllAccountedFor'
<1>1. hand[s] # {} /\ hand' = [hand EXCEPT ![s] = {}] /\ taken' = taken
      /\ popped' = popped /\ delivered' = delivered
  BY DEF Enqueue, FaultDrop, workerVars
<1>2. Cardinality(InHand') = Cardinality(InHand) - 1
  <2>1. InHand' = InHand \ {s} /\ s \in InHand
    BY <1>1 DEF InHand, TypeOK
  <2>2. QED
    BY <2>1, CountsAreNumbers, FS_RemoveElement
<1>3. TakenUp' = TakenUp
  BY <1>1 DEF TakenUp
<1>4. Len(queue') + drops' = Len(queue) + drops + 1
  <2>1. CASE FaultDrop(s)
    BY <2>1, CountsAreNumbers DEF FaultDrop
  <2>2. CASE Enqueue(s)
    <3>1. PICK d \in hand[s] : queue' = Offered(d)
      BY <2>2 DEF Enqueue
    <3>2. /\ d \in Detection /\ queue \in Seq(Detection) /\ Len(queue) \in Nat
          /\ MaxQueue \in Nat /\ drops \in Nat
      BY <3>1, PipelineAssumption DEF TypeOK
    <3>3. drops' = IF Len(queue) < MaxQueue THEN drops ELSE drops + 1
      BY <2>2 DEF Enqueue
    <3>4. CASE Len(queue) < MaxQueue
      <4>1. queue' = Append(queue, d) /\ Len(queue') = Len(queue) + 1
        BY <3>1, <3>2, <3>4 DEF Offered
      <4>2. QED
        BY <3>2, <3>3, <3>4, <4>1
    <3>5. CASE ~(Len(queue) < MaxQueue)
      <4>1. Len(queue') = Len(queue)
        <5>1. CASE DropOldest /\ queue # <<>>
          <6>1. Tail(queue) \in Seq(Detection) /\ Len(Tail(queue)) = Len(queue) - 1
            BY <3>2, <5>1
          <6>2. QED
            BY <3>1, <3>2, <3>5, <5>1, <6>1 DEF Offered
        <5>2. CASE ~(DropOldest /\ queue # <<>>)
          BY <3>1, <3>5, <5>2 DEF Offered
        <5>3. QED
          BY <5>1, <5>2
      <4>2. QED
        BY <3>2, <3>3, <3>5, <4>1
    <3>6. QED
      BY <3>4, <3>5
  <2>3. QED
    BY <2>1, <2>2
<1>5. Len(queue') \in Nat /\ drops' \in Nat
  <2>1. CASE FaultDrop(s)
    BY <2>1, CountsAreNumbers DEF FaultDrop
  <2>2. CASE Enqueue(s)
    <3>1. PICK d \in hand[s] : queue' = Offered(d)
      BY <2>2 DEF Enqueue
    <3>2. queue' \in Seq(Detection) /\ drops' \in Nat
      BY <2>2, <3>1, OfferedQueue DEF Enqueue, TypeOK
    <3>3. QED
      BY <3>2
  <2>3. QED
    BY <2>1, <2>2
<1>6. /\ Cardinality(TakenUp) \in Nat /\ Cardinality(InHand) \in Nat
      /\ Len(queue) \in Nat /\ Len(popped) \in Nat /\ Len(delivered) \in Nat /\ drops \in Nat
  BY CountsAreNumbers
<1>7. Cardinality(TakenUp') = Cardinality(TakenUp)
      /\ Len(popped') = Len(popped) /\ Len(delivered') = Len(delivered)
  BY <1>1, <1>3
<1>8. Cardinality(TakenUp) =
        Cardinality(InHand) + Len(queue) + Len(popped) + Len(delivered) + drops
  BY DEF AllAccountedFor
<1>9. Cardinality(TakenUp) =
        (Cardinality(InHand) - 1) + Len(queue') + Len(popped) + Len(delivered) + drops'
  <2> DEFINE t == Cardinality(TakenUp)
             h == Cardinality(InHand)
             q == Len(queue)
             r == Len(popped)
             o == Len(delivered)
             y == Len(queue')
             x == drops
             z == drops'
  <2>1. t = h + q + r + o + x /\ y + z = q + x + 1
    BY <1>4, <1>8
  <2>2. /\ t \in Nat /\ h \in Nat /\ q \in Nat /\ r \in Nat /\ o \in Nat
        /\ x \in Nat /\ y \in Nat /\ z \in Nat
    BY <1>5, <1>6
  <2> HIDE DEF t, h, q, r, o, x, y, z
  <2>3. h + q + r + o + x = (h - 1) + y + r + o + z
    BY <2>1, <2>2
  <2>4. QED
    BY <2>1, <2>3 DEF t, h, q, r, o, x, y, z
<1>10. QED
  BY <1>2, <1>7, <1>9 DEF AllAccountedFor

\* The worker moves one measurement at a time, from the queue to its hand and from
\* there to the subscribers.
LEMMA WorkerIsAccountedFor ==
  ASSUME IngestInv, AllAccountedFor, Worker \/ WakeForNoReason
  PROVE  AllAccountedFor'
<1>1. /\ queue \in Seq(Detection) /\ popped \in Seq(Detection) /\ delivered \in Seq(Detection)
      /\ TypeOK
  BY DEF IngestInv, TypeOK
<1>2. TakenUp' = TakenUp /\ InHand' = InHand /\ drops' = drops
  BY DEF Worker, LoopTest, Take, Leave, StartToWait, FallAsleep, Publish, Count,
         WakeForNoReason, WorkerUnchanged, streamVars, TakenUp, InHand
<1>3. Len(queue') + Len(popped') + Len(delivered') = Len(queue) + Len(popped) + Len(delivered)
  <2>1. CASE Take
    <3>1. popped = <<>> /\ queue # <<>>
      BY <2>1 DEF Take, IngestInv, InHandToPublish
    <3>2. Len(Tail(queue)) = Len(queue) - 1
      BY <1>1, <3>1
    <3>3. Len(popped') = 1 /\ Len(popped) = 0 /\ queue' = Tail(queue) /\ delivered' = delivered
      BY <2>1, <3>1 DEF Take
    <3>4. Len(queue) \in Nat /\ Len(delivered) \in Nat
      BY <1>1
    <3>5. QED
      BY <3>2, <3>3, <3>4
  <2>2. CASE Publish
    <3>1. Len(delivered \o popped) = Len(delivered) + Len(popped)
      BY <1>1
    <3>2. Len(popped') = 0 /\ delivered' = delivered \o popped /\ queue' = queue
      BY <2>2 DEF Publish
    <3>3. QED
      BY <1>1, <3>1, <3>2, CountsAreNumbers
  <2>3. CASE ~(Take \/ Publish)
    BY <2>3 DEF Worker, LoopTest, Leave, StartToWait, FallAsleep, Count, WakeForNoReason
  <2>4. QED
    BY <2>1, <2>2, <2>3
<1>4. Len(queue') \in Nat /\ Len(popped') \in Nat /\ Len(delivered') \in Nat
  BY WorkerStepIsGood DEF IngestInv, TypeOK
<1>5. /\ Cardinality(TakenUp) \in Nat /\ Cardinality(InHand) \in Nat
      /\ Len(queue) \in Nat /\ Len(popped) \in Nat /\ Len(delivered) \in Nat /\ drops \in Nat
  BY <1>1, CountsAreNumbers
<1>6. Cardinality(TakenUp') = Cardinality(TakenUp) /\ Cardinality(InHand') = Cardinality(InHand)
  BY <1>2
<1>7. drops' = drops
  BY <1>2
<1>8. Cardinality(TakenUp) =
        Cardinality(InHand) + Len(queue) + Len(popped) + Len(delivered) + drops
  BY DEF AllAccountedFor
<1>9. Cardinality(TakenUp) =
        Cardinality(InHand) + Len(queue') + Len(popped') + Len(delivered') + drops
  <2> DEFINE t == Cardinality(TakenUp)
             h == Cardinality(InHand)
             q == Len(queue)
             r == Len(popped)
             o == Len(delivered)
             y == Len(queue')
             z == Len(popped')
             w == Len(delivered')
  <2>1. t = h + q + r + o + drops /\ y + z + w = q + r + o
    BY <1>3, <1>8
  <2>2. /\ t \in Nat /\ h \in Nat /\ q \in Nat /\ r \in Nat /\ o \in Nat
        /\ y \in Nat /\ z \in Nat /\ w \in Nat /\ drops \in Nat
    BY <1>4, <1>5
  <2> HIDE DEF t, h, q, r, o, y, z, w
  <2>3. t = h + y + z + w + drops
    BY <2>1, <2>2
  <2>4. QED
    BY <2>3 DEF t, h, q, r, o, y, z, w
<1>10. QED
  BY <1>6, <1>7, <1>9 DEF AllAccountedFor

\* Every detection taken up is on its way, was delivered or is counted as a drop,
\* for any number of streams, any limit and either overflow policy.
THEOREM NothingIsLostUncounted == Spec => []AllAccountedFor
<1>1. Init => AllAccountedFor
  <2> SUFFICES ASSUME Init
               PROVE  AllAccountedFor
    OBVIOUS
  <2>1. TakenUp = {} /\ InHand = {}
    BY PipelineAssumption DEF Init, TakenUp, InHand
  <2>2. Cardinality(TakenUp) = 0 /\ Cardinality(InHand) = 0
    BY <2>1, FS_EmptySet
  <2>3. Len(queue) = 0 /\ Len(popped) = 0 /\ Len(delivered) = 0 /\ drops = 0
    BY DEF Init
  <2>4. QED
    BY <2>2, <2>3 DEF AllAccountedFor
<1>2. IngestInv /\ AllAccountedFor /\ [Next]_vars => AllAccountedFor'
  <2> SUFFICES ASSUME IngestInv, AllAccountedFor, [Next]_vars
               PROVE  AllAccountedFor'
    OBVIOUS
  <2>1. TypeOK
    BY DEF IngestInv
  <2>2. CASE Destroy \/ Destructor \/ UNCHANGED vars
    <3>1. UNCHANGED <<taken, hand, queue, popped, delivered, drops>>
      BY <2>2 DEF Destroy, Destructor, NotifyAll, Join, vars, streamVars, queueVars, workerVars
    <3>2. QED
      BY <3>1 DEF AllAccountedFor, TakenUp, InHand
  <2>3. QED
    BY <2>1, <2>2, CheckIsAccountedFor, LeavingIsAccountedFor, WorkerIsAccountedFor
       DEF Next, Ingest
<1>3. QED
  BY <1>1, <1>2, IngestInvariance, PTL DEF Spec

-----------------------------------------------------------------------------
(***************************************************************************)
(* The refinement.                                                         *)
(***************************************************************************)

\* The detections of two sequences put together, and how many they are.
LEMMA DetectionsOfBoth ==
  \A s, t \in Seq(Detection) :
    ToSet(s \o t) = ToSet(s) \cup ToSet(t) /\ Len(s \o t) = Len(s) + Len(t)
BY ElementsOfBoth, ConcatProperties

\* Dropping the newest of a queue behind what the worker has in hand is to remove
\* the last of the backlog.
LEMMA DropFromBacklog ==
  ASSUME NEW S, NEW p \in Seq(S), NEW q \in Seq(S), NEW d \in S
  PROVE  /\ p \o Append(q, d) = Append(p \o q, d)
         /\ RemoveAt(Append(p \o q, d), Len(p \o q) + 1) = p \o q
<1>1. /\ p \o q \in Seq(S) /\ Len(p \o q) \in Nat
      /\ Append(p \o q, d) \in Seq(S) /\ Len(Append(p \o q, d)) = Len(p \o q) + 1
  OBVIOUS
<1>2. RemoveAt(Append(p \o q, d), Len(p \o q) + 1) = p \o q
  BY <1>1 DEF RemoveAt
<1>3. QED
  BY <1>2

\* Dropping the oldest is to remove one from the middle of it.
LEMMA DropOldestFromBacklog ==
  ASSUME NEW S, NEW p \in Seq(S), NEW q \in Seq(S), NEW d \in S, q # <<>>
  PROVE  p \o Append(Tail(q), d) = RemoveAt(Append(p \o q, d), Len(p) + 1)
<1> DEFINE b == Append(p \o q, d)
<1>1. /\ p \o q \in Seq(S) /\ Len(p \o q) = Len(p) + Len(q)
      /\ b \in Seq(S) /\ Len(b) = Len(p) + Len(q) + 1
      /\ \A i \in 1..Len(p) : b[i] = p[i]
      /\ \A i \in 1..Len(q) : b[Len(p) + i] = q[i]
      /\ b[Len(p) + Len(q) + 1] = d
      /\ Len(p) \in Nat /\ Len(q) \in Nat
  OBVIOUS
<1> HIDE DEF b
<1>2. SubSeq(b, 1, Len(p)) = p
  <2>1. \A i \in 1..Len(p) : b[i] \in S
    BY <1>1
  <2>2. SubSeq(b, 1, Len(p)) \in Seq(S) /\ Len(SubSeq(b, 1, Len(p))) = Len(p)
        /\ \A i \in 1..Len(p) : SubSeq(b, 1, Len(p))[i] = p[i]
    BY <1>1, <2>1
  <2>3. QED
    BY <2>2, SeqEqual
<1> DEFINE behind == SubSeq(b, Len(p) + 2, Len(b))
<1>3. behind \in Seq(S) /\ Len(behind) = Len(q)
      /\ \A i \in 1..Len(q) : behind[i] = b[Len(p) + 1 + i]
  <2>1. Len(p) + 2 \in Int /\ Len(b) \in Int /\ Len(q) >= 1
    BY <1>1
  <2>2. \A i \in Len(p) + 2..Len(b) : b[i] \in S
    BY <1>1
  <2>3. /\ behind \in Seq(S)
        /\ Len(behind) = IF Len(p) + 2 <= Len(b) THEN Len(b) - (Len(p) + 2) + 1 ELSE 0
        /\ \A i \in 1..Len(b) - (Len(p) + 2) + 1 : behind[i] = b[Len(p) + 2 + i - 1]
    BY <1>1, <2>1, <2>2
  <2>4. QED
    BY <1>1, <2>1, <2>3
<1>4. /\ Append(Tail(q), d) \in Seq(S) /\ Len(Append(Tail(q), d)) = Len(q)
      /\ \A i \in 1..Len(q) :
           Append(Tail(q), d)[i] = IF i < Len(q) THEN q[i + 1] ELSE d
  OBVIOUS
<1>5. \A i \in 1..Len(q) : b[Len(p) + 1 + i] = IF i < Len(q) THEN q[i + 1] ELSE d
  <2> SUFFICES ASSUME NEW i \in 1..Len(q)
               PROVE  b[Len(p) + 1 + i] = IF i < Len(q) THEN q[i + 1] ELSE d
    OBVIOUS
  <2>1. CASE i < Len(q)
    <3>1. i + 1 \in 1..Len(q) /\ Len(p) + 1 + i = Len(p) + (i + 1)
      BY <1>1, <2>1
    <3>2. QED
      BY <1>1, <2>1, <3>1
  <2>2. CASE i = Len(q)
    BY <1>1, <2>2
  <2>3. QED
    BY <1>1, <2>1, <2>2
<1> HIDE DEF behind
<1>6. behind = Append(Tail(q), d)
  <2>1. Len(behind) = Len(Append(Tail(q), d))
    BY <1>3, <1>4
  <2>2. \A i \in 1..Len(behind) : behind[i] = Append(Tail(q), d)[i]
    BY <1>3, <1>4, <1>5
  <2> DEFINE shifted == Append(Tail(q), d)
  <2>3. shifted \in Seq(S)
    BY <1>4
  <2> HIDE DEF shifted
  <2>4. Len(behind) = Len(shifted) /\ \A i \in 1..Len(behind) : behind[i] = shifted[i]
    BY <2>1, <2>2 DEF shifted
  <2>5. behind = shifted
    BY <1>3, <2>3, <2>4, SeqEqual
  <2>6. QED
    BY <2>5 DEF shifted
<1>7. (Len(p) + 1) - 1 = Len(p) /\ (Len(p) + 1) + 1 = Len(p) + 2
  BY <1>1
<1>8. QED
  BY <1>2, <1>6, <1>7 DEF RemoveAt, behind, b

\* A sequence of at most one element that is not empty.
LEMMA OneElement ==
  ASSUME NEW S, NEW one \in Seq(S), one # <<>>, Len(one) <= 1
  PROVE  \E d \in S : one = <<d>>
<1>1. Len(one) \in Nat \ {0}
  BY EmptySeq
<1>2. Len(one) = 1
  <2>1. ASSUME NEW n \in Nat \ {0}, n <= 1
        PROVE  n = 1
    BY <2>1
  <2>2. QED
    BY <1>1, <2>1, Zenon
<1>3. one[1] \in S /\ one = <<one[1]>>
  BY <1>2
<1>4. QED
  BY <1>3

\* What a stream offers while there is room, or a full queue refuses, or takes at
\* the cost of its oldest.
LEMMA OfferIsAnOffer ==
  ASSUME IngestInv, NEW s \in Streams, Enqueue(s)
  PROVE  Channel!FifoNext
<1> PICK d \in hand[s] : queue' = Offered(d)
  BY DEF Enqueue
<1>1. d \in Detection
  BY DEF IngestInv, TypeOK
<1>2. /\ popped \in Seq(Detection) /\ queue \in Seq(Detection)
      /\ Len(queue) <= MaxQueue /\ MaxQueue \in Nat
      /\ Len(popped \o queue) = Len(popped) + Len(queue)
      /\ Len(popped) \in Nat /\ Len(queue) \in Nat
  BY PipelineAssumption DEF IngestInv, TypeOK
<1>3. popped' = popped /\ delivered' = delivered /\ faulty' = faulty
  BY DEF Enqueue, ownerVars
<1>4. CASE Len(queue) < MaxQueue
  <2>1. queue' = Append(queue, d) /\ drops' = drops
    BY <1>4 DEF Enqueue, Offered
  <2>2. popped' \o queue' = Append(popped \o queue, d)
    <3>1. popped \o Append(queue, d) = Append(popped \o queue, d)
      BY <1>1, <1>2, DropFromBacklog
    <3>2. QED
      BY <1>3, <2>1, <3>1, Zenon
  <2>3. Channel!Offer(d)
    BY <1>3, <2>1, <2>2 DEF Channel!Offer
  <2>4. QED
    BY <1>1, <2>3 DEF Channel!FifoNext
<1>5. CASE ~(Len(queue) < MaxQueue)
  <2>1. drops' = drops + 1
    BY <1>5 DEF Enqueue
  <2>2. Channel!MayLose
    BY <1>2, <1>5 DEF Channel!MayLose
  <2>3. ASSUME NEW k \in 1..Len(popped \o queue) + 1,
               popped' \o queue' = RemoveAt(Append(popped \o queue, d), k)
        PROVE  Channel!OfferAndLose(d)
    BY <1>3, <2>1, <2>2, <2>3 DEF Channel!OfferAndLose, Channel!RemoveAt, RemoveAt
  <2>4. CASE DropOldest /\ queue # <<>>
    <3>1. queue' = Append(Tail(queue), d)
      BY <1>5, <2>4 DEF Offered
    <3>2. RemoveAt(Append(popped \o queue, d), Len(popped) + 1) = popped \o Append(Tail(queue), d)
      BY <1>1, <1>2, <2>4, DropOldestFromBacklog
    <3>5. popped' \o queue' = RemoveAt(Append(popped \o queue, d), Len(popped) + 1)
      BY <1>3, <3>1, <3>2
    <3>3. Len(popped) + 1 \in 1..Len(popped \o queue) + 1
      BY <1>2
    <3>4. QED
      BY <1>1, <2>3, <3>3, <3>5 DEF Channel!FifoNext
  <2>5. CASE ~(DropOldest /\ queue # <<>>)
    <3>1. queue' = queue
      BY <1>5, <2>5 DEF Offered
    <3>2. RemoveAt(Append(popped \o queue, d), Len(popped \o queue) + 1) = popped \o queue
      BY <1>1, <1>2, DropFromBacklog
    <3>5. popped' \o queue' = RemoveAt(Append(popped \o queue, d), Len(popped \o queue) + 1)
      BY <1>3, <3>1, <3>2
    <3>3. Len(popped \o queue) + 1 \in 1..Len(popped \o queue) + 1
      BY <1>2
    <3>4. QED
      BY <1>1, <2>3, <3>3, <3>5 DEF Channel!FifoNext
  <2>6. QED
    BY <2>4, <2>5
<1>6. QED
  BY <1>4, <1>5

\* A detection an injected fault drops was offered and lost at once.
LEMMA FaultIsALoss ==
  ASSUME IngestInv, NEW s \in Streams, FaultDrop(s)
  PROVE  Channel!FifoNext
<1> PICK d : d \in hand[s]
  BY DEF FaultDrop
<1>1. d \in Detection
  BY DEF IngestInv, TypeOK
<1>2. popped \in Seq(Detection) /\ queue \in Seq(Detection) /\ Len(popped \o queue) \in Nat
  BY DEF IngestInv, TypeOK
<1>3. UNCHANGED <<popped, queue, delivered, faulty>> /\ drops' = drops + 1 /\ faulty
  BY DEF FaultDrop, workerVars, ownerVars
<1>4. popped \o queue = RemoveAt(Append(popped \o queue, d), Len(popped \o queue) + 1)
  BY <1>1, <1>2, DropFromBacklog
<1>5. Len(popped \o queue) + 1 \in 1..Len(popped \o queue) + 1
  BY <1>2
<1>6. Channel!OfferAndLose(d)
  BY <1>3, <1>4, <1>5
     DEF Channel!OfferAndLose, Channel!MayLose, Channel!RemoveAt, RemoveAt
<1>7. QED
  BY <1>1, <1>6 DEF Channel!FifoNext

\* What the worker publishes is what has waited longest.
LEMMA PublishIsADelivery ==
  ASSUME IngestInv, Publish
  PROVE  Channel!FifoNext
<1>1. /\ popped \in Seq(Detection) /\ Len(popped) <= 1 /\ popped # <<>>
      /\ queue \in Seq(Detection) /\ delivered \in Seq(Detection)
  BY DEF IngestInv, TypeOK, InHandToPublish, Publish
<1>3. PICK d \in Detection : popped = <<d>>
  BY <1>1, OneElement
<1>4. popped \o queue # <<>> /\ Head(popped \o queue) = d /\ Tail(popped \o queue) = queue
  BY <1>1, <1>3
<1>5. delivered' = Append(delivered, d) /\ popped' \o queue' = queue
  BY <1>1, <1>3 DEF Publish
<1>6. UNCHANGED <<drops, faulty>>
  BY DEF Publish, WorkerUnchanged, ownerVars
<1>7. Channel!Deliver
  BY <1>4, <1>5, <1>6 DEF Channel!Deliver
<1>8. QED
  BY <1>7 DEF Channel!FifoNext

\* To take a measurement out of the queue leaves it in the backlog.
LEMMA TakeIsSilent ==
  ASSUME IngestInv, Take
  PROVE  UNCHANGED Channel!channel
<1>1. popped = <<>> /\ queue \in Seq(Detection) /\ queue # <<>>
  BY DEF IngestInv, TypeOK, InHandToPublish, Take
<1>2. popped' \o queue' = popped \o queue
  BY <1>1 DEF Take
<1>3. QED
  BY <1>2 DEF Take, WorkerUnchanged, ownerVars, Channel!channel

\* The subscribers are given what was offered, in that order and at most once,
\* and without injected faults nothing is lost below the limit.
THEOREM PipelineIsFifo == Spec => ImplementsFifo
<1>1. Init => Channel!FifoInit
  BY PipelineAssumption DEF Init, Channel!FifoInit
<1>2. IngestInv /\ [Next]_vars => [Channel!FifoNext]_(Channel!channel)
  <2> SUFFICES ASSUME IngestInv, [Next]_vars
               PROVE  Channel!FifoNext \/ UNCHANGED Channel!channel
    OBVIOUS
  <2>1. ASSUME NEW s \in Streams, Check(s)
        PROVE  UNCHANGED Channel!channel
    BY <2>1 DEF Check, queueVars, workerVars, ownerVars, Channel!channel
  <2>2. ASSUME LoopTest \/ Leave \/ StartToWait \/ FallAsleep \/ Count \/ WakeForNoReason
        PROVE  UNCHANGED Channel!channel
    BY <2>2 DEF LoopTest, Leave, StartToWait, FallAsleep, Count, WakeForNoReason,
                WorkerUnchanged, ownerVars, Channel!channel
  <2>3. ASSUME Destroy \/ Destructor
        PROVE  UNCHANGED Channel!channel
    BY <2>3 DEF Destroy, Destructor, NotifyAll, Join, queueVars, workerVars, Channel!channel
  <2>4. CASE UNCHANGED vars
    BY <2>4 DEF vars, queueVars, workerVars, ownerVars, Channel!channel
  <2>5. QED
    BY <2>1, <2>2, <2>3, <2>4, OfferIsAnOffer, FaultIsALoss, PublishIsADelivery, TakeIsSilent
       DEF Next, Ingest, Worker
<1>3. QED
  BY <1>1, <1>2, IngestInvariance, PTL DEF Spec, ImplementsFifo, Channel!FifoSpec

-----------------------------------------------------------------------------
(***************************************************************************)
(* The pipeline inside run_cluster_demo.                                   *)
(***************************************************************************)

\* The subscriber and the main loop do to the pipeline nothing but what its own
\* threads and owner do: every behaviour of the demo is one of the pipeline.
THEOREM DemoRunsThePipeline == DemoSpec => Spec
<1>1. DemoInit => Init
  BY DEF DemoInit
<1>2. [DemoNext]_allVars => [Next]_vars
  <2> SUFFICES ASSUME [DemoNext]_allVars
               PROVE  Next \/ UNCHANGED vars
    OBVIOUS
  <2>1. CASE DemoWorker
    BY <2>1 DEF DemoWorker, PublishToSubscribers, Callback, CountWhenCalled, WorkerElsewhere,
                Next, Worker
  <2>2. CASE Subscribe \/ Tick
    BY <2>2 DEF Subscribe, Tick
  <2>3. CASE Return
    BY <2>3 DEF Return, Next
  <2>4. CASE Unheeded
    BY <2>4 DEF Unheeded, Next
  <2>5. CASE UNCHANGED allVars
    BY <2>5 DEF allVars
  <2>6. QED
    BY <2>1, <2>2, <2>3, <2>4, <2>5 DEF DemoNext
<1>3. QED
  BY <1>1, <1>2, PTL DEF DemoSpec, Spec

\* So what the subscriber of the demo is given is what a FIFO gives, nothing is
\* lost uncounted, and the worker it waits for does not sleep on a measurement.
THEOREM DemoIsServed ==
  DemoSpec => ImplementsFifo /\ []SleepsOnlyWhenEmpty /\ []AllAccountedFor
BY DemoRunsThePipeline, PipelineIsFifo, NoWakeUpIsLost, NothingIsLostUncounted, PTL

-----------------------------------------------------------------------------
(***************************************************************************)
(* What the tracker is fed.                                                *)
(***************************************************************************)

\* One stream's detections in the order they were taken up.
Rising ==
  {p \in Detection \X Detection : p[1].stream = p[2].stream => p[1].n < p[2].n}

\* One stream's detections in that order, but for those sent earlier.
Unpassed ==
  {p \in Detection \X Detection :
     p[1].stream = p[2].stream /\ p[2].n < p[1].n => p[1].sent < p[2].sent}

SentInOrder == {p \in Detection \X Detection : p[1].sent <= p[2].sent}

Different == {p \in Detection \X Detection : p[1] # p[2]}

\* From the first look at its sequence number to the tracker's callback a stream
\* keeps its order, and what it has in hand is newer than all of it.
Line == delivered \o (popped \o queue)

StreamsKeepOrder ==
  /\ InOrder(Rising, Line)
  /\ \A x \in ToSet(Line) : x.n <= taken[x.stream]
  /\ \A s \in Streams : \A d \in hand[s] :
       /\ d.stream = s /\ d.n <= taken[s]
       /\ \A x \in ToSet(Line) : x.stream = s => x.n < d.n

DemoTypeOK ==
  /\ main \in {"serving", "ticking", "left"}
  /\ calling \in Seq(Detection) /\ Len(calling) <= 1
  /\ incoming \in Seq(Detection)
  /\ buffer \in Seq(Detection)
  /\ fused \in Seq(Detection)
  /\ now \in Nat
  /\ unheard \in Nat

\* The worker runs a callback between publishing and counting.
CallsBack == calling # <<>> => worker = "count"

\* What the main thread has not swapped out yet is in each stream's order, and
\* newer than all it has.
Arrived == fused \o buffer
Arriving == incoming \o calling
ArrivesInOrder ==
  /\ InOrder(Rising, Arriving)
  /\ ToSet(Arrived) \X ToSet(Arriving) \subseteq Rising

BufferIsSorted == InOrder(SentInOrder, buffer) /\ InOrder(Unpassed, buffer)

DemoInv ==
  /\ DemoTypeOK
  /\ CallsBack
  /\ ArrivesInOrder
  /\ BufferIsSorted
  /\ EachFedOnce
  /\ FedWhenDue
  /\ FedInOrder

\* A detection's fields.
LEMMA DetectionFields ==
  \A d \in Detection : d.stream \in Streams /\ d.n \in 1..Load /\ d.sent \in Nat
BY PipelineAssumption DEF Detection

\* A sequence is injective if what comes earlier differs from what comes later.
LEMMA InjectiveIsDifferent ==
  ASSUME NEW s \in Seq(Detection)
  PROVE  IsInjective(s) <=> InOrder(Different, s)
<1>1. DOMAIN s \subseteq Nat /\ \A k \in DOMAIN s : s[k] \in Detection
  OBVIOUS
<1>2. ASSUME IsInjective(s)
      PROVE  InOrder(Different, s)
  BY <1>1, <1>2 DEF IsInjective, InOrder, Different
<1>3. ASSUME InOrder(Different, s), NEW j \in DOMAIN s, NEW k \in DOMAIN s, s[j] = s[k]
      PROVE  j = k
  <2>1. CASE j < k
    BY <1>3, <2>1 DEF InOrder, Different
  <2>2. CASE k < j
    BY <1>3, <2>2 DEF InOrder, Different
  <2>3. j \in Nat /\ k \in Nat
    BY <1>1
  <2>4. QED
    BY <2>1, <2>2, <2>3
<1>4. QED
  BY <1>2, <1>3 DEF IsInjective

\* Two injective sequences without a common element.
LEMMA InjectiveTogether ==
  ASSUME NEW s \in Seq(Detection), NEW t \in Seq(Detection)
  PROVE  IsInjective(s \o t) <=>
           IsInjective(s) /\ IsInjective(t) /\ ToSet(s) \cap ToSet(t) = {}
<1>1. s \o t \in Seq(Detection)
  OBVIOUS
<1>2. ToSet(s) \subseteq Detection /\ ToSet(t) \subseteq Detection
  BY DEF ToSet
<1>3. ToSet(s) \X ToSet(t) \subseteq Different <=> ToSet(s) \cap ToSet(t) = {}
  <2>1. \A x \in ToSet(s), y \in ToSet(t) : <<x, y>> \in Different <=> x # y
    BY <1>2 DEF Different
  <2>2. ASSUME ToSet(s) \X ToSet(t) \subseteq Different, NEW z \in ToSet(s) \cap ToSet(t)
        PROVE  FALSE
    <3>1. <<z, z>> \in ToSet(s) \X ToSet(t)
      OBVIOUS
    <3>2. QED
      BY <2>1, <2>2, <3>1
  <2>3. ASSUME ToSet(s) \cap ToSet(t) = {}, NEW x \in ToSet(s), NEW y \in ToSet(t)
        PROVE  <<x, y>> \in Different
    BY <2>1, <2>3
  <2>4. QED
    BY <2>2, <2>3
<1>4. QED
  BY <1>1, <1>3, InjectiveIsDifferent, OrderOfBoth

\* What is in front of a buffer for a time is due then, the next is not.
LEMMA DueIsAFront ==
  ASSUME NEW b \in Seq(Detection), NEW time \in Nat
  PROVE  LET c == Cardinality(Due(b, time))
         IN  /\ c \in 0..Len(b)
             /\ \A k \in 1..c : b[k].sent <= time
             /\ c < Len(b) => b[c + 1].sent > time
<1> DEFINE late == {k \in Nat : k \in 1..Len(b) /\ b[k].sent > time}
<1>1. Len(b) \in Nat /\ DOMAIN b = 1..Len(b) /\ \A k \in 1..Len(b) : b[k].sent \in Nat
  BY DetectionFields
<1>2. \E c \in 0..Len(b) : /\ \A k \in 1..c : b[k].sent <= time
                           /\ c < Len(b) => b[c + 1].sent > time
  <2>1. CASE late = {}
    <3>1. \A k \in 1..Len(b) : b[k].sent <= time
      BY <1>1, <2>1
    <3>2. Len(b) \in 0..Len(b)
      BY <1>1
    <3>3. QED
      BY <1>1, <3>1, <3>2
  <2>2. CASE late # {}
    <3>1. PICK m \in late : \A k \in late : m <= k
      BY <2>2, LeastNumber
    <3>2. m - 1 \in 0..Len(b) /\ (m - 1) + 1 = m
      BY <1>1, <3>1
    <3>3. \A k \in 1..m - 1 : b[k].sent <= time
      BY <1>1, <3>1
    <3>4. QED
      BY <3>1, <3>2, <3>3
  <2>3. QED
    BY <2>1, <2>2
<1>3. PICK c \in 0..Len(b) : /\ \A k \in 1..c : b[k].sent <= time
                             /\ c < Len(b) => b[c + 1].sent > time
  BY <1>2
<1>4. Due(b, time) = 1..c
  <2>1. ASSUME NEW k \in 1..c
        PROVE  k \in Due(b, time)
    BY <1>1, <1>3 DEF Due
  <2>2. ASSUME NEW k \in Due(b, time), k \notin 1..c
        PROVE  FALSE
    <3>1. k \in 1..Len(b) /\ c < Len(b) /\ c + 1 \in 1..k
      BY <1>1, <2>2 DEF Due
    <3>2. b[c + 1].sent <= time /\ b[c + 1].sent > time /\ b[c + 1].sent \in Nat
      BY <1>1, <1>3, <3>1 DEF Due
    <3>3. QED
      BY <3>2
  <2>3. QED
    BY <2>1, <2>2
<1>5. Cardinality(Due(b, time)) = c
  <2>1. Cardinality(1..c) = c
    BY <1>1, FS_Interval
  <2>2. QED
    BY <1>4, <2>1
<1>6. QED
  BY <1>3, <1>5

\* A sorted buffer is split at a time into what was sent until then and what was
\* sent later.
LEMMA SplitByTime ==
  ASSUME NEW b \in Seq(Detection), InOrder(SentInOrder, b), NEW time \in Nat
  PROVE  LET c == Cardinality(Due(b, time))
             f == SubSeq(b, 1, c)
             g == SubSeq(b, c + 1, Len(b))
         IN  /\ f \in Seq(Detection) /\ g \in Seq(Detection) /\ f \o g = b
             /\ \A x \in ToSet(f) : x.sent <= time
             /\ \A x \in ToSet(g) : x.sent > time
<1> DEFINE c == Cardinality(Due(b, time))
           f == SubSeq(b, 1, c)
           g == SubSeq(b, c + 1, Len(b))
<1>1. /\ c \in 0..Len(b) /\ Len(b) \in Nat
      /\ \A k \in 1..c : b[k].sent <= time
      /\ c < Len(b) => b[c + 1].sent > time
  BY DueIsAFront
<1> HIDE DEF c
<1>2. /\ f \in Seq(Detection) /\ Len(f) = c /\ \A k \in 1..c : f[k] = b[k]
      /\ g \in Seq(Detection) /\ Len(g) = Len(b) - c
      /\ \A k \in 1..Len(b) - c : g[k] = b[c + k]
      /\ f \o g = b
  BY <1>1, CutInTwo
<1>3. DOMAIN f = 1..c /\ DOMAIN g = 1..Len(b) - c /\ DOMAIN b = 1..Len(b)
  BY <1>2, SMTT(30)
<1> HIDE DEF f, g
<1>4. \A x \in ToSet(f) : x.sent <= time
  BY <1>1, <1>2, <1>3 DEF ToSet
<1>5. ASSUME NEW x \in ToSet(g)
      PROVE  x.sent > time
  <2> PICK k \in DOMAIN g : x = g[k]
    BY <1>5 DEF ToSet
  <2>1. k \in 1..Len(b) - c /\ x = b[c + k]
    BY <1>2, <1>3
  <2>2. c < Len(b) /\ c + 1 \in 1..Len(b) /\ c + k \in 1..Len(b)
    BY <1>1, <2>1
  <2>3. b[c + 1].sent > time
    BY <1>1, <2>2
  <2>4. b[c + 1].sent <= b[c + k].sent
    <3>1. CASE k = 1
      <4>1. b[c + 1].sent \in Nat
        BY <2>2, DetectionFields
      <4>2. QED
        BY <3>1, <4>1
    <3>2. CASE k # 1
      <4>1. c + 1 < c + k
        BY <1>1, <2>1, <3>2
      <4>2. <<b[c + 1], b[c + k]>> \in SentInOrder
        BY <1>3, <2>2, <4>1 DEF InOrder
      <4>3. QED
        BY <4>2 DEF SentInOrder
    <3>3. QED
      BY <3>1, <3>2
  <2>5. b[c + 1].sent \in Nat /\ b[c + k].sent \in Nat
    BY <2>2, DetectionFields
  <2>6. QED
    BY <2>1, <2>3, <2>4, <2>5
<1>6. QED
  BY <1>2, <1>4, <1>5 DEF c, f, g

\* One measurement more: a sorted buffer stays sorted, and a stream keeps its order
\* in it, whatever the time it was sent at.
LEMMA PushKeepsOrder ==
  ASSUME NEW b \in Seq(Detection), NEW m \in Detection,
         InOrder(SentInOrder, b), InOrder(Unpassed, b), IsInjective(b),
         ToSet(b) \X {m} \subseteq Rising
  PROVE  /\ Pushed(b, m) \in Seq(Detection)
         /\ Len(Pushed(b, m)) = Len(b) + 1
         /\ ToSet(Pushed(b, m)) = ToSet(b) \cup {m}
         /\ InOrder(SentInOrder, Pushed(b, m))
         /\ InOrder(Unpassed, Pushed(b, m))
         /\ IsInjective(Pushed(b, m))
<1> DEFINE c == Cardinality(Due(b, m.sent))
           f == SubSeq(b, 1, c)
           g == SubSeq(b, c + 1, Len(b))
           e == <<m>>
<1>1. m.sent \in Nat
  BY DetectionFields
<1>2. /\ f \in Seq(Detection) /\ g \in Seq(Detection) /\ f \o g = b
      /\ \A x \in ToSet(f) : x.sent <= m.sent
      /\ \A x \in ToSet(g) : x.sent > m.sent
  BY <1>1, SplitByTime
<1>3. Pushed(b, m) = f \o e \o g
  <2>1. c \in 0..Len(b)
    BY <1>1, DueIsAFront
  <2>2. (c + 1) - 1 = c
    BY <2>1
  <2>3. QED
    BY <2>2 DEF Pushed, InsertAt
<1>4. e \in Seq(Detection) /\ ToSet(e) = {m} /\ \A R : InOrder(R, e)
  BY ShortSequences
<1>5. Len(e) = 1
  OBVIOUS
<1> HIDE DEF c, f, g, e
<1>6. f \o e \in Seq(Detection) /\ Len(f \o e \o g) = Len(f) + 1 + Len(g)
      /\ f \o e \o g \in Seq(Detection) /\ Len(f \o g) = Len(f) + Len(g)
      /\ Len(f) \in Nat /\ Len(g) \in Nat
  <2>1. f \o e \in Seq(Detection) /\ Len(f \o e) = Len(f) + Len(e)
    BY <1>2, <1>4, ConcatProperties
  <2>2. (f \o e) \o g \in Seq(Detection) /\ Len((f \o e) \o g) = Len(f \o e) + Len(g)
    BY <1>2, <2>1, ConcatProperties
  <2>3. Len(f \o g) = Len(f) + Len(g) /\ Len(f) \in Nat /\ Len(g) \in Nat
    BY <1>2, ConcatProperties, LenProperties
  <2>4. QED
    BY <1>5, <2>1, <2>2, <2>3
<1>7. ToSet(f \o e) = ToSet(f) \cup {m} /\ ToSet(b) = ToSet(f) \cup ToSet(g)
      /\ ToSet(f \o e \o g) = ToSet(f) \cup {m} \cup ToSet(g)
  <2>1. ToSet(f \o e) = ToSet(f) \cup {m}
    BY <1>2, <1>4, ElementsOfBoth
  <2>2. ToSet(b) = ToSet(f) \cup ToSet(g)
    BY <1>2, ElementsOfBoth, ZenonT(30)
  <2>3. ASSUME NEW s \in Seq(Detection), NEW r \in Seq(Detection)
        PROVE  ToSet(s \o r) = ToSet(s) \cup ToSet(r)
    BY ElementsOfBoth
  <2>4. f \o e \in Seq(Detection) /\ g \in Seq(Detection)
    BY <1>2, <1>6
  <2>5. ToSet((f \o e) \o g) = ToSet(f \o e) \cup ToSet(g)
    BY <2>3, <2>4
  <2>6. QED
    BY <2>1, <2>2, <2>5
<1>8. ToSet(b) \subseteq Detection
  BY DEF ToSet
<1>9. ASSUME NEW R, InOrder(R, b), ToSet(f) \X {m} \subseteq R, {m} \X ToSet(g) \subseteq R
      PROVE  InOrder(R, f \o e \o g)
  <2>1. InOrder(R, f) /\ InOrder(R, g) /\ ToSet(f) \X ToSet(g) \subseteq R
    BY <1>2, <1>9, OrderOfBoth
  <2>2. InOrder(R, f \o e)
    BY <1>2, <1>4, <1>9, <2>1, OrderOfBoth
  <2>3. ToSet(f \o e) \X ToSet(g) \subseteq R
    BY <1>7, <1>9, <2>1
  <2>4. QED
    BY <1>2, <1>6, <2>1, <2>2, <2>3, OrderOfBoth
<1>10. InOrder(SentInOrder, f \o e \o g)
  <2>1. ASSUME NEW x \in ToSet(f) PROVE <<x, m>> \in SentInOrder
    BY <1>2, <1>7, <1>8, <2>1 DEF SentInOrder
  <2>2. ASSUME NEW x \in ToSet(g) PROVE <<m, x>> \in SentInOrder
    <3>1. x \in Detection /\ x.sent > m.sent /\ x.sent \in Nat
      BY <1>2, <1>7, <1>8, <2>2, DetectionFields
    <3>2. QED
      BY <1>1, <3>1 DEF SentInOrder
  <2>3. QED
    BY <1>9, <2>1, <2>2
<1>11. InOrder(Unpassed, f \o e \o g)
  <2>1. ASSUME NEW x \in ToSet(f) PROVE <<x, m>> \in Unpassed
    <3>1. <<x, m>> \in Rising /\ x \in Detection
      BY <1>7, <1>8, <2>1
    <3>2. x.stream = m.stream => x.n < m.n /\ x.n \in Int /\ m.n \in Int
      BY <3>1, DetectionFields DEF Rising
    <3>3. QED
      BY <3>1, <3>2 DEF Unpassed
  <2>2. ASSUME NEW x \in ToSet(g) PROVE <<m, x>> \in Unpassed
    <3>1. x \in Detection /\ x.sent > m.sent /\ x.sent \in Nat
      BY <1>2, <1>7, <1>8, <2>2, DetectionFields
    <3>2. QED
      BY <1>1, <3>1 DEF Unpassed
  <2>3. QED
    BY <1>9, <2>1, <2>2
<1>12. IsInjective(f \o e \o g)
  <2>1. ASSUME NEW x \in ToSet(b) PROVE x # m
    <3>1. <<x, m>> \in Rising /\ x \in Detection
      BY <1>8, <2>1
    <3>2. QED
      BY <3>1, DetectionFields DEF Rising
  <2>2. InOrder(Different, b)
    BY InjectiveIsDifferent
  <2>3. ASSUME NEW x \in ToSet(f) PROVE <<x, m>> \in Different
    BY <1>7, <1>8, <2>1, <2>3 DEF Different
  <2>4. ASSUME NEW x \in ToSet(g) PROVE <<m, x>> \in Different
    BY <1>7, <1>8, <2>1, <2>4 DEF Different
  <2>5. InOrder(Different, f \o e \o g)
    BY <1>9, <2>2, <2>3, <2>4
  <2>6. QED
    BY <1>6, <2>5, InjectiveIsDifferent
<1>13. Len(f \o e \o g) = Len(b) + 1
  BY <1>2, <1>6
<1>14. ToSet(f \o e \o g) = ToSet(b) \cup {m}
  BY <1>7
<1>15. QED
  BY <1>3, <1>6, <1>10, <1>11, <1>12, <1>13, <1>14

\* The measurements are pushed one after the other: there is such a function.
LEMMA PushedInTurn ==
  ASSUME NEW b, NEW new, Len(new) \in Nat
  PROVE  \E After : /\ After = [k \in 0..Len(new) |->
                                  IF k = 0 THEN b ELSE Pushed(After[k - 1], new[k])]
                    /\ AllPushed(b, new) = After[Len(new)]
<1> DEFINE IsAfter(F, n) ==
             F = [k \in 0..n |-> IF k = 0 THEN b ELSE Pushed(F[k - 1], new[k])]
           T == {n \in Nat : \E F : IsAfter(F, n)}
<1>1. 0 \in T
  <2>1. IsAfter([k \in 0..0 |-> b], 0)
    OBVIOUS
  <2>2. QED
    BY <2>1
<1>2. ASSUME NEW n \in T
      PROVE  n + 1 \in T
  <2>1. PICK F : IsAfter(F, n)
    OBVIOUS
  <2> DEFINE G == [k \in 0..n + 1 |-> IF k = n + 1 THEN Pushed(F[n], new[n + 1]) ELSE F[k]]
  <2>2. ASSUME NEW k \in 0..n + 1
        PROVE  G[k] = IF k = 0 THEN b ELSE Pushed(G[k - 1], new[k])
    <3>1. CASE k = n + 1
      BY <3>1
    <3>2. CASE k # n + 1
      BY <2>1, <3>2
    <3>3. QED
      BY <3>1, <3>2
  <2>3. IsAfter(G, n + 1)
    BY <2>2
  <2> HIDE DEF G
  <2>4. \E H : IsAfter(H, n + 1)
    BY <2>3
  <2>5. n + 1 \in Nat
    OBVIOUS
  <2> HIDE DEF IsAfter
  <2>6. QED
    BY <2>4, <2>5
<1>3. T = Nat
  <2>1. T \subseteq Nat
    OBVIOUS
  <2> HIDE DEF T
  <2>2. QED
    BY <1>1, <1>2, <2>1, NumbersByInduction
<1>4. \E F : IsAfter(F, Len(new))
  BY <1>3
<1> DEFINE A == CHOOSE F : IsAfter(F, Len(new))
<1>5. IsAfter(A, Len(new))
  BY <1>4
<1>6. AllPushed(b, new) = A[Len(new)]
  BY DEF AllPushed
<1>7. QED
  BY <1>5, <1>6

\* All that was swapped out, if it is in each stream's order and newer than what
\* the buffer holds.
LEMMA AllPushedKeepsOrder ==
  ASSUME NEW b \in Seq(Detection), NEW new \in Seq(Detection),
         InOrder(SentInOrder, b), InOrder(Unpassed, b), IsInjective(b),
         InOrder(Rising, new), ToSet(b) \X ToSet(new) \subseteq Rising
  PROVE  /\ AllPushed(b, new) \in Seq(Detection)
         /\ Len(AllPushed(b, new)) = Len(b) + Len(new)
         /\ ToSet(AllPushed(b, new)) = ToSet(b) \cup ToSet(new)
         /\ InOrder(SentInOrder, AllPushed(b, new))
         /\ InOrder(Unpassed, AllPushed(b, new))
         /\ IsInjective(AllPushed(b, new))
<1>1. Len(new) \in Nat /\ DOMAIN new = 1..Len(new) /\ Len(b) \in Nat
      /\ \A k \in 1..Len(new) : new[k] \in Detection
  OBVIOUS
<1> PICK After : /\ After = [k \in 0..Len(new) |->
                               IF k = 0 THEN b ELSE Pushed(After[k - 1], new[k])]
                 /\ AllPushed(b, new) = After[Len(new)]
  BY <1>1, PushedInTurn
<1>2. After[0] = b /\ \A k \in 1..Len(new) : After[k] = Pushed(After[k - 1], new[k])
  <2>1. \A k \in 0..Len(new) : After[k] = IF k = 0 THEN b ELSE Pushed(After[k - 1], new[k])
    OBVIOUS
  <2>2. 0 \in 0..Len(new) /\ \A k \in 1..Len(new) : k \in 0..Len(new) /\ k # 0
    BY <1>1
  <2>3. QED
    BY <2>1, <2>2
<1> DEFINE Good(k) == /\ After[k] \in Seq(Detection)
                      /\ Len(After[k]) = Len(b) + k
                      /\ ToSet(After[k]) = ToSet(b) \cup {new[j] : j \in 1..k}
                      /\ InOrder(SentInOrder, After[k])
                      /\ InOrder(Unpassed, After[k])
                      /\ IsInjective(After[k])
           T == {k \in Nat : k <= Len(new) => Good(k)}
<1>3. 0 \in T
  <2>1. {new[j] : j \in 1..0} = {}
    OBVIOUS
  <2>2. Good(0)
    BY <1>1, <1>2, <2>1
  <2>3. QED
    BY <2>2
<1>4. ASSUME NEW k \in Nat, k + 1 <= Len(new), Good(k)
      PROVE  Good(k + 1)
  <2>1. k \in Nat /\ k + 1 \in 1..Len(new) /\ (k + 1) - 1 = k /\ k <= Len(new)
    BY <1>1, <1>4
  <2>2. Good(k)
    BY <1>4
  <2> DEFINE a == After[k]
             m == new[k + 1]
  <2>3. m \in Detection /\ After[k + 1] = Pushed(a, m)
    BY <1>1, <1>2, <2>1
  <2>4. ToSet(a) \X {m} \subseteq Rising
    <3>1. ASSUME NEW x \in ToSet(b) PROVE <<x, m>> \in Rising
      <4>1. m \in ToSet(new)
        BY <1>1, <2>1 DEF ToSet
      <4>2. QED
        BY <3>1, <4>1
    <3>2. ASSUME NEW j \in 1..k PROVE <<new[j], m>> \in Rising
      <4>1. j \in 1..Len(new) /\ j < k + 1
        BY <1>1, <2>1
      <4>2. QED
        BY <1>1, <2>1, <4>1 DEF InOrder
    <3>3. ToSet(a) = ToSet(b) \cup {new[j] : j \in 1..k}
      BY <2>2
    <3> HIDE DEF a, m
    <3>4. QED
      BY <3>1, <3>2, <3>3
  <2>5. {new[j] : j \in 1..k + 1} = {new[j] : j \in 1..k} \cup {m}
    <3>1. 1..k + 1 = (1..k) \cup {k + 1}
      BY <2>1
    <3>2. QED
      BY <3>1
  <2>6. a \in Seq(Detection) /\ InOrder(SentInOrder, a) /\ InOrder(Unpassed, a) /\ IsInjective(a)
        /\ Len(a) = Len(b) + k /\ ToSet(a) = ToSet(b) \cup {new[j] : j \in 1..k}
    BY <2>2
  <2> HIDE DEF a, m
  <2>7. /\ Pushed(a, m) \in Seq(Detection)
        /\ Len(Pushed(a, m)) = Len(a) + 1
        /\ ToSet(Pushed(a, m)) = ToSet(a) \cup {m}
        /\ InOrder(SentInOrder, Pushed(a, m))
        /\ InOrder(Unpassed, Pushed(a, m))
        /\ IsInjective(Pushed(a, m))
    BY <2>3, <2>4, <2>6, PushKeepsOrder
  <2>8. Len(Pushed(a, m)) = Len(b) + (k + 1)
    BY <1>1, <2>1, <2>6, <2>7
  <2>9. ToSet(Pushed(a, m)) = ToSet(b) \cup {new[j] : j \in 1..k + 1}
    BY <2>5, <2>6, <2>7
  <2>10. QED
    BY <2>3, <2>7, <2>8, <2>9
<1>5. T = Nat
  <2> HIDE DEF Good
  <2>1. T \subseteq Nat
    OBVIOUS
  <2>2. ASSUME NEW k \in T PROVE k + 1 \in T
    BY <1>1, <1>4
  <2> HIDE DEF T
  <2>3. QED
    BY <1>3, <2>1, <2>2, NumbersByInduction
<1>6. Good(Len(new))
  <2> HIDE DEF Good
  <2>1. QED
    BY <1>1, <1>5
<1>7. ToSet(new) = {new[j] : j \in 1..Len(new)}
  BY <1>1 DEF ToSet
<1>8. QED
  BY <1>6, <1>7

-----------------------------------------------------------------------------
(***************************************************************************)
(* A stream keeps its order on its way through the pipeline.               *)
(***************************************************************************)

\* A nonempty sequence is its first element and the rest.
LEMMA FirstAndRest ==
  ASSUME NEW S, NEW s \in Seq(S), s # <<>>
  PROVE  s = <<Head(s)>> \o Tail(s) /\ Head(s) \in S /\ Tail(s) \in Seq(S)
         /\ ToSet(Tail(s)) \subseteq ToSet(s)
<1>1. Head(s) \in S /\ Tail(s) \in Seq(S) /\ <<Head(s)>> \in Seq(S)
  OBVIOUS
<1>2. s = <<Head(s)>> \o Tail(s)
  <2> DEFINE w == <<Head(s)>> \o Tail(s)
  <2>1. w \in Seq(S) /\ Len(w) = Len(s) /\ \A k \in 1..Len(s) : w[k] = s[k]
    <3>1. Len(s) \in Nat \ {0} /\ Len(Tail(s)) = Len(s) - 1
      OBVIOUS
    <3>2. w \in Seq(S) /\ Len(w) = 1 + Len(Tail(s))
      BY <1>1
    <3>3. ASSUME NEW k \in 1..Len(s) PROVE w[k] = s[k]
      <4>1. CASE k = 1
        BY <4>1
      <4>2. CASE k # 1
        <5>1. k - 1 \in 1..Len(Tail(s))
          BY <3>1, <4>2
        <5>2. QED
          BY <1>1, <3>1, <4>2, <5>1
      <4>3. QED
        BY <4>1, <4>2
    <3>4. QED
      BY <3>1, <3>2, <3>3
  <2> HIDE DEF w
  <2>2. w = s
    BY <2>1, SeqEqual
  <2>3. QED
    BY <2>2 DEF w
<1>3. ToSet(s) = ToSet(<<Head(s)>>) \cup ToSet(Tail(s))
  BY <1>1, <1>2, ElementsOfBoth, ZenonT(30)
<1>4. QED
  BY <1>1, <1>2, <1>3

\* An order is kept with one more element that may come after all the others.
LEMMA LineWithOneMore ==
  ASSUME NEW S, NEW R, NEW s \in Seq(S), NEW d \in S,
         InOrder(R, s), ToSet(s) \X {d} \subseteq R
  PROVE  InOrder(R, Append(s, d)) /\ ToSet(Append(s, d)) = ToSet(s) \cup {d}
<1>1. Append(s, d) = s \o <<d>> /\ <<d>> \in Seq(S)
  OBVIOUS
<1> DEFINE e == <<d>>
<1>2. e \in Seq(S) /\ ToSet(e) = {d} /\ InOrder(R, e) /\ Append(s, d) = s \o e
  BY <1>1, ShortSequences
<1> HIDE DEF e
<1>3. InOrder(R, s \o e)
  BY <1>2, OrderOfBoth
<1>4. ToSet(s \o e) = ToSet(s) \cup {d}
  BY <1>2, ElementsOfBoth
<1>5. QED
  BY <1>2, <1>3, <1>4

\* The parts of the line, and that it is one sequence.
LEMMA LineParts ==
  ASSUME IngestInv
  PROVE  /\ delivered \in Seq(Detection) /\ popped \in Seq(Detection) /\ queue \in Seq(Detection)
         /\ popped \o queue \in Seq(Detection) /\ Line \in Seq(Detection)
         /\ ToSet(Line) \subseteq Detection
         /\ ToSet(Line) = ToSet(delivered) \cup (ToSet(popped) \cup ToSet(queue))
<1>1. delivered \in Seq(Detection) /\ popped \in Seq(Detection) /\ queue \in Seq(Detection)
  BY DEF IngestInv, TypeOK
<1>2. popped \o queue \in Seq(Detection)
  BY <1>1
<1>3. Line \in Seq(Detection)
  BY <1>1, <1>2 DEF Line
<1>4. ToSet(Line) \subseteq Detection
  BY <1>3 DEF ToSet
<1>5. ToSet(Line) = ToSet(delivered) \cup ToSet(popped \o queue)
  <2> DEFINE w == popped \o queue
  <2>1. w \in Seq(Detection)
    BY <1>2
  <2> HIDE DEF w
  <2>2. ToSet(delivered \o w) = ToSet(delivered) \cup ToSet(w)
    BY <1>1, <2>1, ElementsOfBoth
  <2>3. QED
    BY <2>2 DEF w, Line
<1>6. ToSet(popped \o queue) = ToSet(popped) \cup ToSet(queue)
  BY <1>1, ElementsOfBoth
<1>7. QED
  BY <1>1, <1>2, <1>3, <1>4, <1>5, <1>6

\* Without the oldest of the queue the line keeps its order.
LEMMA LineWithoutOldest ==
  ASSUME IngestInv, InOrder(Rising, Line), queue # <<>>
  PROVE  LET l == delivered \o (popped \o Tail(queue))
         IN  /\ Tail(queue) \in Seq(Detection) /\ l \in Seq(Detection)
             /\ InOrder(Rising, l) /\ ToSet(l) \subseteq ToSet(Line)
<1> DEFINE h == <<Head(queue)>>
           t == Tail(queue)
           l == delivered \o (popped \o t)
<1>1. /\ delivered \in Seq(Detection) /\ popped \in Seq(Detection) /\ queue \in Seq(Detection)
      /\ popped \o queue \in Seq(Detection)
      /\ ToSet(Line) = ToSet(delivered) \cup (ToSet(popped) \cup ToSet(queue))
  BY LineParts
<1>2. h \in Seq(Detection) /\ t \in Seq(Detection) /\ queue = h \o t /\ ToSet(t) \subseteq ToSet(queue)
  <2>1. Head(queue) \in Detection /\ Tail(queue) \in Seq(Detection)
        /\ queue = <<Head(queue)>> \o Tail(queue) /\ ToSet(Tail(queue)) \subseteq ToSet(queue)
    BY <1>1, FirstAndRest
  <2>2. <<Head(queue)>> \in Seq(Detection)
    BY <2>1
  <2>3. QED
    BY <2>1, <2>2
<1> HIDE DEF h, t
<1>3. popped \o t \in Seq(Detection) /\ l \in Seq(Detection)
  BY <1>1, <1>2
<1>4. ToSet(popped \o t) = ToSet(popped) \cup ToSet(t)
  BY <1>1, <1>2, ElementsOfBoth
<1>5. ToSet(l) = ToSet(delivered) \cup ToSet(popped \o t)
  <2> DEFINE w == popped \o t
  <2>1. w \in Seq(Detection)
    BY <1>3
  <2> HIDE DEF w
  <2>2. ToSet(delivered \o w) = ToSet(delivered) \cup ToSet(w)
    BY <1>1, <2>1, ElementsOfBoth
  <2>3. QED
    BY <2>2 DEF w
<1>6. ToSet(popped \o queue) = ToSet(popped) \cup ToSet(queue)
  BY <1>1, ElementsOfBoth
<1>7. /\ InOrder(Rising, delivered) /\ InOrder(Rising, popped \o queue)
      /\ ToSet(delivered) \X ToSet(popped \o queue) \subseteq Rising
  BY <1>1, OrderOfBoth DEF Line
<1>8. /\ InOrder(Rising, popped) /\ InOrder(Rising, queue)
      /\ ToSet(popped) \X ToSet(queue) \subseteq Rising
  BY <1>1, <1>7, OrderOfBoth
<1>9. InOrder(Rising, t)
  BY <1>2, <1>8, OrderOfBoth
<1>10. ToSet(popped) \X ToSet(t) \subseteq Rising
  BY <1>2, <1>8
<1>11. InOrder(Rising, popped \o t)
  BY <1>1, <1>2, <1>8, <1>9, <1>10, OrderOfBoth
<1>12. ToSet(delivered) \X ToSet(popped \o t) \subseteq Rising
  BY <1>2, <1>4, <1>6, <1>7
<1>13. InOrder(Rising, l)
  BY <1>1, <1>3, <1>7, <1>11, <1>12, OrderOfBoth
<1>14. ToSet(l) \subseteq ToSet(Line)
  BY <1>1, <1>2, <1>4, <1>5
<1>15. QED
  BY <1>2, <1>3, <1>13, <1>14 DEF t

\* What an offer makes of the line.
LEMMA LineAfterOffer ==
  ASSUME IngestInv, InOrder(Rising, Line), NEW d \in Detection,
         ToSet(Line) \X {d} \subseteq Rising,
         queue' = Offered(d), popped' = popped, delivered' = delivered
  PROVE  InOrder(Rising, Line') /\ ToSet(Line') \subseteq ToSet(Line) \cup {d}
<1>1. /\ delivered \in Seq(Detection) /\ popped \in Seq(Detection) /\ queue \in Seq(Detection)
      /\ Line \in Seq(Detection)
  BY LineParts
<1>2. ASSUME NEW q \in Seq(Detection), queue' = Append(q, d),
             InOrder(Rising, delivered \o (popped \o q)),
             ToSet(delivered \o (popped \o q)) \subseteq ToSet(Line)
      PROVE  InOrder(Rising, Line') /\ ToSet(Line') \subseteq ToSet(Line) \cup {d}
  <2> DEFINE l == delivered \o (popped \o q)
  <2>1. l \in Seq(Detection)
    BY <1>1, <1>2
  <2>2. Line' = Append(l, d)
    <3>1. popped \o Append(q, d) = Append(popped \o q, d)
      BY <1>1, <1>2, DropFromBacklog, ZenonT(30)
    <3>2. delivered \o Append(popped \o q, d) = Append(delivered \o (popped \o q), d)
      <4>1. popped \o q \in Seq(Detection)
        BY <1>1, <1>2
      <4> DEFINE w == popped \o q
      <4>2. delivered \in Seq(Detection) /\ w \in Seq(Detection)
        BY <1>1, <4>1
      <4> HIDE DEF w
      <4>3. delivered \o Append(w, d) = Append(delivered \o w, d)
        BY <4>2, DropFromBacklog, ZenonT(30)
      <4>4. QED
        BY <4>3 DEF w
    <3>3. QED
      BY <1>2, <3>1, <3>2 DEF Line
  <2>3. InOrder(Rising, l) /\ ToSet(l) \subseteq ToSet(Line)
    BY <1>2
  <2> HIDE DEF l
  <2>4. ToSet(l) \X {d} \subseteq Rising
    BY <2>3
  <2>5. InOrder(Rising, Append(l, d)) /\ ToSet(Append(l, d)) = ToSet(l) \cup {d}
    BY <2>1, <2>3, <2>4, LineWithOneMore
  <2>6. QED
    BY <2>2, <2>3, <2>5
<1>3. CASE Len(queue) < MaxQueue
  <2>1. queue' = Append(queue, d)
    BY <1>3 DEF Offered
  <2>2. QED
    BY <1>1, <1>2, <2>1 DEF Line
<1>4. CASE ~(Len(queue) < MaxQueue) /\ DropOldest /\ queue # <<>>
  <2>1. queue' = Append(Tail(queue), d)
    BY <1>4 DEF Offered
  <2>2. QED
    BY <1>2, <1>4, <2>1, LineWithoutOldest
<1>5. CASE ~(Len(queue) < MaxQueue) /\ ~(DropOldest /\ queue # <<>>)
  <2>1. queue' = queue
    BY <1>5 DEF Offered
  <2>2. QED
    BY <2>1 DEF Line
<1>6. QED
  BY <1>3, <1>4, <1>5

\* What one stream does to the order.
LEMMA StreamStepKeepsOrder ==
  ASSUME IngestInv, StreamsKeepOrder, NEW s \in Streams, Ingest(s)
  PROVE  StreamsKeepOrder'
<1>0. /\ taken \in [Streams -> 0..Load] /\ hand \in [Streams -> SUBSET Detection] /\ Load \in Nat
      /\ \A x \in ToSet(Line) : x \in Detection /\ x.stream \in Streams /\ x.n \in Int
      /\ \A t \in Streams : taken[t] \in Int /\ \A d \in hand[t] : d \in Detection /\ d.n \in Int
  BY PipelineAssumption, LineParts, DetectionFields DEF IngestInv, TypeOK
<1>1. CASE Check(s)
  <2>1. PICK seq \in Seqs, sent \in Times :
          hand' = [hand EXCEPT ![s] =
                    {[stream |-> s, n |-> taken[s] + 1, seq |-> seq, sent |-> sent]}]
    BY <1>1 DEF Check
  <2> DEFINE new == [stream |-> s, n |-> taken[s] + 1, seq |-> seq, sent |-> sent]
  <2>2. new.stream = s /\ new.n = taken[s] + 1
    OBVIOUS
  <2>3. hand'[s] = {new} /\ \A t \in Streams : t # s => hand'[t] = hand[t]
    BY <1>0, <2>1
  <2> HIDE DEF new
  <2>4. taken'[s] = taken[s] + 1 /\ \A t \in Streams : t # s => taken'[t] = taken[t]
    BY <1>0, <1>1 DEF Check
  <2>5. Line' = Line
    BY <1>1 DEF Check, Line, queueVars, workerVars
  <2>6. \A x \in ToSet(Line) : x.n <= taken'[x.stream]
    <3>1. ASSUME NEW x \in ToSet(Line) PROVE x.n <= taken'[x.stream]
      <4>1. x.n <= taken[x.stream] /\ x.n \in Int /\ x.stream \in Streams
        BY <1>0 DEF StreamsKeepOrder
      <4>2. taken[x.stream] \in Int
        BY <1>0, <4>1
      <4>3. QED
        BY <2>4, <4>1, <4>2
    <3>2. QED
      BY <3>1
  <2>7. ASSUME NEW t \in Streams, NEW d \in hand'[t]
        PROVE  /\ d.stream = t /\ d.n <= taken'[t]
               /\ \A x \in ToSet(Line) : x.stream = t => x.n < d.n
    <3>1. CASE t = s
      <4>1. d.stream = s /\ d.n = taken[s] + 1
        BY <2>2, <2>3, <2>7, <3>1
      <4>2. ASSUME NEW x \in ToSet(Line), x.stream = s PROVE x.n < d.n
        BY <1>0, <4>1, <4>2 DEF StreamsKeepOrder
      <4>3. QED
        BY <1>0, <2>4, <3>1, <4>1, <4>2
    <3>2. CASE t # s
      BY <2>3, <2>4, <2>7, <3>2 DEF StreamsKeepOrder
    <3>3. QED
      BY <3>1, <3>2
  <2>8. InOrder(Rising, Line)
    BY DEF StreamsKeepOrder
  <2>9. QED
    BY <2>5, <2>6, <2>7, <2>8 DEF StreamsKeepOrder
<1>2. CASE FaultDrop(s)
  <2>1. Line' = Line /\ taken' = taken
    BY <1>2 DEF FaultDrop, Line, workerVars
  <2>2. \A t \in Streams : hand'[t] \subseteq hand[t]
    BY <1>0, <1>2 DEF FaultDrop
  <2>3. QED
    BY <2>1, <2>2 DEF StreamsKeepOrder
<1>3. CASE Enqueue(s)
  <2>1. PICK d \in hand[s] : queue' = Offered(d)
    BY <1>3 DEF Enqueue
  <2>2. taken' = taken /\ popped' = popped /\ delivered' = delivered
    BY <1>3 DEF Enqueue
  <2>3. hand'[s] = {} /\ \A t \in Streams : t # s => hand'[t] = hand[t]
    BY <1>0, <1>3 DEF Enqueue
  <2>4. /\ d \in Detection /\ d.stream = s /\ d.n <= taken[s]
        /\ \A x \in ToSet(Line) : x.stream = s => x.n < d.n
    BY <1>0, <2>1 DEF StreamsKeepOrder
  <2>5. ToSet(Line) \X {d} \subseteq Rising
    <3>1. ASSUME NEW x \in ToSet(Line) PROVE <<x, d>> \in Rising
      BY <1>0, <2>4, <3>1 DEF Rising
    <3>2. QED
      BY <3>1
  <2>6. InOrder(Rising, Line') /\ ToSet(Line') \subseteq ToSet(Line) \cup {d}
    BY <2>1, <2>2, <2>4, <2>5, LineAfterOffer DEF StreamsKeepOrder
  <2>7. \A x \in ToSet(Line') : x.n <= taken[x.stream]
    BY <2>4, <2>6 DEF StreamsKeepOrder
  <2>8. ASSUME NEW t \in Streams, NEW e \in hand'[t]
        PROVE  /\ e.stream = t /\ e.n <= taken[t]
               /\ \A x \in ToSet(Line') : x.stream = t => x.n < e.n
    <3>1. t # s /\ e \in hand[t]
      BY <2>3, <2>8
    <3>2. QED
      BY <2>4, <2>6, <3>1 DEF StreamsKeepOrder
  <2>9. QED
    BY <2>2, <2>6, <2>7, <2>8 DEF StreamsKeepOrder
<1>4. QED
  BY <1>1, <1>2, <1>3 DEF Ingest

\* Every stream keeps its order from its first check to the callbacks of the topic.
THEOREM OrderThroughThePipeline == Spec => []StreamsKeepOrder
<1>1. Init => StreamsKeepOrder
  <2> SUFFICES ASSUME Init
               PROVE  StreamsKeepOrder
    OBVIOUS
  <2>1. Line = <<>>
    BY DEF Init, Line
  <2>2. ToSet(Line) = {} /\ InOrder(Rising, Line)
    BY <2>1, ShortSequences
  <2>3. QED
    BY <2>2 DEF Init, StreamsKeepOrder
<1>2. IngestInv /\ StreamsKeepOrder /\ [Next]_vars => StreamsKeepOrder'
  <2> SUFFICES ASSUME IngestInv, StreamsKeepOrder, [Next]_vars
               PROVE  StreamsKeepOrder'
    OBVIOUS
  <2>1. ASSUME Line' = Line, taken' = taken, hand' = hand
        PROVE  StreamsKeepOrder'
    BY <2>1 DEF StreamsKeepOrder
  <2>2. CASE Take
    <3>1. popped = <<>> /\ queue # <<>>
      BY <2>2 DEF Take, IngestInv, InHandToPublish
    <3>2. queue = <<Head(queue)>> \o Tail(queue) /\ Tail(queue) \in Seq(Detection)
      BY <3>1, LineParts, FirstAndRest
    <3>3. popped \o queue = queue
      BY <3>1, LineParts
    <3>4. popped' \o queue' = popped \o queue
      BY <2>2, <3>2, <3>3 DEF Take
    <3>5. QED
      BY <2>1, <2>2, <3>4 DEF Take, WorkerUnchanged, streamVars, Line
  <2>3. CASE Publish
    <3>1. popped' = <<>> /\ queue' = queue /\ delivered' = delivered \o popped
      BY <2>3 DEF Publish
    <3>2. (delivered \o popped) \o (<<>> \o queue) = delivered \o (popped \o queue)
      BY LineParts
    <3>3. QED
      BY <2>1, <2>3, <3>1, <3>2 DEF Publish, WorkerUnchanged, streamVars, Line
  <2>4. CASE LoopTest \/ Leave \/ StartToWait \/ FallAsleep \/ Count \/ WakeForNoReason
    BY <2>1, <2>4 DEF LoopTest, Leave, StartToWait, FallAsleep, Count, WakeForNoReason,
                      WorkerUnchanged, streamVars, Line
  <2>5. CASE Destroy \/ Destructor \/ UNCHANGED vars
    BY <2>1, <2>5 DEF Destroy, Destructor, NotifyAll, Join, vars, streamVars, queueVars,
                      workerVars, Line
  <2>6. QED
    BY <2>2, <2>3, <2>4, <2>5, StreamStepKeepsOrder DEF Next, Worker
<1>3. QED
  BY <1>1, <1>2, IngestInvariance, PTL DEF Spec

-----------------------------------------------------------------------------
(***************************************************************************)
(* From the topic to the tracker.                                          *)
(***************************************************************************)

\* The parts of what is on the way.
LEMMA WayParts ==
  ASSUME DemoTypeOK
  PROVE  /\ Arrived \in Seq(Detection) /\ Arriving \in Seq(Detection)
         /\ OnTheWay \in Seq(Detection) /\ OnTheWay = Arrived \o Arriving
         /\ Len(OnTheWay) = Len(fused) + Len(buffer) + Len(incoming) + Len(calling)
         /\ ToSet(Arrived) = ToSet(fused) \cup ToSet(buffer)
         /\ ToSet(Arriving) = ToSet(incoming) \cup ToSet(calling)
         /\ ToSet(OnTheWay) = ToSet(Arrived) \cup ToSet(Arriving)
         /\ Len(OnTheWay) \in Nat
<1>1. /\ fused \in Seq(Detection) /\ buffer \in Seq(Detection)
      /\ incoming \in Seq(Detection) /\ calling \in Seq(Detection)
  BY DEF DemoTypeOK
<1>2. /\ Arrived \in Seq(Detection) /\ Len(Arrived) = Len(fused) + Len(buffer)
      /\ ToSet(Arrived) = ToSet(fused) \cup ToSet(buffer)
  BY <1>1, ElementsOfBoth, ConcatProperties DEF Arrived
<1>3. /\ Arriving \in Seq(Detection) /\ Len(Arriving) = Len(incoming) + Len(calling)
      /\ ToSet(Arriving) = ToSet(incoming) \cup ToSet(calling)
  BY <1>1, ElementsOfBoth, ConcatProperties DEF Arriving
<1>4. OnTheWay = Arrived \o Arriving
  <2>1. OnTheWay = (Arrived \o incoming) \o calling
    BY DEF OnTheWay, Arrived
  <2>2. ASSUME NEW a \in Seq(Detection), NEW b \in Seq(Detection), NEW c \in Seq(Detection)
        PROVE  (a \o b) \o c = a \o (b \o c)
    OBVIOUS
  <2>3. QED
    BY <1>1, <1>2, <2>1, <2>2 DEF Arriving
<1>5. /\ Arrived \o Arriving \in Seq(Detection)
      /\ Len(Arrived \o Arriving) = Len(Arrived) + Len(Arriving)
      /\ ToSet(Arrived \o Arriving) = ToSet(Arrived) \cup ToSet(Arriving)
  <2>1. ToSet(Arrived \o Arriving) = ToSet(Arrived) \cup ToSet(Arriving)
    BY <1>2, <1>3, ElementsOfBoth
  <2>2. /\ Arrived \o Arriving \in Seq(Detection)
        /\ Len(Arrived \o Arriving) = Len(Arrived) + Len(Arriving)
    BY <1>2, <1>3, ConcatProperties
  <2>3. QED
    BY <2>1, <2>2
<1>6. /\ Len(fused) \in Nat /\ Len(buffer) \in Nat /\ Len(incoming) \in Nat /\ Len(calling) \in Nat
  BY <1>1, LenProperties
<1>7. QED
  BY <1>2, <1>3, <1>4, <1>5, <1>6

\* What FedInOrder says, said as an order.
LEMMA FedInOrderIsAnOrder ==
  ASSUME DemoTypeOK
  PROVE  FedInOrder <=> InOrder(Unpassed, fused)
<1>1. \A k \in DOMAIN fused : fused[k] \in Detection
  BY DEF DemoTypeOK
<1>2. QED
  BY <1>1 DEF FedInOrder, InOrder, Unpassed

\* Before the demo starts nothing is on the way.
LEMMA DemoInitIsGood == DemoInit => DemoInv
<1> SUFFICES ASSUME DemoInit
             PROVE  DemoInv
  OBVIOUS
<1>1. /\ main = "serving" /\ calling = <<>> /\ incoming = <<>> /\ buffer = <<>> /\ fused = <<>>
      /\ now = 0 /\ unheard = 0 /\ delivered = <<>>
  BY DEF DemoInit, Init
<1>2. DemoTypeOK
  BY <1>1 DEF DemoTypeOK
<1>3. Arrived = <<>> /\ Arriving = <<>> /\ OnTheWay = <<>>
  BY <1>1 DEF Arrived, Arriving, OnTheWay
<1>4. ArrivesInOrder /\ BufferIsSorted /\ FedInOrder
  BY <1>1, <1>2, <1>3, ShortSequences, FedInOrderIsAnOrder DEF ArrivesInOrder, BufferIsSorted
<1>5. EachFedOnce
  <2>1. IsInjective(OnTheWay) /\ ToSet(OnTheWay) = {} /\ Len(OnTheWay) = 0 /\ Len(delivered) = 0
    BY <1>1, <1>3, ShortSequences DEF IsInjective
  <2>2. QED
    BY <1>1, <2>1 DEF EachFedOnce
<1>6. FedWhenDue
  BY <1>1 DEF FedWhenDue
<1>7. QED
  BY <1>1, <1>2, <1>4, <1>5, <1>6 DEF DemoInv, CallsBack

\* What touches nothing of the demo's.
LEMMA ElsewhereIsGood ==
  ASSUME DemoInv, UNCHANGED demoVars, delivered' = delivered,
         calling # <<>> => worker' = "count"
  PROVE  DemoInv'
BY DEF DemoInv, demoVars, DemoTypeOK, CallsBack, ArrivesInOrder, Arrived, Arriving,
       BufferIsSorted, EachFedOnce, OnTheWay, FedWhenDue, FedInOrder

\* The measurement published is newer than all of its stream that was, and goes to
\* the callback if there is one.
LEMMA PublishIsGood ==
  ASSUME IngestInv, StreamsKeepOrder, DemoInv, PublishToSubscribers
  PROVE  DemoInv'
<1>1. PICK d \in Detection : popped = <<d>>
  <2>1. popped \in Seq(Detection) /\ Len(popped) <= 1 /\ popped # <<>>
    BY DEF IngestInv, TypeOK, InHandToPublish, PublishToSubscribers, Publish
  <2>2. QED
    BY <2>1, OneElement
<1>2. /\ delivered \in Seq(Detection) /\ <<d>> \in Seq(Detection)
      /\ delivered' = Append(delivered, d) /\ Len(delivered') = Len(delivered) + 1
      /\ ToSet(delivered') = ToSet(delivered) \cup {d} /\ Len(delivered) \in Nat
  <2>1. delivered \in Seq(Detection)
    BY LineParts
  <2>2. delivered' = Append(delivered, d)
    BY <1>1, <2>1 DEF PublishToSubscribers, Publish
  <2>3. ToSet(Append(delivered, d)) = ToSet(delivered) \cup {d}
    <3> DEFINE e == <<d>>
    <3>1. Append(delivered, d) = delivered \o e /\ e \in Seq(Detection) /\ ToSet(e) = {d}
      BY <2>1, ShortSequences
    <3> HIDE DEF e
    <3>2. ToSet(delivered \o e) = ToSet(delivered) \cup ToSet(e)
      BY <2>1, <3>1, ElementsOfBoth
    <3>3. QED
      BY <3>1, <3>2
  <2>4. QED
    BY <2>1, <2>2, <2>3
<1>3. ToSet(delivered) \X {d} \subseteq Rising
  <2>1. /\ popped \o queue \in Seq(Detection) /\ queue \in Seq(Detection)
        /\ popped \in Seq(Detection)
    BY LineParts
  <2>2. ToSet(delivered) \X ToSet(popped \o queue) \subseteq Rising
    BY <1>2, <2>1, OrderOfBoth DEF StreamsKeepOrder, Line
  <2>3. ToSet(popped \o queue) = ToSet(popped) \cup ToSet(queue)
    BY <2>1, ElementsOfBoth
  <2>4. d \in ToSet(popped)
    BY <1>1, ShortSequences
  <2>5. QED
    BY <2>2, <2>3, <2>4
<1>4. calling = <<>> /\ worker' = "count"
  BY DEF DemoInv, CallsBack, PublishToSubscribers, Publish
<1>5. UNCHANGED <<main, incoming, buffer, now, fused>>
  BY DEF PublishToSubscribers
<1>6. CASE main = "serving"
  <2>1. unheard' = unheard + 1 /\ calling' = calling
    BY <1>6 DEF PublishToSubscribers
  <2>2. DemoTypeOK'
    BY <1>5, <2>1 DEF DemoInv, DemoTypeOK
  <2>3. OnTheWay' = OnTheWay /\ Arrived' = Arrived /\ Arriving' = Arriving
    BY <1>5, <2>1 DEF OnTheWay, Arrived, Arriving
  <2>4. EachFedOnce'
    <3>1. Len(OnTheWay) \in Nat /\ unheard \in Nat
      BY WayParts DEF DemoInv, DemoTypeOK
    <3>2. IsInjective(OnTheWay) /\ ToSet(OnTheWay) \subseteq ToSet(delivered')
      BY <1>2 DEF DemoInv, EachFedOnce
    <3>3. main # "left" => Len(OnTheWay) + unheard' = Len(delivered')
      BY <1>2, <2>1, <3>1 DEF DemoInv, EachFedOnce
    <3>4. QED
      BY <1>5, <2>3, <3>2, <3>3 DEF EachFedOnce
  <2>5. QED
    BY <1>4, <1>5, <2>1, <2>2, <2>3, <2>4
       DEF DemoInv, CallsBack, ArrivesInOrder, BufferIsSorted, FedWhenDue, FedInOrder
<1>7. CASE main # "serving"
  <2>1. unheard' = unheard /\ calling' = <<d>>
    BY <1>1, <1>7 DEF PublishToSubscribers
  <2>2. DemoTypeOK'
    BY <1>2, <1>5, <2>1 DEF DemoInv, DemoTypeOK
  <2>3. /\ Arrived \in Seq(Detection) /\ Arriving \in Seq(Detection) /\ OnTheWay \in Seq(Detection)
        /\ OnTheWay = Arrived \o Arriving /\ Len(OnTheWay) \in Nat
        /\ ToSet(OnTheWay) = ToSet(Arrived) \cup ToSet(Arriving)
        /\ incoming \in Seq(Detection) /\ Arriving = incoming
    BY <1>4, WayParts DEF DemoInv, DemoTypeOK, Arriving
  <2>4. Arrived' = Arrived /\ Arriving' = Append(Arriving, d)
    BY <1>5, <2>1, <2>3 DEF Arrived, Arriving
  <2>5. OnTheWay' = Append(OnTheWay, d)
    <3> DEFINE w == fused \o buffer \o incoming
    <3>1. w \in Seq(Detection)
      BY DEF DemoInv, DemoTypeOK
    <3>2. OnTheWay = w \o calling /\ OnTheWay' = w \o calling'
      BY <1>5 DEF OnTheWay
    <3> HIDE DEF w
    <3>3. OnTheWay = w /\ OnTheWay' = w \o <<d>>
      BY <1>4, <2>1, <3>1, <3>2
    <3>4. QED
      BY <3>1, <3>3
  <2>6. ToSet(OnTheWay) \X {d} \subseteq Rising
    BY <1>3 DEF DemoInv, EachFedOnce
  <2>7. ArrivesInOrder'
    <3>1. ToSet(Arriving) \X {d} \subseteq Rising /\ ToSet(Arrived) \X {d} \subseteq Rising
      BY <2>3, <2>6
    <3>2. InOrder(Rising, Append(Arriving, d)) /\ ToSet(Append(Arriving, d)) = ToSet(Arriving) \cup {d}
      BY <2>3, <3>1, LineWithOneMore DEF DemoInv, ArrivesInOrder
    <3>3. ToSet(Arrived) \X (ToSet(Arriving) \cup {d}) \subseteq Rising
      BY <3>1 DEF DemoInv, ArrivesInOrder
    <3>4. QED
      BY <2>4, <3>2, <3>3 DEF ArrivesInOrder
  <2>8. EachFedOnce'
    <3>1. ToSet(OnTheWay) \X {d} \subseteq Different
      <4>1. ASSUME NEW x \in ToSet(OnTheWay) PROVE <<x, d>> \in Different
        <5>1. <<x, d>> \in Rising /\ x \in Detection
          BY <2>3, <2>6, <4>1 DEF ToSet
        <5>2. x # d
          BY <5>1, DetectionFields DEF Rising
        <5>3. QED
          BY <5>1, <5>2 DEF Different
      <4>2. QED
        BY <4>1
    <3>2. InOrder(Different, OnTheWay)
      BY <2>3, InjectiveIsDifferent DEF DemoInv, EachFedOnce
    <3>3. InOrder(Different, Append(OnTheWay, d))
          /\ ToSet(Append(OnTheWay, d)) = ToSet(OnTheWay) \cup {d}
      <4>1. OnTheWay \in Seq(Detection)
        BY <2>3
      <4>2. QED
        BY <3>1, <3>2, <4>1, LineWithOneMore
    <3>4. Append(OnTheWay, d) \in Seq(Detection) /\ Len(Append(OnTheWay, d)) = Len(OnTheWay) + 1
      BY <2>3
    <3>5. IsInjective(Append(OnTheWay, d))
      BY <3>3, <3>4, InjectiveIsDifferent
    <3>6. ToSet(Append(OnTheWay, d)) \subseteq ToSet(delivered')
      BY <1>2, <3>3 DEF DemoInv, EachFedOnce
    <3>7. unheard \in Nat
      BY DEF DemoInv, DemoTypeOK
    <3>8. main # "left" => Len(Append(OnTheWay, d)) + unheard' = Len(delivered')
      BY <1>2, <2>1, <2>3, <3>4, <3>7 DEF DemoInv, EachFedOnce
    <3>9. QED
      BY <1>5, <2>5, <3>5, <3>6, <3>8 DEF EachFedOnce
  <2>9. QED
    BY <1>4, <1>5, <2>2, <2>7, <2>8
       DEF DemoInv, CallsBack, BufferIsSorted, FedWhenDue, FedInOrder
<1>8. QED
  BY <1>6, <1>7

\* The callback adds what it was called with to the vector while there is one.
LEMMA CallbackIsGood ==
  ASSUME DemoInv, Callback
  PROVE  DemoInv'
<1>1. /\ calling' = <<>> /\ UNCHANGED <<main, buffer, now, fused, unheard, delivered, worker>>
      /\ incoming' = IF main = "left" THEN <<>> ELSE incoming \o calling
  BY DEF Callback, vars, workerVars
<1>2. /\ fused \in Seq(Detection) /\ buffer \in Seq(Detection)
      /\ incoming \in Seq(Detection) /\ calling \in Seq(Detection)
      /\ Arrived \in Seq(Detection) /\ Arriving \in Seq(Detection) /\ OnTheWay \in Seq(Detection)
  BY WayParts DEF DemoInv, DemoTypeOK
<1>3. OnTheWay = Arrived \o Arriving /\ ToSet(OnTheWay) = ToSet(Arrived) \cup ToSet(Arriving)
  BY WayParts DEF DemoInv
<1>4. DemoTypeOK'
  BY <1>1, <1>2 DEF DemoInv, DemoTypeOK
<1>5. Arrived' = Arrived
  BY <1>1 DEF Arrived
<1>6. CASE main # "left"
  <2>1. Arriving' = Arriving
    BY <1>1, <1>2, <1>6 DEF Arriving
  <2>2. OnTheWay' = OnTheWay
    <3> DEFINE w == fused \o buffer
    <3>1. w \in Seq(Detection) /\ OnTheWay = (w \o incoming) \o calling
          /\ OnTheWay' = (w \o (incoming \o calling)) \o <<>>
      BY <1>1, <1>2, <1>6 DEF OnTheWay
    <3> HIDE DEF w
    <3>2. QED
      BY <1>2, <3>1, SMTT(30)
  <2>3. QED
    BY <1>1, <1>4, <1>5, <2>1, <2>2
       DEF DemoInv, CallsBack, ArrivesInOrder, BufferIsSorted, EachFedOnce, FedWhenDue, FedInOrder
<1>7. CASE main = "left"
  <2>1. Arriving' = <<>> /\ OnTheWay' = Arrived
    BY <1>1, <1>2, <1>7 DEF Arriving, OnTheWay, Arrived
  <2>2. ArrivesInOrder'
    BY <1>5, <2>1, ShortSequences DEF ArrivesInOrder
  <2>3. IsInjective(Arrived)
    BY <1>2, <1>3, InjectiveTogether DEF DemoInv, EachFedOnce
  <2>4. ToSet(Arrived) \subseteq ToSet(delivered)
    BY <1>3 DEF DemoInv, EachFedOnce
  <2>5. EachFedOnce'
    BY <1>1, <1>7, <2>1, <2>3, <2>4 DEF EachFedOnce
  <2>6. QED
    BY <1>1, <1>4, <2>2, <2>5
       DEF DemoInv, CallsBack, BufferIsSorted, FedWhenDue, FedInOrder
<1>8. QED
  BY <1>6, <1>7

\* The main thread leaves, and what it has not swapped out is gone.
LEMMA ReturnIsGood ==
  ASSUME DemoInv, Return
  PROVE  DemoInv'
<1>1. /\ main' = "left" /\ incoming' = <<>>
      /\ UNCHANGED <<calling, buffer, now, fused, unheard, delivered, worker>>
  BY DEF Return, Destroy, workerVars
<1>2. /\ fused \in Seq(Detection) /\ buffer \in Seq(Detection)
      /\ incoming \in Seq(Detection) /\ calling \in Seq(Detection)
      /\ Arrived \in Seq(Detection) /\ Arriving \in Seq(Detection) /\ OnTheWay \in Seq(Detection)
  BY WayParts DEF DemoInv, DemoTypeOK
<1>3. OnTheWay = Arrived \o Arriving /\ ToSet(OnTheWay) = ToSet(Arrived) \cup ToSet(Arriving)
      /\ ToSet(Arriving) = ToSet(incoming) \cup ToSet(calling)
  BY WayParts DEF DemoInv
<1>4. DemoTypeOK'
  BY <1>1, <1>2 DEF DemoInv, DemoTypeOK
<1>5. Arrived' = Arrived /\ Arriving' = calling
  BY <1>1, <1>2 DEF Arrived, Arriving
<1>6. OnTheWay' = Arrived \o calling
  BY <1>1, <1>2 DEF OnTheWay, Arrived
<1>7. ArrivesInOrder'
  <2>1. InOrder(Rising, calling)
    BY <1>2, OrderOfBoth DEF DemoInv, ArrivesInOrder, Arriving
  <2>2. ToSet(Arrived) \X ToSet(calling) \subseteq Rising
    BY <1>3 DEF DemoInv, ArrivesInOrder
  <2>3. QED
    BY <1>5, <2>1, <2>2 DEF ArrivesInOrder
<1>8. EachFedOnce'
  <2>1. IsInjective(Arrived) /\ IsInjective(Arriving)
        /\ ToSet(Arrived) \cap ToSet(Arriving) = {}
    BY <1>2, <1>3, InjectiveTogether DEF DemoInv, EachFedOnce
  <2>2. IsInjective(calling)
    BY <1>2, <2>1, InjectiveTogether DEF Arriving
  <2>3. ToSet(Arrived) \cap ToSet(calling) = {}
    BY <1>3, <2>1
  <2>4. IsInjective(Arrived \o calling)
    BY <1>2, <2>1, <2>2, <2>3, InjectiveTogether
  <2>5. ToSet(Arrived \o calling) = ToSet(Arrived) \cup ToSet(calling)
    BY <1>2, ElementsOfBoth
  <2>6. ToSet(Arrived \o calling) \subseteq ToSet(delivered)
    BY <1>3, <2>5 DEF DemoInv, EachFedOnce
  <2>7. QED
    BY <1>1, <1>6, <2>4, <2>6 DEF EachFedOnce
<1>9. QED
  BY <1>1, <1>4, <1>7, <1>8
     DEF DemoInv, CallsBack, BufferIsSorted, FedWhenDue, FedInOrder

\* A tick: the buffer takes what has arrived, and gives away what is due.
LEMMA TickIsGood ==
  ASSUME DemoInv, Tick
  PROVE  DemoInv'
<1> DEFINE drained == AllPushed(buffer, incoming)
           ready == Cardinality(Due(drained, now'))
           f == SubSeq(drained, 1, ready)
           g == SubSeq(drained, ready + 1, Len(drained))
<1>1. /\ now' = now + 1 /\ incoming' = <<>> /\ fused' = fused \o f /\ buffer' = g
      /\ UNCHANGED <<main, calling, unheard, delivered, worker>> /\ main = "ticking"
  BY DEF Tick, vars, workerVars
<1>2. /\ fused \in Seq(Detection) /\ buffer \in Seq(Detection)
      /\ incoming \in Seq(Detection) /\ calling \in Seq(Detection) /\ now \in Nat
      /\ Arrived \in Seq(Detection) /\ Arriving \in Seq(Detection) /\ OnTheWay \in Seq(Detection)
      /\ unheard \in Nat
  BY WayParts DEF DemoInv, DemoTypeOK
<1>3. /\ OnTheWay = Arrived \o Arriving /\ ToSet(OnTheWay) = ToSet(Arrived) \cup ToSet(Arriving)
      /\ ToSet(Arriving) = ToSet(incoming) \cup ToSet(calling)
      /\ ToSet(Arrived) = ToSet(fused) \cup ToSet(buffer)
      /\ Len(OnTheWay) = Len(fused) + Len(buffer) + Len(incoming) + Len(calling)
  BY WayParts DEF DemoInv
<1>4. /\ IsInjective(fused) /\ IsInjective(buffer) /\ IsInjective(incoming) /\ IsInjective(calling)
      /\ ToSet(Arrived) \cap ToSet(Arriving) = {}
      /\ ToSet(fused) \cap ToSet(buffer) = {} /\ ToSet(incoming) \cap ToSet(calling) = {}
  <2>1. IsInjective(Arrived) /\ IsInjective(Arriving)
        /\ ToSet(Arrived) \cap ToSet(Arriving) = {}
    BY <1>2, <1>3, InjectiveTogether DEF DemoInv, EachFedOnce
  <2>2. QED
    BY <1>2, <2>1, InjectiveTogether DEF Arrived, Arriving
<1>5. InOrder(Rising, incoming) /\ InOrder(Rising, calling)
      /\ ToSet(incoming) \X ToSet(calling) \subseteq Rising
      /\ ToSet(Arrived) \X ToSet(Arriving) \subseteq Rising
  BY <1>2, OrderOfBoth DEF DemoInv, ArrivesInOrder, Arriving
<1>6. /\ drained \in Seq(Detection)
      /\ Len(drained) = Len(buffer) + Len(incoming)
      /\ ToSet(drained) = ToSet(buffer) \cup ToSet(incoming)
      /\ InOrder(SentInOrder, drained)
      /\ InOrder(Unpassed, drained)
      /\ IsInjective(drained)
  <2>1. ToSet(buffer) \X ToSet(incoming) \subseteq Rising
    BY <1>3, <1>5
  <2>2. InOrder(SentInOrder, buffer) /\ InOrder(Unpassed, buffer)
    BY DEF DemoInv, BufferIsSorted
  <2>3. QED
    BY <1>2, <1>4, <1>5, <2>1, <2>2, AllPushedKeepsOrder
<1> HIDE DEF drained
<1>7. /\ f \in Seq(Detection) /\ g \in Seq(Detection) /\ f \o g = drained
      /\ \A x \in ToSet(f) : x.sent <= now'
      /\ \A x \in ToSet(g) : x.sent > now'
  <2>1. now' \in Nat
    BY <1>1, <1>2
  <2>2. QED
    BY <1>6, <2>1, SplitByTime
<1> HIDE DEF ready, f, g
<1>8. DemoTypeOK'
  <2>1. fused \o f \in Seq(Detection)
    BY <1>2, <1>7
  <2>2. QED
    BY <1>1, <1>2, <1>7, <2>1 DEF DemoInv, DemoTypeOK
<1>9. ToSet(drained) = ToSet(f) \cup ToSet(g) /\ Len(drained) = Len(f) + Len(g)
      /\ IsInjective(f) /\ IsInjective(g) /\ ToSet(f) \cap ToSet(g) = {}
      /\ InOrder(SentInOrder, g) /\ InOrder(Unpassed, g) /\ InOrder(Unpassed, f)
  <2>1. ToSet(drained) = ToSet(f) \cup ToSet(g) /\ Len(drained) = Len(f) + Len(g)
    BY <1>7, DetectionsOfBoth
  <2>2. IsInjective(f) /\ IsInjective(g) /\ ToSet(f) \cap ToSet(g) = {}
    BY <1>6, <1>7, InjectiveTogether
  <2>3. InOrder(SentInOrder, g) /\ InOrder(Unpassed, g) /\ InOrder(Unpassed, f)
    BY <1>6, <1>7, OrderOfBoth
  <2>4. QED
    BY <2>1, <2>2, <2>3
<1>10. ToSet(fused \o f) = ToSet(fused) \cup ToSet(f)
  BY <1>2, <1>7, ElementsOfBoth
<1>11. Arriving' = calling /\ Arrived' = (fused \o f) \o g
       /\ OnTheWay' = ((fused \o f) \o g) \o calling
  <2>1. fused \o f \in Seq(Detection) /\ (fused \o f) \o g \in Seq(Detection)
    BY <1>2, <1>7
  <2>2. QED
    BY <1>1, <1>2, <2>1 DEF Arriving, Arrived, OnTheWay
<1>12. ToSet((fused \o f) \o g) = ToSet(Arrived) \cup ToSet(incoming)
  <2>1. fused \o f \in Seq(Detection)
    BY <1>2, <1>7
  <2>2. ToSet((fused \o f) \o g) = ToSet(fused \o f) \cup ToSet(g)
    BY <1>7, <2>1, DetectionsOfBoth
  <2>3. QED
    BY <1>3, <1>6, <1>9, <1>10, <2>2
<1>13. ArrivesInOrder'
  <2>1. (ToSet(Arrived) \cup ToSet(incoming)) \X ToSet(calling) \subseteq Rising
    BY <1>3, <1>5
  <2>2. QED
    BY <1>5, <1>11, <1>12, <2>1 DEF ArrivesInOrder
<1>14. BufferIsSorted'
  BY <1>1, <1>9 DEF BufferIsSorted
<1>15. EachFedOnce'
  <2>1. ToSet(fused) \cap (ToSet(f) \cup ToSet(g)) = {}
    BY <1>3, <1>4, <1>6, <1>9
  <2>2. fused \o f \in Seq(Detection) /\ (fused \o f) \o g \in Seq(Detection)
    BY <1>2, <1>7
  <2>3. IsInjective(fused \o f)
    BY <1>2, <1>4, <1>7, <1>9, <2>1, InjectiveTogether
  <2>4. IsInjective((fused \o f) \o g)
    <3>1. ToSet(fused \o f) \cap ToSet(g) = {}
      BY <1>9, <1>10, <2>1
    <3>2. QED
      BY <1>7, <1>9, <2>2, <2>3, <3>1, InjectiveTogether
  <2>5. ToSet((fused \o f) \o g) \cap ToSet(calling) = {}
    BY <1>3, <1>4, <1>12
  <2>6. IsInjective(((fused \o f) \o g) \o calling)
    BY <1>2, <1>4, <2>2, <2>4, <2>5, InjectiveTogether
  <2>7. ToSet(((fused \o f) \o g) \o calling) = ToSet((fused \o f) \o g) \cup ToSet(calling)
    BY <1>2, <2>2, DetectionsOfBoth
  <2>8. ToSet(((fused \o f) \o g) \o calling) \subseteq ToSet(delivered)
    BY <1>3, <1>12, <2>7 DEF DemoInv, EachFedOnce
  <2>9. Len(((fused \o f) \o g) \o calling) = Len(OnTheWay)
    <3>1. Len(fused \o f) = Len(fused) + Len(f)
      BY <1>2, <1>7, ConcatProperties
    <3>2. Len((fused \o f) \o g) = Len(fused \o f) + Len(g)
      BY <1>7, <2>2, ConcatProperties
    <3>3. Len(((fused \o f) \o g) \o calling) = Len((fused \o f) \o g) + Len(calling)
      BY <1>2, <2>2, ConcatProperties
    <3>4. /\ Len(fused) \in Nat /\ Len(f) \in Nat /\ Len(g) \in Nat /\ Len(calling) \in Nat
          /\ Len(buffer) \in Nat /\ Len(incoming) \in Nat
      BY <1>2, <1>7, LenProperties
    <3>5. Len(f) + Len(g) = Len(buffer) + Len(incoming)
      BY <1>6, <1>9
    <3>6. Len(((fused \o f) \o g) \o calling) = Len(fused) + Len(f) + Len(g) + Len(calling)
      BY <3>1, <3>2, <3>3
    <3>7. Len(OnTheWay) = Len(fused) + Len(buffer) + Len(incoming) + Len(calling)
      BY <1>3
    <3> DEFINE a == Len(fused)
               b == Len(buffer)
               i == Len(incoming)
               c == Len(calling)
               x == Len(f)
               y == Len(g)
    <3> HIDE DEF a, b, i, c, x, y
    <3>8. a + x + y + c = a + b + i + c
      BY <3>4, <3>5 DEF a, b, i, c, x, y
    <3>9. QED
      BY <3>6, <3>7, <3>8 DEF a, b, i, c, x, y
  <2>10. QED
    BY <1>1, <1>11, <2>6, <2>8, <2>9 DEF DemoInv, EachFedOnce
<1>16. FedWhenDue'
  <2>1. \A x \in ToSet(fused) : x.sent <= now /\ x.sent \in Nat
    <3>1. \A k \in DOMAIN fused : fused[k] \in Detection /\ fused[k].sent <= now
      BY <1>2 DEF DemoInv, FedWhenDue
    <3>2. QED
      BY <3>1, DetectionFields DEF ToSet
  <2>2. \A x \in ToSet(fused \o f) : x.sent <= now'
    BY <1>1, <1>2, <1>7, <1>10, <2>1, SMTT(30)
  <2>3. QED
    BY <1>1, <1>7, <2>2 DEF FedWhenDue, ToSet
<1>17. FedInOrder'
  <2>1. ASSUME NEW x \in ToSet(fused), NEW y \in ToSet(f)
        PROVE  <<x, y>> \in Unpassed
    <3>1. x \in Detection /\ y \in Detection
      BY <1>2, <1>7 DEF ToSet
    <3>2. y \in ToSet(buffer) \/ y \in ToSet(incoming)
      BY <1>6, <1>9
    <3>3. CASE y \in ToSet(buffer)
      <4>1. x.sent <= now /\ y.sent > now
        BY <3>3 DEF DemoInv, FedWhenDue, ToSet
      <4>2. x.sent < y.sent
        BY <1>2, <3>1, <4>1, DetectionFields
      <4>3. QED
        BY <3>1, <4>2 DEF Unpassed
    <3>4. CASE y \in ToSet(incoming)
      <4>1. <<x, y>> \in Rising
        BY <1>3, <1>5, <3>4
      <4>2. x.stream = y.stream => x.n < y.n
        BY <4>1 DEF Rising
      <4>3. x.n \in Int /\ y.n \in Int
        BY <3>1, DetectionFields
      <4>4. QED
        BY <3>1, <4>2, <4>3 DEF Unpassed
    <3>5. QED
      BY <3>2, <3>3, <3>4
  <2>2. InOrder(Unpassed, fused)
    BY FedInOrderIsAnOrder DEF DemoInv
  <2>3. InOrder(Unpassed, fused \o f)
    BY <1>2, <1>7, <1>9, <2>1, <2>2, OrderOfBoth
  <2>4. \A k \in DOMAIN (fused \o f) : (fused \o f)[k] \in Detection
    BY <1>2, <1>7
  <2>5. QED
    BY <1>1, <2>3, <2>4 DEF FedInOrder, InOrder, Unpassed
<1>18. CallsBack'
  BY <1>1 DEF DemoInv, CallsBack
<1>19. QED
  BY <1>8, <1>13, <1>14, <1>15, <1>16, <1>17, <1>18 DEF DemoInv

\* The tracker is given every measurement published to its subscriber once, when
\* it is due and in the order of its stream: for any number of streams and ticks.
THEOREM TheTrackerIsFed == DemoSpec => []TrackerIsFed
<1>1. IngestInv /\ StreamsKeepOrder /\ DemoInv /\ [DemoNext]_allVars => DemoInv'
  <2> SUFFICES ASSUME IngestInv, StreamsKeepOrder, DemoInv, [DemoNext]_allVars
               PROVE  DemoInv'
    OBVIOUS
  <2>1. CASE CountWhenCalled
    BY <2>1, ElsewhereIsGood DEF CountWhenCalled, Count
  <2>2. CASE WorkerElsewhere
    <3>1. calling = <<>>
      BY <2>2 DEF WorkerElsewhere, LoopTest, Take, Leave, StartToWait, FallAsleep,
                  DemoInv, CallsBack
    <3>2. UNCHANGED demoVars /\ delivered' = delivered /\ calling' = calling
      BY <2>2 DEF WorkerElsewhere, LoopTest, Take, Leave, StartToWait, FallAsleep, demoVars
    <3>3. QED
      BY <3>1, <3>2, ElsewhereIsGood
  <2>3. CASE Subscribe
    <3>1. /\ main = "serving" /\ main' = "ticking"
          /\ UNCHANGED <<calling, incoming, buffer, now, fused, unheard, delivered, worker>>
      BY <2>3 DEF Subscribe, vars, workerVars
    <3>2. QED
      BY <3>1 DEF DemoInv, DemoTypeOK, CallsBack, ArrivesInOrder, Arrived, Arriving,
                  BufferIsSorted, EachFedOnce, OnTheWay, FedWhenDue, FedInOrder
  <2>4. CASE Unheeded
    <3>1. UNCHANGED demoVars /\ calling' = calling
      BY <2>4 DEF Unheeded, demoVars
    <3>2. delivered' = delivered /\ (worker = "count" => worker' = "count")
      BY <2>4 DEF Unheeded, Ingest, Check, FaultDrop, Enqueue, Woken, WakeForNoReason,
                  Destructor, NotifyAll, Join, workerVars
    <3>3. QED
      BY <3>1, <3>2, ElsewhereIsGood DEF DemoInv, CallsBack
  <2>5. CASE UNCHANGED allVars
    BY <2>5, ElsewhereIsGood DEF allVars, vars, workerVars, demoVars, DemoInv, CallsBack
  <2>6. QED
    BY <2>1, <2>2, <2>3, <2>4, <2>5, PublishIsGood, CallbackIsGood, ReturnIsGood, TickIsGood
       DEF DemoNext, DemoWorker
<1>2. DemoInv => TrackerIsFed
  BY DEF DemoInv, TrackerIsFed
<1>3. QED
  BY <1>1, <1>2, DemoInitIsGood, DemoRunsThePipeline, IngestInvariance,
     OrderThroughThePipeline, PTL DEF DemoSpec

=============================================================================
