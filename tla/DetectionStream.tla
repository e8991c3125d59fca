-------------------------- MODULE DetectionStream ---------------------------
(***************************************************************************)
(* A sensor node streams batches of detections to an ingest service, which *)
(* forwards them to the next one, and so on along a chain of services.     *)
(* The node drops, delays and swaps batches on purpose; any stream may     *)
(* break.                                                                  *)
(*                                                                         *)
(* Stream k leads to service k.  Its transport is gRPC: in order, without  *)
(* duplicates, and a write that is accepted may still be lost when the     *)
(* stream breaks or its reader has left.                                   *)
(***************************************************************************)
EXTENDS Integers, Sequences, FiniteSets, SequencesExt

CONSTANTS
  Hops,         \* number of services in the chain
  MaxBatches,   \* bound: batches the node produces
  Sizes         \* how many detections a batch may hold

ASSUME StreamAssumption ==
  /\ Hops \in Nat \ {0}
  /\ MaxBatches \in Nat
  /\ Sizes \subseteq Nat

VARIABLES
  node,       \* what the node is doing
  seq,        \* the next batch's number
  delayed,    \* delayed_batch, {} when there is none
  outbox,     \* the batches the node is about to write
  dropped,    \* history: the numbers the node dropped
  written,    \* history: the batches the node wrote, in order
  link,       \* each stream: open, closed by its writer, or broken
  wire,       \* batches under way on each stream
  service,    \* what the handler of each stream is doing
  held,       \* the batch the handler has read and not yet passed on
  log,        \* the batches each service's pipeline has ingested, in order
  lastSeq,    \* last_seq_by_sensor_ of each service, 0 when there is none
  outOfOrder  \* ingest_out_of_order_total of each service

nodeVars == <<node, seq, delayed, outbox, dropped, written>>
streamVars == <<link, wire>>
serviceVars == <<service, held, log, lastSeq, outOfOrder>>
vars == <<nodeVars, streamVars, serviceVars>>

Services == 1..Hops
Batch == [seq : 1..MaxBatches, size : Sizes]

NodeAt == {"run", "write", "flush", "close", "finish", "done", "failed"}
ServiceAt == {"read", "ingest", "forward", "close", "finish", "done"}

TypeOK ==
  /\ node \in NodeAt
  /\ seq \in 1..MaxBatches + 1
  /\ delayed \subseteq Batch /\ Cardinality(delayed) <= 1
  /\ outbox \in Seq(Batch) /\ Len(outbox) <= 2
  /\ dropped \subseteq 1..MaxBatches
  /\ written \in Seq(Batch)
  /\ link \in [Services -> {"open", "closed", "broken"}]
  /\ wire \in [Services -> Seq(Batch)]
  /\ service \in [Services -> ServiceAt]
  /\ held \in [Services -> SUBSET Batch]
  /\ log \in [Services -> Seq(Batch)]
  /\ lastSeq \in [Services -> 0..MaxBatches]
  /\ outOfOrder \in [Services -> Nat]

\* The number of the first batch.
FirstSeq == 1

Init ==
  /\ node = "run" /\ seq = FirstSeq /\ delayed = {} /\ outbox = <<>>
  /\ dropped = {} /\ written = <<>>
  /\ link = [k \in Services |-> "open"]
  /\ wire = [k \in Services |-> <<>>]
  /\ service = [k \in Services |-> "read"]
  /\ held = [k \in Services |-> {}]
  /\ log = [k \in Services |-> <<>>]
  /\ lastSeq = [k \in Services |-> 0]
  /\ outOfOrder = [k \in Services |-> 0]

-----------------------------------------------------------------------------
(***************************************************************************)
(* The transport.                                                          *)
(***************************************************************************)
Healthy(k) == link[k] = "open" /\ service[k] # "done"

\* A write to a stream that is not healthy may be accepted, to be lost.
Send(k, b) ==
  wire' = IF Healthy(k) THEN [wire EXCEPT ![k] = Append(@, b)] ELSE wire

\* Only then may it be refused.
Refused(k) == ~Healthy(k)

\* Mutant: the writer leaves its stream open.
NeverDone(k) == UNCHANGED link

WritesDone(k) ==
  link' = [link EXCEPT ![k] = IF @ = "open" THEN "closed" ELSE @]

\* A writer's Finish returns when the reader has answered or cannot any more.
Answered(k) == service[k] = "done" \/ link[k] = "broken"

Break(k) ==
  /\ link[k] # "broken" /\ service[k] # "done"
  /\ link' = [link EXCEPT ![k] = "broken"]
  /\ UNCHANGED <<nodeVars, wire, serviceVars>>

-----------------------------------------------------------------------------
(***************************************************************************)
(* sensor_node.                                                            *)
(***************************************************************************)

\* Mutant: the delayed batch is not given up when it is sent.
KeptDelayed == delayed

\* delayed_batch after it and the new batch have been sent.
AfterPair == {}

\* The next batch is dropped, held back, or sent: alone, or together with the
\* one held back and in either order.
Produce ==
  /\ node = "run"
  /\ seq <= MaxBatches
  /\ seq' = seq + 1
  /\ \E size \in Sizes :
       LET b == [seq |-> seq, size |-> size]
       IN  \/ /\ dropped' = dropped \cup {seq}
              /\ UNCHANGED <<node, delayed, outbox>>
           \/ /\ delayed = {} /\ delayed' = {b}
              /\ UNCHANGED <<node, outbox, dropped>>
           \/ /\ delayed = {} /\ outbox' = <<b>> /\ node' = "write"
              /\ UNCHANGED <<delayed, dropped>>
           \/ /\ \E d \in delayed : outbox' \in {<<b, d>>, <<d, b>>}
              /\ delayed' = AfterPair
              /\ node' = "write"
              /\ UNCHANGED dropped
  /\ UNCHANGED <<written, streamVars, serviceVars>>

Write ==
  /\ node = "write" /\ outbox # <<>>
  /\ Send(1, Head(outbox))
  /\ written' = Append(written, Head(outbox))
  /\ outbox' = Tail(outbox)
  /\ node' = IF Len(outbox) = 1 THEN "run" ELSE "write"
  /\ UNCHANGED <<seq, delayed, dropped, link, serviceVars>>

\* stream_failed: the node gives up, and what it holds back is lost.
WriteFails ==
  /\ node = "write" /\ Refused(1)
  /\ outbox' = <<>> /\ delayed' = {}
  /\ node' = "close"
  /\ UNCHANGED <<seq, dropped, written, streamVars, serviceVars>>

\* Mutant: the batch held back is forgotten.
ForgetDelayed == <<>>

HeldBack == SetToSeq(delayed)

\* After the last tick the batch held back is sent.
EndTicks ==
  /\ node = "run"
  /\ outbox' = HeldBack
  /\ delayed' = {}
  /\ node' = "flush"
  /\ UNCHANGED <<seq, dropped, written, streamVars, serviceVars>>

\* The result of that write is ignored.
Flush ==
  /\ node = "flush"
  /\ \/ outbox = <<>> /\ UNCHANGED <<written, wire>>
     \/ /\ outbox # <<>> /\ Send(1, Head(outbox))
        /\ written' = Append(written, Head(outbox))
     \/ outbox # <<>> /\ Refused(1) /\ UNCHANGED <<written, wire>>
  /\ outbox' = <<>>
  /\ node' = "close"
  /\ UNCHANGED <<seq, delayed, dropped, link, serviceVars>>

CloseStream ==
  /\ node = "close"
  /\ WritesDone(1)
  /\ node' = "finish"
  /\ UNCHANGED <<seq, delayed, outbox, dropped, written, wire, serviceVars>>

\* The exit status is that of the stream.
FinishStream ==
  /\ node = "finish" /\ Answered(1)
  /\ node' = IF link[1] = "broken" THEN "failed" ELSE "done"
  /\ UNCHANGED <<seq, delayed, outbox, dropped, written, streamVars, serviceVars>>

Node == Produce \/ Write \/ WriteFails \/ EndTicks \/ Flush \/ CloseStream \/ FinishStream

-----------------------------------------------------------------------------
(***************************************************************************)
(* StreamDetections of service k.                                          *)
(***************************************************************************)
Goto(k, from, to) ==
  service[k] = from /\ service' = [service EXCEPT ![k] = to]

Read(k) ==
  /\ Goto(k, "read", "ingest")
  /\ wire[k] # <<>>
  /\ held' = [held EXCEPT ![k] = {Head(wire[k])}]
  /\ wire' = [wire EXCEPT ![k] = Tail(@)]
  /\ UNCHANGED <<nodeVars, link, log, lastSeq, outOfOrder>>

ReadEnds(k) ==
  /\ Goto(k, "read", "close")
  /\ link[k] = "broken" \/ (link[k] = "closed" /\ wire[k] = <<>>)
  /\ UNCHANGED <<nodeVars, streamVars, held, log, lastSeq, outOfOrder>>

\* ingest_batch: every detection carries the number of its batch.
Ingest(k) ==
  /\ Goto(k, "ingest", IF k < Hops THEN "forward" ELSE "read")
  /\ \E b \in held[k] :
       /\ log' = [log EXCEPT ![k] = Append(@, b)]
       /\ lastSeq' = [lastSeq EXCEPT ![k] = IF b.size = 0 THEN @ ELSE b.seq]
       /\ outOfOrder' = [outOfOrder EXCEPT ![k] =
            @ + IF b.seq <= lastSeq[k] \/ b.size = 0 THEN b.size ELSE b.size - 1]
  /\ held' = IF k < Hops THEN held ELSE [held EXCEPT ![k] = {}]
  /\ UNCHANGED <<nodeVars, streamVars>>

\* A refused write ends the loop, and the handler still answers OK.
Forward(k) ==
  /\ k < Hops
  /\ \E b \in held[k] :
       \/ Goto(k, "forward", "read") /\ Send(k + 1, b)
       \/ Goto(k, "forward", "close") /\ Refused(k + 1) /\ UNCHANGED wire
  /\ held' = [held EXCEPT ![k] = {}]
  /\ UNCHANGED <<nodeVars, link, log, lastSeq, outOfOrder>>

CloseForward(k) ==
  /\ Goto(k, "close", IF k < Hops THEN "finish" ELSE "done")
  /\ IF k < Hops THEN WritesDone(k + 1) ELSE UNCHANGED link
  /\ UNCHANGED <<nodeVars, wire, held, log, lastSeq, outOfOrder>>

FinishForward(k) ==
  /\ Goto(k, "finish", "done")
  /\ Answered(k + 1)
  /\ UNCHANGED <<nodeVars, streamVars, held, log, lastSeq, outOfOrder>>

Service(k) ==
  \/ Read(k) \/ ReadEnds(k) \/ Ingest(k)
  \/ Forward(k) \/ CloseForward(k) \/ FinishForward(k)

Finished == node \in {"done", "failed"} /\ \A k \in Services : service[k] = "done"

Stopped == Finished /\ UNCHANGED vars

Next ==
  \/ Node
  \/ \E k \in Services : Service(k)
  \/ \E k \in Services : Break(k)
  \/ Stopped

Spec == Init /\ [][Next]_vars

\* Every process runs on.
FairSpec == Spec /\ WF_vars(Node) /\ \A k \in Services : WF_vars(Service(k))

-----------------------------------------------------------------------------
(***************************************************************************)
(* Properties.                                                             *)
(***************************************************************************)

\* Whatever breaks, a service has ingested a prefix of what the one before it
\* has, and the first a prefix of what the node wrote: nothing is skipped,
\* swapped or repeated under way.
PrefixesAlongTheChain ==
  /\ IsPrefix(log[1], written)
  /\ \A k \in 1..Hops - 1 : IsPrefix(log[k + 1], log[k])

\* The node writes no batch twice, and swaps are all the disorder it makes: a
\* batch is overtaken by one other at most.
OvertakenOnceAtMost ==
  \A j \in DOMAIN written :
    /\ \A l \in DOMAIN written : written[j].seq = written[l].seq => j = l
    /\ Cardinality({l \in 1..j - 1 : written[l].seq > written[j].seq}) <= 1

\* The order along the whole way: the node's single swaps, and nothing else.
OnlySwapsOnTheWay == PrefixesAlongTheChain /\ OvertakenOnceAtMost

\* A node that has ended with success has written every batch it did not mean to
\* drop, if its writes were never refused; and unless a stream further on broke,
\* every service has ingested all of them.
SuccessIsDelivery ==
  node = "done" /\ (\A k \in Services : link[k] # "broken") =>
    /\ {written[j].seq : j \in DOMAIN written} = (1..seq - 1) \ dropped
    /\ \A k \in Services : log[k] = written

\* The node and every service end, although each waits for the next.
AllFinish == <>Finished

\* The triage guide's reading of the counter: out-of-order detections come
\* from bursts and reordering, so a stream in order counts none.
InOrderCountsNone ==
  \A k \in Services :
    (\A j, l \in DOMAIN log[k] : j < l => log[k][j].seq < log[k][l].seq)
      => outOfOrder[k] = 0

=============================================================================
