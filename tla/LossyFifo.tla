----------------------------- MODULE LossyFifo ------------------------------
(***************************************************************************)
(* What the ingest pipeline promises between the streams that bring        *)
(* detections in and the subscribers of the measurements topic: what is    *)
(* delivered was offered, in the order it was offered, each at most once;  *)
(* and unless faults are injected, something is lost only when the backlog *)
(* is at its limit.                                                        *)
(***************************************************************************)
EXTENDS Sequences, SequencesExt, Naturals

CONSTANTS
  Messages,   \* what can be offered
  Limit       \* the backlog at which something may be lost

VARIABLES
  backlog,    \* offered, neither delivered nor lost
  delivered,  \* what the subscribers have got, in order
  lost,       \* how many were lost
  faulty      \* whether anything may be lost at any time, which never changes

channel == <<backlog, delivered, lost, faulty>>

FifoInit == backlog = <<>> /\ delivered = <<>> /\ lost = 0 /\ faulty \in BOOLEAN

MayLose == faulty \/ Len(backlog) >= Limit

Offer(m) ==
  /\ backlog' = Append(backlog, m)
  /\ UNCHANGED <<delivered, lost, faulty>>

\* The message offered or one of those waiting is lost.
OfferAndLose(m) ==
  /\ MayLose
  /\ \E k \in 1..Len(backlog) + 1 : backlog' = RemoveAt(Append(backlog, m), k)
  /\ lost' = lost + 1
  /\ UNCHANGED <<delivered, faulty>>

Deliver ==
  /\ backlog # <<>>
  /\ backlog' = Tail(backlog)
  /\ delivered' = Append(delivered, Head(backlog))
  /\ UNCHANGED <<lost, faulty>>

FifoNext == Deliver \/ \E m \in Messages : Offer(m) \/ OfferAndLose(m)

FifoSpec == FifoInit /\ [][FifoNext]_channel

=============================================================================
