----------------------- MODULE DetectionStreamProofs ------------------------
(***************************************************************************)
(* What reaches the services is what the node wrote, in the order it was   *)
(* written: for any length of the chain, any number of batches, and        *)
(* whatever breaks.                                                        *)
(***************************************************************************)
EXTENDS DetectionStream, Induction

-----------------------------------------------------------------------------
(***************************************************************************)
(* The invariant.                                                          *)
(***************************************************************************)

TheOne(bs) == CHOOSE b \in Batch : bs = {b}

\* What handler k has in hand, and what is under way to it.
Coming(k) == IF service[k] = "ingest" THEN <<TheOne(held[k])>> \o wire[k] ELSE wire[k]

Received(k) == log[k] \o Coming(k)

\* What the writer of stream k has handed to it, lost or not.
PassedOn(j) == IF service[j] = "forward" THEN Front(log[j]) ELSE log[j]
Sent(k) == IF k = 1 THEN written ELSE PassedOn(k - 1)

WriterLeft(k) ==
  IF k = 1 THEN node \in {"finish", "done", "failed"} ELSE service[k - 1] \in {"finish", "done"}

\* A handler holds the batch it has read until it has passed it on.
HandlersHold ==
  \A k \in Services :
    /\ service[k] = "ingest" => \E b \in Batch : held[k] = {b}
    /\ service[k] = "forward" => log[k] # <<>> /\ held[k] = {Last(log[k])}

\* A stream loses its end only, and nothing as long as it is healthy.
LosesItsEndOnly ==
  \A k \in Services :
    /\ IsPrefix(Received(k), Sent(k))
    /\ Healthy(k) => Received(k) = Sent(k)

\* A stream is closed by its writer, on its way out.
ClosedByWriter ==
  \A k \in Services : link[k] # "broken" => (link[k] = "closed" <=> WriterLeft(k))

Sound == \A k \in Services : link[k] # "broken"

\* As long as no stream has broken none loses anything, a handler leaves only
\* when it has read all, and is done only when those behind it are.
SoundLosesNothing ==
  Sound =>
    /\ \A k \in Services :
         /\ Received(k) = Sent(k)
         /\ service[k] \in {"close", "finish", "done"} => link[k] = "closed" /\ wire[k] = <<>>
         /\ service[k] = "done" => \A l \in k..Hops : service[l] = "done"
    /\ node = "done" => service[1] = "done"

\* What the node has written and is about to.
Way == written \o outbox

\* A batch held back is newer than all on their way w, no number is there twice,
\* and each batch is overtaken by one other at most.
OnlySwaps(w, ds, next, gone) ==
  /\ \A j \in DOMAIN w : w[j].seq < next /\ w[j].seq \notin gone
  /\ \A j, l \in DOMAIN w : w[j].seq = w[l].seq => j = l
  /\ \A j \in DOMAIN w : \A l, m \in 1..j - 1 :
       w[l].seq > w[j].seq /\ w[m].seq > w[j].seq => l = m
  /\ \A d \in ds :
       /\ d.seq < next /\ d.seq \notin gone
       /\ \A j \in DOMAIN w : w[j].seq < d.seq

SwapsOnly == OnlySwaps(Way, delayed, seq, dropped)

\* The numbers of the batches of a sequence.
Numbers(w) == {w[j].seq : j \in DOMAIN w}

\* Every batch is dropped, held back, or on its way, unless a write was refused.
AllNumbered ==
  /\ dropped \subseteq 1..seq - 1
  /\ Sound => 1..seq - 1 \subseteq dropped \cup Numbers(Way) \cup {d.seq : d \in delayed}

\* When the node has something to write, and when it may hold a batch back.
Phases ==
  /\ delayed = {} \/ \E d \in Batch : delayed = {d}
  /\ node \in {"run", "close", "finish", "done", "failed"} => outbox = <<>>
  /\ node = "flush" => Len(outbox) <= 1
  /\ node # "run" => delayed = {}

NodeInv == Phases /\ SwapsOnly /\ AllNumbered
LinkInv == HandlersHold /\ LosesItsEndOnly /\ ClosedByWriter /\ SoundLosesNothing
StreamInv == TypeOK /\ NodeInv /\ LinkInv

-----------------------------------------------------------------------------
(***************************************************************************)
(* Prefixes.                                                               *)
(***************************************************************************)

\* A prefix, index by index.
LEMMA PrefixByIndex ==
  ASSUME NEW S, NEW s \in Seq(S), NEW t \in Seq(S)
  PROVE  IsPrefix(s, t) <=> Len(s) <= Len(t) /\ \A i \in 1..Len(s) : s[i] = t[i]
<1>1. CASE ~(Len(s) <= Len(t))
  BY <1>1 DEF IsPrefix
<1>2. CASE Len(s) <= Len(t)
  <2> DEFINE cut == SubSeq(t, 1, Len(s))
  <2>1. SubSeq(s, 1, Len(s)) = s
    BY SubSeqFull
  <2>2. cut \in Seq(S) /\ Len(cut) = Len(s) /\ \A i \in 1..Len(s) : cut[i] = t[i]
    BY <1>2, SubSeqProperties
  <2>3. s = cut <=> \A i \in 1..Len(s) : s[i] = cut[i]
    <3> HIDE DEF cut
    <3> QED
      BY <2>2, SeqEqual
  <2>4. QED
    BY <1>2, <2>1, <2>2, <2>3 DEF IsPrefix
<1>3. QED
  BY <1>1, <1>2

\* A sequence is a prefix of itself.
LEMMA PrefixOfItself ==
  ASSUME NEW S, NEW s \in Seq(S)
  PROVE  IsPrefix(s, s)
BY PrefixByIndex

\* A prefix of a prefix is one.
LEMMA PrefixOfPrefix ==
  ASSUME NEW S, NEW s \in Seq(S), NEW t \in Seq(S), NEW u \in Seq(S),
         IsPrefix(s, t), IsPrefix(t, u)
  PROVE  IsPrefix(s, u)
<1>1. Len(s) <= Len(t) /\ Len(t) <= Len(u)
  BY PrefixByIndex
<1>2. ASSUME NEW i \in 1..Len(s) PROVE s[i] = u[i]
  BY <1>1, PrefixByIndex
<1>3. QED
  BY <1>1, <1>2, PrefixByIndex

\* What comes before something else is a prefix of the whole.
LEMMA PrefixOfConcat ==
  ASSUME NEW S, NEW s \in Seq(S), NEW t \in Seq(S)
  PROVE  IsPrefix(s, s \o t)
<1> DEFINE whole == s \o t
<1>1. whole \in Seq(S) /\ Len(whole) = Len(s) + Len(t)
  BY ConcatProperties
<1>2. \A i \in 1..Len(s) : whole[i] = s[i]
  BY ConcatProperties
<1> HIDE DEF whole
<1>3. IsPrefix(s, whole)
  BY <1>1, <1>2, PrefixByIndex
<1>4. QED
  BY <1>3 DEF whole

\* It is one of what the whole grows to.
LEMMA PrefixOfLonger ==
  ASSUME NEW S, NEW s \in Seq(S), NEW t \in Seq(S), NEW e \in S, IsPrefix(s, t)
  PROVE  IsPrefix(s, Append(t, e))
<1> DEFINE whole == Append(t, e)
<1>1. whole \in Seq(S) /\ Len(whole) = Len(t) + 1
  BY AppendProperties
<1>2. \A i \in 1..Len(t) : whole[i] = t[i]
  BY AppendProperties
<1> HIDE DEF whole
<1>3. IsPrefix(t, whole)
  BY <1>1, <1>2, PrefixByIndex
<1>4. IsPrefix(s, whole)
  BY <1>1, <1>3, PrefixOfPrefix
<1>5. QED
  BY <1>4 DEF whole

\* All but the last is a prefix, and what the last was appended to.
LEMMA FrontAndLast ==
  ASSUME NEW S, NEW s \in Seq(S)
  PROVE  /\ Front(s) \in Seq(S)
         /\ IsPrefix(Front(s), s)
         /\ s # <<>> => Append(Front(s), Last(s)) = s
         /\ \A e \in S : Front(Append(s, e)) = s /\ Last(Append(s, e)) = e
<1>1. /\ Front(s) \in Seq(S)
      /\ Len(Front(s)) = IF Len(s) = 0 THEN 0 ELSE Len(s) - 1
      /\ \A i \in 1..Len(s) - 1 : Front(s)[i] = s[i]
  BY SubSeqProperties DEF Front
<1>2. IsPrefix(Front(s), s)
  BY <1>1, PrefixByIndex
<1>3. ASSUME s # <<>> PROVE Append(Front(s), Last(s)) = s
  <2>1. Len(s) > 0 /\ Last(s) \in S
    BY <1>3 DEF Last
  <2>2. /\ Append(Front(s), Last(s)) \in Seq(S)
        /\ Len(Append(Front(s), Last(s))) = Len(s)
    BY <1>1, <2>1, AppendProperties
  <2>3. \A i \in 1..Len(s) : Append(Front(s), Last(s))[i] = s[i]
    BY <1>1, <2>1, AppendProperties DEF Last
  <2>4. QED
    BY <2>2, <2>3, SeqEqual
<1>4. ASSUME NEW e \in S PROVE Front(Append(s, e)) = s /\ Last(Append(s, e)) = e
  <2> DEFINE a == Append(s, e)
  <2>1. /\ a \in Seq(S) /\ Len(a) = Len(s) + 1
        /\ \A i \in 1..Len(s) : a[i] = s[i]
        /\ a[Len(s) + 1] = e
    BY AppendProperties
  <2> HIDE DEF a
  <2>2. /\ Front(a) \in Seq(S) /\ Len(Front(a)) = Len(s)
        /\ \A i \in 1..Len(s) : Front(a)[i] = s[i]
    BY <2>1, SubSeqProperties DEF Front
  <2>3. Front(a) = s
    BY <2>2, SeqEqual
  <2>4. QED
    BY <2>1, <2>3 DEF a, Last
<1>5. QED
  BY <1>1, <1>2, <1>3, <1>4

-----------------------------------------------------------------------------
(***************************************************************************)
(* Types.                                                                  *)
(***************************************************************************)

\* The batch held back is all there is to flush.
LEMMA HeldBackIs ==
  /\ delayed = {} => HeldBack = <<>>
  /\ \A d : delayed = {d} => HeldBack = <<d>>
<1>1. ASSUME delayed = {} PROVE HeldBack = <<>>
  <2>1. Cardinality({}) = 0
    BY FS_EmptySet
  <2>2. <<>> \in [1..0 -> {}] /\ IsInjective(<<>>)
    BY DEF IsInjective
  <2>3. \A f \in [1..0 -> {}] : f = <<>>
    BY IsASeq, EmptySeq
  <2>4. QED
    BY <1>1, <2>1, <2>2, <2>3 DEF HeldBack, SetToSeq
<1>2. ASSUME NEW d, delayed = {d} PROVE HeldBack = <<d>>
  <2>1. Cardinality({d}) = 1
    BY FS_Singleton
  <2>2. <<d>> \in [1..1 -> {d}] /\ IsInjective(<<d>>)
    BY DEF IsInjective
  <2>3. \A f \in [1..1 -> {d}] : f = <<d>>
    OBVIOUS
  <2>4. QED
    BY <1>2, <2>1, <2>2, <2>3 DEF HeldBack, SetToSeq
<1>3. QED
  BY <1>1, <1>2

\* The first service of the chain.
LEMMA FirstService == Hops \in Nat /\ 1 \in Services
BY StreamAssumption DEF Services

\* What a stream carries, and what a service has ingested.
LEMMA LinkTypes ==
  ASSUME TypeOK, NEW k \in Services
  PROVE  wire[k] \in Seq(Batch) /\ log[k] \in Seq(Batch) /\ held[k] \subseteq Batch
BY DEF TypeOK

\* A send leaves batches on every stream.
LEMMA SendTypes ==
  ASSUME TypeOK, NEW k \in Services, NEW b \in Batch, Send(k, b)
  PROVE  wire' \in [Services -> Seq(Batch)]
BY DEF TypeOK, Send

\* A writer that leaves changes no stream but into a closed one.
LEMMA WritesDoneTypes ==
  ASSUME TypeOK, NEW k \in Services, WritesDone(k)
  PROVE  link' \in [Services -> {"open", "closed", "broken"}]
BY DEF TypeOK, WritesDone

\* A step of a handler leaves it at some point of its code.
LEMMA GotoTypes ==
  ASSUME TypeOK, NEW k \in Services, NEW from, NEW to \in ServiceAt, Goto(k, from, to)
  PROVE  service' \in [Services -> ServiceAt]
BY DEF TypeOK, Goto

\* The beginning.
LEMMA TypesAtFirst == Init => TypeOK
<1> SUFFICES ASSUME Init
             PROVE  TypeOK
  OBVIOUS
<1>1. Cardinality(delayed) <= 1
  BY FS_EmptySet DEF Init
<1>2. QED
  BY <1>1, StreamAssumption DEF Init, TypeOK, FirstSeq, NodeAt, ServiceAt, Batch

\* The steps of the node.
LEMMA TypesAfterNode ==
  ASSUME TypeOK, Phases, Node
  PROVE  TypeOK'
<1> USE FirstService, StreamAssumption DEF nodeVars, streamVars, serviceVars, NodeAt
<1>1. CASE Produce
  <2>1. PICK size \in Sizes :
          LET b == [seq |-> seq, size |-> size]
          IN  \/ /\ dropped' = dropped \cup {seq}
                 /\ UNCHANGED <<node, delayed, outbox>>
              \/ /\ delayed = {} /\ delayed' = {b}
                 /\ UNCHANGED <<node, outbox, dropped>>
              \/ /\ delayed = {} /\ outbox' = <<b>> /\ node' = "write"
                 /\ UNCHANGED <<delayed, dropped>>
              \/ /\ \E d \in delayed : outbox' \in {<<b, d>>, <<d, b>>}
                 /\ delayed' = AfterPair
                 /\ node' = "write"
                 /\ UNCHANGED dropped
    BY <1>1 DEF Produce
  <2> DEFINE b == [seq |-> seq, size |-> size]
  <2>2. b \in Batch /\ seq \in 1..MaxBatches
    BY <1>1 DEF TypeOK, Batch, Produce
  <2>3. Cardinality(delayed') <= 1 /\ delayed' \subseteq Batch
    <3> HIDE DEF b
    <3>1. Cardinality({b}) = 1 /\ Cardinality({}) = 0
      BY FS_Singleton, FS_EmptySet
    <3>2. delayed' \in {delayed, {b}, {}}
      BY <2>1 DEF b, AfterPair
    <3>3. delayed \subseteq Batch /\ Cardinality(delayed) <= 1
      BY DEF TypeOK
    <3>4. CASE delayed' = {b}
      BY <2>2, <3>1, <3>4
    <3>5. CASE delayed' = {}
      BY <3>1, <3>5
    <3>6. QED
      BY <3>2, <3>3, <3>4, <3>5
  <2>4. outbox' \in Seq(Batch) /\ Len(outbox') <= 2
    <3> HIDE DEF b
    <3>1. outbox' \in {outbox, <<b>>} \/ \E d \in delayed : outbox' \in {<<b, d>>, <<d, b>>}
      BY <2>1 DEF b
    <3>2. delayed \subseteq Batch /\ outbox \in Seq(Batch) /\ Len(outbox) <= 2
      BY DEF TypeOK
    <3>3. \A d \in Batch : /\ <<b>> \in Seq(Batch) /\ Len(<<b>>) = 1
                           /\ <<b, d>> \in Seq(Batch) /\ Len(<<b, d>>) = 2
                           /\ <<d, b>> \in Seq(Batch) /\ Len(<<d, b>>) = 2
      BY <2>2
    <3>4. CASE outbox' = outbox
      BY <3>2, <3>4
    <3>5. CASE outbox' = <<b>>
      BY <2>2, <3>3, <3>5
    <3>6. ASSUME NEW d \in Batch, outbox' = <<b, d>> \/ outbox' = <<d, b>>
          PROVE  outbox' \in Seq(Batch) /\ Len(outbox') <= 2
      <4>1. CASE outbox' = <<b, d>>
        BY <3>3, <4>1
      <4>2. CASE outbox' = <<d, b>>
        BY <3>3, <4>2
      <4>3. QED
        BY <3>6, <4>1, <4>2
    <3>7. QED
      BY <3>1, <3>2, <3>4, <3>5, <3>6
  <2>5. seq' \in 1..MaxBatches + 1
    BY <1>1, <2>2 DEF Produce
  <2>6. dropped' \subseteq 1..MaxBatches
    BY <2>1, <2>2 DEF TypeOK
  <2>7. node' \in NodeAt
    BY <2>1 DEF TypeOK
  <2>8. QED
    BY <1>1, <2>3, <2>4, <2>5, <2>6, <2>7 DEF TypeOK, Produce
<1>2. CASE Write
  <2>1. Head(outbox) \in Batch /\ Tail(outbox) \in Seq(Batch) /\ Len(Tail(outbox)) <= 2
    BY <1>2 DEF TypeOK, Write
  <2>2. wire' \in [Services -> Seq(Batch)]
    BY <1>2, <2>1, SendTypes DEF Write
  <2>3. QED
    BY <1>2, <2>1, <2>2, SMTT(30) DEF TypeOK, Write
<1>3. CASE WriteFails
  BY <1>3, FS_EmptySet DEF TypeOK, WriteFails
<1>4. CASE EndTicks
  <2>1. HeldBack \in Seq(Batch) /\ Len(HeldBack) <= 2
    <3>1. CASE delayed = {}
      BY <3>1, HeldBackIs
    <3>2. ASSUME NEW d \in Batch, delayed = {d}
          PROVE  HeldBack \in Seq(Batch) /\ Len(HeldBack) <= 2
      <4>1. HeldBack = <<d>>
        BY <3>2, HeldBackIs
      <4>2. QED
        BY <4>1
    <3>3. QED
      BY <3>1, <3>2 DEF Phases
  <2>2. Cardinality(delayed') = 0
    BY <1>4, FS_EmptySet DEF EndTicks
  <2>3. QED
    BY <1>4, <2>1, <2>2 DEF TypeOK, EndTicks
<1>5. CASE Flush
  <2>1. outbox # <<>> => Head(outbox) \in Batch
    BY DEF TypeOK
  <2>2. wire' \in [Services -> Seq(Batch)] /\ written' \in Seq(Batch)
    <3>1. CASE UNCHANGED <<written, wire>>
      BY <3>1 DEF TypeOK
    <3>2. CASE outbox # <<>> /\ Send(1, Head(outbox)) /\ written' = Append(written, Head(outbox))
      BY <3>2, <2>1, SendTypes DEF TypeOK
    <3>3. QED
      BY <1>5, <3>1, <3>2 DEF Flush
  <2>3. QED
    BY <1>5, <2>2, SMTT(30) DEF TypeOK, Flush
<1>6. CASE CloseStream
  BY <1>6, WritesDoneTypes DEF TypeOK, CloseStream
<1>7. CASE FinishStream
  BY <1>7 DEF TypeOK, FinishStream
<1>8. QED
  BY <1>1, <1>2, <1>3, <1>4, <1>5, <1>6, <1>7 DEF Node

\* The steps of a handler.
LEMMA TypesAfterService ==
  ASSUME TypeOK, NEW k \in Services, Service(k)
  PROVE  TypeOK'
<1> USE FirstService, StreamAssumption, LinkTypes DEF nodeVars, streamVars, serviceVars, ServiceAt
<1>1. CASE Read(k)
  <2>1. service' \in [Services -> ServiceAt]
    BY <1>1, GotoTypes DEF Read
  <2>2. Head(wire[k]) \in Batch /\ Tail(wire[k]) \in Seq(Batch)
    BY <1>1 DEF Read
  <2>3. QED
    BY <1>1, <2>1, <2>2 DEF TypeOK, Read
<1>2. CASE ReadEnds(k)
  <2>1. service' \in [Services -> ServiceAt]
    BY <1>2, GotoTypes DEF ReadEnds
  <2>2. QED
    BY <1>2, <2>1 DEF TypeOK, ReadEnds
<1>3. CASE Ingest(k)
  <2>1. service' \in [Services -> ServiceAt]
    <3>1. (IF k < Hops THEN "forward" ELSE "read") \in ServiceAt
      OBVIOUS
    <3>2. QED
      BY <1>3, <3>1, GotoTypes DEF Ingest
  <2>2. PICK b \in held[k] :
       /\ log' = [log EXCEPT ![k] = Append(@, b)]
       /\ lastSeq' = [lastSeq EXCEPT ![k] = IF b.size = 0 THEN @ ELSE b.seq]
       /\ outOfOrder' = [outOfOrder EXCEPT ![k] =
            @ + IF b.seq <= lastSeq[k] \/ b.size = 0 THEN b.size ELSE b.size - 1]
    BY <1>3 DEF Ingest
  <2>3. b \in Batch /\ b.seq \in 1..MaxBatches /\ b.size \in Nat
    BY <2>2 DEF Batch
  <2>4. log' \in [Services -> Seq(Batch)]
    BY <2>2, <2>3 DEF TypeOK
  <2>5. lastSeq' \in [Services -> 0..MaxBatches]
    <3>1. lastSeq \in [Services -> 0..MaxBatches] /\ b.seq \in 0..MaxBatches
      BY <2>3, SMTT(30) DEF TypeOK
    <3>2. QED
      BY <2>2, <3>1
  <2>6. outOfOrder' \in [Services -> Nat]
    <3> DEFINE more == IF b.seq <= lastSeq[k] \/ b.size = 0 THEN b.size ELSE b.size - 1
    <3>1. more \in Nat
      BY <2>3
    <3>2. outOfOrder \in [Services -> Nat] /\ outOfOrder' = [outOfOrder EXCEPT ![k] = @ + more]
      BY <2>2 DEF TypeOK
    <3> HIDE DEF more
    <3>3. QED
      BY <3>1, <3>2
  <2>7. held' \in [Services -> SUBSET Batch]
    BY <1>3 DEF TypeOK, Ingest
  <2>8. QED
    BY <1>3, <2>1, <2>4, <2>5, <2>6, <2>7 DEF TypeOK, Ingest
<1>4. CASE Forward(k)
  <2>1. service' \in [Services -> ServiceAt]
    BY <1>4, GotoTypes DEF Forward
  <2>2. k + 1 \in Services
    BY <1>4, StreamAssumption DEF Forward, Services
  <2>3. wire' \in [Services -> Seq(Batch)]
    BY <1>4, <2>2, SendTypes DEF Forward, TypeOK
  <2>4. QED
    BY <1>4, <2>1, <2>3 DEF TypeOK, Forward
<1>5. CASE CloseForward(k)
  <2>1. service' \in [Services -> ServiceAt]
    <3>1. (IF k < Hops THEN "finish" ELSE "done") \in ServiceAt
      OBVIOUS
    <3>2. QED
      BY <1>5, <3>1, GotoTypes DEF CloseForward
  <2>2. link' \in [Services -> {"open", "closed", "broken"}]
    <3>1. k < Hops => k + 1 \in Services
      BY DEF Services
    <3>2. QED
      BY <1>5, <3>1, WritesDoneTypes DEF CloseForward, TypeOK
  <2>3. QED
    BY <1>5, <2>1, <2>2 DEF TypeOK, CloseForward
<1>6. CASE FinishForward(k)
  <2>1. service' \in [Services -> ServiceAt]
    BY <1>6, GotoTypes DEF FinishForward
  <2>2. QED
    BY <1>6, <2>1 DEF TypeOK, FinishForward
<1>7. QED
  BY <1>1, <1>2, <1>3, <1>4, <1>5, <1>6 DEF Service

\* Any step.
LEMMA TypesAfterStep ==
  ASSUME TypeOK, Phases, [Next]_vars
  PROVE  TypeOK'
<1>1. CASE Node
  BY <1>1, TypesAfterNode
<1>2. ASSUME NEW k \in Services, Service(k) PROVE TypeOK'
  BY <1>2, TypesAfterService
<1>3. ASSUME NEW k \in Services, Break(k) PROVE TypeOK'
  BY <1>3 DEF TypeOK, Break, nodeVars, serviceVars
<1>4. CASE UNCHANGED vars
  BY <1>4 DEF TypeOK, vars, nodeVars, streamVars, serviceVars
<1>5. QED
  BY <1>1, <1>2, <1>3, <1>4 DEF Next, Stopped

-----------------------------------------------------------------------------
(***************************************************************************)
(* The streams.                                                            *)
(***************************************************************************)

\* What a step does to a stream: nothing that counts, or its writer hands it a
\* batch, which is lost if it is not healthy.
Rests(k) == Sent(k)' = Sent(k) /\ Received(k)' = Received(k)

Carries(k) ==
  /\ ~WriterLeft(k)
  /\ \E b \in Batch :
       /\ Sent(k)' = Append(Sent(k), b)
       /\ Received(k)' = IF Healthy(k) THEN Append(Received(k), b) ELSE Received(k)

\* Appending to the second of two sequences appends to both together.
LEMMA AppendToSecond ==
  ASSUME NEW S, NEW s \in Seq(S), NEW t \in Seq(S), NEW e \in S
  PROVE  s \o Append(t, e) = Append(s \o t, e)
<1>1. s \o t \in Seq(S) /\ <<e>> \in Seq(S)
  BY ConcatProperties
<1>2. Append(t, e) = t \o <<e>> /\ Append(s \o t, e) = (s \o t) \o <<e>>
  BY <1>1, AppendIsConcat
<1>3. QED
  BY <1>1, <1>2, ConcatAssociative

\* What has reached a handler, and what its writer handed over, are batches.
LEMMA StreamTypes ==
  ASSUME TypeOK, HandlersHold, NEW k \in Services
  PROVE  /\ Coming(k) \in Seq(Batch)
         /\ Received(k) \in Seq(Batch)
         /\ Sent(k) \in Seq(Batch)
         /\ \A b \in Batch : service[k] = "ingest" /\ held[k] = {b} =>
              Coming(k) = <<b>> \o wire[k]
<1>1. ASSUME NEW b \in Batch, held[k] = {b} PROVE TheOne(held[k]) = b
  BY <1>1 DEF TheOne
<1>2. Coming(k) \in Seq(Batch)
  <2>1. CASE service[k] = "ingest"
    <3>1. PICK b \in Batch : held[k] = {b}
      BY <2>1 DEF HandlersHold
    <3>2. <<b>> \in Seq(Batch) /\ wire[k] \in Seq(Batch)
      BY LinkTypes
    <3>3. Coming(k) = <<b>> \o wire[k]
      BY <1>1, <2>1, <3>1 DEF Coming
    <3>4. QED
      BY <3>2, <3>3, ConcatProperties
  <2>2. CASE service[k] # "ingest"
    BY <2>2, LinkTypes DEF Coming
  <2>3. QED
    BY <2>1, <2>2
<1>3. Received(k) \in Seq(Batch)
  BY <1>2, LinkTypes, ConcatProperties DEF Received
<1>4. Sent(k) \in Seq(Batch)
  <2>1. CASE k = 1
    BY <2>1 DEF Sent, TypeOK
  <2>2. CASE k # 1
    <3>1. k - 1 \in Services
      BY <2>2, StreamAssumption DEF Services
    <3>2. log[k - 1] \in Seq(Batch) /\ Front(log[k - 1]) \in Seq(Batch)
      BY <3>1, LinkTypes, FrontAndLast
    <3>3. QED
      BY <2>2, <3>2 DEF Sent, PassedOn
  <2>3. QED
    BY <2>1, <2>2
<1>5. QED
  BY <1>1, <1>2, <1>3, <1>4 DEF Coming

\* A batch sent arrives behind all others, if the stream is healthy.
LEMMA SendReaches ==
  ASSUME TypeOK, HandlersHold, NEW k \in Services, NEW b \in Batch, Send(k, b),
         log'[k] = log[k], held'[k] = held[k],
         service'[k] = service[k]
  PROVE  Received(k)' = IF Healthy(k) THEN Append(Received(k), b) ELSE Received(k)
<1>1. CASE Healthy(k)
  <2>1. wire'[k] = Append(wire[k], b)
    BY <1>1 DEF Send, TypeOK
  <2>2. Coming(k)' = Append(Coming(k), b)
    <3>1. CASE service[k] = "ingest"
      <4>1. PICK c \in Batch : held[k] = {c}
        BY <3>1 DEF HandlersHold
      <4>2. TheOne(held[k]) = c
        BY <4>1 DEF TheOne
      <4>3. <<c>> \in Seq(Batch) /\ wire[k] \in Seq(Batch)
        BY LinkTypes
      <4>4. Coming(k) = <<c>> \o wire[k] /\ Coming(k)' = <<c>> \o Append(wire[k], b)
        BY <2>1, <3>1, <4>2 DEF Coming
      <4>5. QED
        BY <4>3, <4>4, AppendToSecond
    <3>2. CASE service[k] # "ingest"
      BY <2>1, <3>2 DEF Coming
    <3>3. QED
      BY <3>1, <3>2
  <2>3. Coming(k) \in Seq(Batch) /\ log[k] \in Seq(Batch)
    BY StreamTypes, LinkTypes
  <2>4. \A s, t \in Seq(Batch) : s \o Append(t, b) = Append(s \o t, b)
    BY AppendToSecond
  <2>5. QED
    BY <1>1, <2>2, <2>3, <2>4 DEF Received
<1>2. CASE ~Healthy(k)
  BY <1>2 DEF Send, Received, Coming
<1>3. QED
  BY <1>1, <1>2

\* A step of the node, on any stream.
LEMMA NodeOnLink ==
  ASSUME TypeOK, HandlersHold, Node, NEW k \in Services
  PROVE  Rests(k) \/ Carries(k)
<1>1. UNCHANGED serviceVars
  BY DEF Node, Produce, Write, WriteFails, EndTicks, Flush, CloseStream, FinishStream
<1>2. ASSUME k = 1 => UNCHANGED written, wire'[k] = wire[k]
      PROVE  Rests(k)
  BY <1>1, <1>2 DEF Rests, Sent, PassedOn, Received, Coming, serviceVars
<1>3. ASSUME outbox # <<>>, Send(1, Head(outbox)), written' = Append(written, Head(outbox)),
             node \in {"write", "flush"}
      PROVE  Rests(k) \/ Carries(k)
  <2>1. CASE k = 1
    <3>1. Head(outbox) \in Batch
      BY <1>3 DEF TypeOK
    <3>2. Received(1)' =
            IF Healthy(1) THEN Append(Received(1), Head(outbox)) ELSE Received(1)
      BY <1>1, <1>3, <3>1, FirstService, SendReaches DEF serviceVars
    <3>3. ~WriterLeft(1) /\ Sent(1)' = Append(Sent(1), Head(outbox))
      BY <1>3 DEF WriterLeft, Sent
    <3>4. QED
      BY <2>1, <3>1, <3>2, <3>3 DEF Carries
  <2>2. CASE k # 1
    <3>1. wire'[k] = wire[k]
      BY <1>3, <2>2, FirstService DEF Send, TypeOK
    <3>2. QED
      BY <1>2, <2>2, <3>1
  <2>3. QED
    BY <2>1, <2>2
<1>4. CASE Write
  BY <1>3, <1>4 DEF Write
<1>5. CASE Flush
  BY <1>2, <1>3, <1>5 DEF Flush
<1>6. CASE Produce \/ WriteFails \/ EndTicks \/ CloseStream \/ FinishStream
  BY <1>2, <1>6 DEF Produce, WriteFails, EndTicks, CloseStream, FinishStream, streamVars
<1>7. QED
  BY <1>4, <1>5, <1>6 DEF Node

\* A handler's step leaves the other handlers alone.
LEMMA OthersRest ==
  ASSUME TypeOK, NEW j \in Services, Service(j), NEW k \in Services, k # j
  PROVE  service'[k] = service[k] /\ held'[k] = held[k] /\ log'[k] = log[k]
BY DEF TypeOK, Service, Goto, Read, ReadEnds, Ingest, Forward, CloseForward, FinishForward

\* A stream neither whose writer nor whose reader takes the step rests.
LEMMA OtherLinksRest ==
  ASSUME TypeOK, NEW j \in Services, Service(j), NEW k \in Services, k # j, k # j + 1
  PROVE  Rests(k)
<1>1. wire'[k] = wire[k] /\ UNCHANGED written
  BY DEF TypeOK, Service, nodeVars, streamVars, Send, Read, ReadEnds, Ingest, Forward, CloseForward, FinishForward
<1>2. Received(k)' = Received(k)
  BY <1>1, OthersRest DEF Received, Coming
<1>3. k # 1 => k - 1 \in Services /\ k - 1 # j
  BY StreamAssumption DEF Services
<1>4. Sent(k)' = Sent(k)
  BY <1>1, <1>3, OthersRest DEF Sent, PassedOn
<1>5. QED
  BY <1>2, <1>4 DEF Rests

\* What has reached a handler does not change when it takes a step itself.
LEMMA ReaderOnLink ==
  ASSUME TypeOK, HandlersHold, NEW k \in Services, Service(k)
  PROVE  Received(k)' = Received(k)
<1>1. /\ wire[k] \in Seq(Batch) /\ log[k] \in Seq(Batch)
      /\ k \in DOMAIN service /\ k \in DOMAIN wire /\ k \in DOMAIN log /\ k \in DOMAIN held
  BY LinkTypes DEF TypeOK
<1>2. CASE Read(k)
  <2>1. Head(wire[k]) \in Batch /\ <<Head(wire[k])>> \o Tail(wire[k]) = wire[k]
    <3>1. wire[k] # <<>>
      BY <1>2 DEF Read
    <3>2. QED
      BY <1>1, <3>1
  <2>2. TheOne(held'[k]) = Head(wire[k])
    BY <1>1, <1>2, <2>1 DEF Read, TheOne
  <2>3. Coming(k) = wire[k] /\ Coming(k)' = <<Head(wire[k])>> \o Tail(wire[k]) /\ log'[k] = log[k]
    BY <1>1, <1>2, <2>2 DEF Read, Goto, Coming
  <2>4. QED
    BY <2>1, <2>3 DEF Received
<1>3. CASE Ingest(k)
  <2>1. PICK b \in held[k] : log' = [log EXCEPT ![k] = Append(@, b)]
    BY <1>3 DEF Ingest
  <2>2. b \in Batch /\ held[k] = {b} /\ service[k] = "ingest"
    BY <1>3, <2>1 DEF HandlersHold, Ingest, Goto
  <2>3. Coming(k) = <<b>> \o wire[k]
    BY <2>2, StreamTypes
  <2>4. log'[k] = log[k] \o <<b>>
    BY <1>1, <2>1, <2>2, AppendIsConcat
  <2>5. Coming(k)' = wire[k]
    BY <1>1, <1>3 DEF Ingest, Goto, Coming, streamVars
  <2>6. (log[k] \o <<b>>) \o wire[k] = log[k] \o (<<b>> \o wire[k])
    BY <1>1, <2>2, ConcatAssociative
  <2>7. QED
    BY <2>3, <2>4, <2>5, <2>6 DEF Received
<1>4. CASE Forward(k)
  <2>1. k + 1 \in Services /\ k + 1 # k
    BY <1>4, StreamAssumption DEF Forward, Services
  <2>2. wire'[k] = wire[k]
    BY <1>4, <2>1 DEF Forward, Send, TypeOK
  <2>3. QED
    BY <1>1, <1>4, <2>2 DEF Forward, Goto, Received, Coming
<1>5. CASE ReadEnds(k) \/ CloseForward(k) \/ FinishForward(k)
  BY <1>1, <1>5 DEF ReadEnds, CloseForward, FinishForward, Goto, Received, Coming, streamVars
<1>6. QED
  BY <1>2, <1>3, <1>4, <1>5 DEF Service

\* What a handler does to the stream it writes.
LEMMA WriterOnLink ==
  ASSUME TypeOK, HandlersHold, NEW j \in Services, Service(j), j + 1 \in Services
  PROVE  Rests(j + 1) \/ Carries(j + 1)
<1> DEFINE k == j + 1
<1>1. k \in Services /\ k # j /\ k # 1 /\ k - 1 = j /\ j < Hops
  BY StreamAssumption DEF Services
<1>2. /\ log[j] \in Seq(Batch)
      /\ j \in DOMAIN service /\ j \in DOMAIN log
  BY LinkTypes DEF TypeOK
<1>3. Sent(k) = PassedOn(j) /\ Sent(k)' = PassedOn(j)'
  BY <1>1 DEF Sent
<1>4. Received(k) = log[k] \o Coming(k) /\ service'[k] = service[k] /\ held'[k] = held[k] /\ log'[k] = log[k]
  BY <1>1, OthersRest DEF Received
<1>5. ASSUME wire'[k] = wire[k]
      PROVE  Received(k)' = Received(k)
  BY <1>4, <1>5 DEF Received, Coming
<1> HIDE DEF k
<1>6. CASE Ingest(j)
  <2>1. PICK b \in held[j] : log' = [log EXCEPT ![j] = Append(@, b)]
    BY <1>6 DEF Ingest
  <2>2. b \in Batch
    BY <2>1, LinkTypes
  <2>3. PassedOn(j) = log[j] /\ PassedOn(j)' = Front(Append(log[j], b))
    BY <1>1, <1>2, <1>6, <2>1 DEF Ingest, Goto, PassedOn
  <2>4. Front(Append(log[j], b)) = log[j]
    BY <1>2, <2>2, FrontAndLast
  <2>5. wire'[k] = wire[k]
    BY <1>6 DEF Ingest, streamVars
  <2>6. QED
    BY <1>3, <1>5, <2>3, <2>4, <2>5 DEF Rests, k
<1>7. CASE Forward(j)
  <2>1. PICK b \in held[j] :
          \/ Goto(j, "forward", "read") /\ Send(k, b)
          \/ Goto(j, "forward", "close") /\ Refused(k) /\ UNCHANGED wire
    BY <1>7 DEF Forward, k
  <2>2. b \in Batch /\ service[j] = "forward" /\ log[j] # <<>> /\ b = Last(log[j])
    BY <2>1, LinkTypes DEF HandlersHold, Goto
  <2>3. PassedOn(j) = Front(log[j]) /\ PassedOn(j)' = log[j]
    BY <1>2, <1>7, <2>1, <2>2 DEF Forward, Goto, PassedOn
  <2>4. log[j] = Append(Front(log[j]), b)
    BY <1>2, <2>2, FrontAndLast
  <2>5. Received(k)' = IF Healthy(k) THEN Append(Received(k), b) ELSE Received(k)
    <3>1. CASE Send(k, b)
      BY <1>1, <1>4, <2>2, <3>1, SendReaches
    <3>2. CASE Refused(k) /\ UNCHANGED wire
      BY <1>5, <3>2 DEF Refused
    <3>3. QED
      BY <2>1, <3>1, <3>2
  <2>6. ~WriterLeft(k)
    BY <1>1, <2>2 DEF WriterLeft
  <2>7. QED
    BY <1>3, <2>2, <2>3, <2>4, <2>5, <2>6 DEF Carries, k
<1>8. CASE Read(j) \/ ReadEnds(j) \/ CloseForward(j) \/ FinishForward(j)
  <2>1. wire'[k] = wire[k]
    BY <1>1, <1>8 DEF Read, ReadEnds, CloseForward, FinishForward, streamVars, TypeOK
  <2>2. PassedOn(j)' = PassedOn(j)
    BY <1>2, <1>8 DEF Read, ReadEnds, CloseForward, FinishForward, Goto, PassedOn
  <2>3. QED
    BY <1>3, <1>5, <2>1, <2>2 DEF Rests, k
<1>9. QED
  BY <1>6, <1>7, <1>8 DEF Service

\* A step of any handler, on any stream.
LEMMA ServiceOnLink ==
  ASSUME TypeOK, HandlersHold, NEW j \in Services, Service(j), NEW k \in Services
  PROVE  Rests(k) \/ Carries(k)
<1>1. CASE k = j
  <2>1. Sent(k)' = Sent(k)
    <3>1. CASE k = 1
      BY <3>1 DEF Sent, Service, nodeVars, Read, ReadEnds, Ingest, Forward, CloseForward, FinishForward
    <3>2. CASE k # 1
      <4>1. k - 1 \in Services /\ k - 1 # j
        BY <1>1, <3>2, StreamAssumption DEF Services
      <4>2. QED
        BY <3>2, <4>1, OthersRest DEF Sent, PassedOn
    <3>3. QED
      BY <3>1, <3>2
  <2>2. QED
    BY <1>1, <2>1, ReaderOnLink DEF Rests
<1>2. CASE k = j + 1
  BY <1>2, WriterOnLink
<1>3. CASE k # j /\ k # j + 1
  BY <1>3, OtherLinksRest
<1>4. QED
  BY <1>1, <1>2, <1>3

\* Any step, on any stream: a stream is a channel that loses what is sent when
\* it is not healthy.
LEMMA StepOnLink ==
  ASSUME TypeOK, HandlersHold, [Next]_vars, NEW k \in Services
  PROVE  Rests(k) \/ Carries(k)
<1>1. CASE Node
  BY <1>1, NodeOnLink
<1>2. ASSUME NEW j \in Services, Service(j) PROVE Rests(k) \/ Carries(k)
  BY <1>2, ServiceOnLink
<1>3. ASSUME NEW j \in Services, Break(j) PROVE Rests(k)
  BY <1>3 DEF Break, nodeVars, serviceVars, Rests, Sent, PassedOn, Received, Coming
<1>4. CASE UNCHANGED vars
  BY <1>4 DEF vars, nodeVars, streamVars, serviceVars, Rests, Sent, PassedOn, Received, Coming
<1>5. QED
  BY <1>1, <1>2, <1>3, <1>4 DEF Next, Stopped

\* A handler holds its batch until it has passed it on, whoever takes the step.
LEMMA HoldsAfterStep ==
  ASSUME TypeOK, HandlersHold, [Next]_vars
  PROVE  HandlersHold'
<1>1. CASE UNCHANGED serviceVars
  BY <1>1 DEF HandlersHold, serviceVars
<1>2. ASSUME NEW j \in Services, Service(j) PROVE HandlersHold'
  <2>1. ASSUME NEW k \in Services, k # j
        PROVE  /\ service'[k] = "ingest" => \E b \in Batch : held'[k] = {b}
               /\ service'[k] = "forward" => log'[k] # <<>> /\ held'[k] = {Last(log'[k])}
    BY <1>2, <2>1, OthersRest DEF HandlersHold
  <2>2. j \in DOMAIN service /\ j \in DOMAIN held /\ j \in DOMAIN log
    BY DEF TypeOK
  <2>3. service'[j] = "ingest" => \E b \in Batch : held'[j] = {b}
    <3>1. CASE Read(j)
      <4>1. Head(wire[j]) \in Batch
        BY <3>1, LinkTypes DEF Read
      <4>2. held'[j] = {Head(wire[j])}
        BY <2>2, <3>1 DEF Read
      <4>3. QED
        BY <4>1, <4>2
    <3>2. CASE ~Read(j)
      BY <1>2, <2>2, <3>2 DEF Service, Goto, ReadEnds, Ingest, Forward, CloseForward, FinishForward
    <3>3. QED
      BY <3>1, <3>2
  <2>4. service'[j] = "forward" => log'[j] # <<>> /\ held'[j] = {Last(log'[j])}
    <3>1. CASE Ingest(j) /\ j < Hops
      <4>1. PICK b \in held[j] : log' = [log EXCEPT ![j] = Append(@, b)]
        BY <3>1 DEF Ingest
      <4>2. b \in Batch /\ held[j] = {b} /\ log[j] \in Seq(Batch)
        BY <3>1, <4>1, LinkTypes DEF HandlersHold, Ingest, Goto
      <4>3. log'[j] = Append(log[j], b) /\ held'[j] = {b}
        BY <2>2, <3>1, <4>1, <4>2 DEF Ingest
      <4>4. \A s \in Seq(Batch) : Append(s, b) # <<>>
        BY <4>2, AppendProperties
      <4>5. Last(Append(log[j], b)) = b
        BY <4>2, FrontAndLast
      <4>6. QED
        BY <4>2, <4>3, <4>4, <4>5
    <3>2. CASE ~(Ingest(j) /\ j < Hops)
      BY <1>2, <2>2, <3>2 DEF Service, Goto, Read, ReadEnds, Ingest, Forward, CloseForward, FinishForward
    <3>3. QED
      BY <3>1, <3>2
  <2>5. QED
    BY <2>1, <2>3, <2>4 DEF HandlersHold
<1>3. CASE Node
  BY <1>1, <1>3 DEF Node, Produce, Write, WriteFails, EndTicks, Flush, CloseStream, FinishStream
<1>4. ASSUME NEW j \in Services, Break(j) PROVE HandlersHold'
  BY <1>1, <1>4 DEF Break
<1>5. CASE UNCHANGED vars
  BY <1>1, <1>5 DEF vars
<1>6. QED
  BY <1>2, <1>3, <1>4, <1>5 DEF Next, Stopped

\* A handler that has left never comes back.
LEMMA DoneStays ==
  ASSUME TypeOK, [Next]_vars, NEW k \in Services, service[k] = "done"
  PROVE  service'[k] = "done"
<1>1. CASE UNCHANGED serviceVars
  BY <1>1 DEF serviceVars
<1>2. ASSUME NEW j \in Services, Service(j) PROVE service'[k] = "done"
  BY <1>2, OthersRest DEF Service, Goto, Read, ReadEnds, Ingest, Forward, CloseForward, FinishForward
<1>3. QED
  BY <1>1, <1>2 DEF Next, Stopped, Node, Produce, Write, WriteFails, EndTicks, Flush,
       CloseStream, FinishStream, Break, vars

\* Nor does a stream that was closed or has broken.
LEMMA LinkStays ==
  ASSUME TypeOK, [Next]_vars, NEW k \in Services
  PROVE  /\ link'[k] = "open" => link[k] = "open"
         /\ link[k] = "broken" => link'[k] = "broken"
<1>1. CASE UNCHANGED link
  BY <1>1
<1>2. ASSUME NEW j \in Services, WritesDone(j)
      PROVE  (link'[k] = "open" => link[k] = "open") /\ (link[k] = "broken" => link'[k] = "broken")
  BY <1>2 DEF WritesDone, TypeOK
<1>3. CASE CloseStream
  BY <1>2, <1>3, FirstService DEF CloseStream
<1>4. ASSUME NEW j \in Services, CloseForward(j)
      PROVE  (link'[k] = "open" => link[k] = "open") /\ (link[k] = "broken" => link'[k] = "broken")
  <2>1. j < Hops => j + 1 \in Services
    BY StreamAssumption DEF Services
  <2>2. QED
    BY <1>1, <1>2, <1>4, <2>1 DEF CloseForward
<1>5. ASSUME NEW j \in Services, Break(j)
      PROVE  (link'[k] = "open" => link[k] = "open") /\ (link[k] = "broken" => link'[k] = "broken")
  BY <1>5 DEF Break, TypeOK
<1>6. QED
  BY <1>1, <1>3, <1>4, <1>5 DEF Next, Stopped, Node, Produce, Write, WriteFails, EndTicks, Flush,
       FinishStream, Service, Read, ReadEnds, Ingest, Forward, FinishForward, vars, streamVars

LEMMA HealthyWas ==
  ASSUME TypeOK, [Next]_vars, NEW k \in Services, Healthy(k)'
  PROVE  Healthy(k)
BY DoneStays, LinkStays DEF Healthy

\* So a stream never loses but its end.
LEMMA LosesItsEndAfterStep ==
  ASSUME TypeOK, HandlersHold, LosesItsEndOnly, [Next]_vars
  PROVE  LosesItsEndOnly'
<1> SUFFICES ASSUME NEW k \in Services
             PROVE  IsPrefix(Received(k)', Sent(k)') /\ (Healthy(k)' => Received(k)' = Sent(k)')
  BY DEF LosesItsEndOnly
<1>1. Received(k) \in Seq(Batch) /\ Sent(k) \in Seq(Batch)
  BY StreamTypes
<1>2. IsPrefix(Received(k), Sent(k)) /\ (Healthy(k)' => Received(k) = Sent(k))
  BY HealthyWas DEF LosesItsEndOnly
<1>3. CASE Rests(k)
  BY <1>2, <1>3 DEF Rests
<1>4. CASE Carries(k)
  <2>1. PICK b \in Batch :
          /\ Sent(k)' = Append(Sent(k), b)
          /\ Received(k)' = IF Healthy(k) THEN Append(Received(k), b) ELSE Received(k)
    BY <1>4 DEF Carries
  <2>2. CASE Healthy(k)
    <3>1. Received(k)' = Sent(k)' /\ Sent(k)' \in Seq(Batch)
      BY <1>1, <2>1, <2>2, AppendProperties DEF LosesItsEndOnly
    <3>2. QED
      BY <3>1, PrefixOfItself
  <2>3. CASE ~Healthy(k)
    BY <1>1, <1>2, <2>1, <2>3, HealthyWas, PrefixOfLonger
  <2>4. QED
    BY <2>2, <2>3
<1>5. QED
  BY <1>3, <1>4, StepOnLink

\* Streams are closed by their writers.
LEMMA ClosedByWriterAfterStep ==
  ASSUME TypeOK, ClosedByWriter, [Next]_vars
  PROVE  ClosedByWriter'
<1> SUFFICES ASSUME NEW k \in Services, link'[k] # "broken"
             PROVE  link'[k] = "closed" <=> WriterLeft(k)'
  BY DEF ClosedByWriter
<1>1. /\ link[k] # "broken" /\ (link[k] = "closed" <=> WriterLeft(k))
      /\ link[k] \in {"open", "closed"} /\ link'[k] = "open" => link[k] = "open"
  BY LinkStays DEF ClosedByWriter, TypeOK
<1>2. k # 1 => k - 1 \in Services
  BY StreamAssumption DEF Services
<1>3. CASE link'[k] = link[k] /\ (WriterLeft(k)' <=> WriterLeft(k))
  BY <1>1, <1>3
<1>4. CASE Produce \/ Write \/ WriteFails \/ EndTicks \/ Flush \/ FinishStream
  BY <1>3, <1>4 DEF Produce, Write, WriteFails, EndTicks, Flush, FinishStream,
       WriterLeft, streamVars, serviceVars
<1>5. CASE CloseStream
  <2>1. k # 1 => link'[k] = link[k]
    BY <1>5, FirstService DEF CloseStream, WritesDone, TypeOK
  <2>2. k = 1 => link'[k] = "closed"
    BY <1>1, <1>5 DEF CloseStream, WritesDone, TypeOK
  <2>3. QED
    BY <1>1, <1>5, <2>1, <2>2 DEF CloseStream, WriterLeft, serviceVars
<1>6. ASSUME NEW j \in Services, Service(j)
      PROVE  link'[k] = "closed" <=> WriterLeft(k)'
  <2>1. UNCHANGED node
    BY <1>6 DEF Service, Read, ReadEnds, Ingest, Forward, CloseForward, FinishForward, nodeVars
  <2>2. j \in DOMAIN service
    BY DEF TypeOK
  <2>3. CASE k # j + 1
    <3>1. WriterLeft(k)' <=> WriterLeft(k)
      <4>1. k # 1 => service'[k - 1] = service[k - 1]
        BY <1>2, <1>6, <2>3, OthersRest, StreamAssumption DEF Services
      <4>2. QED
        BY <2>1, <4>1 DEF WriterLeft
    <3>2. link'[k] = link[k]
      <4>1. CASE CloseForward(j)
        BY <2>3, <4>1, StreamAssumption DEF CloseForward, WritesDone, TypeOK, Services
      <4>2. CASE ~CloseForward(j)
        BY <1>6, <4>2 DEF Service, Read, ReadEnds, Ingest, Forward, FinishForward, streamVars
      <4>3. QED
        BY <4>1, <4>2
    <3>3. QED
      BY <1>3, <3>1, <3>2
  <2>4. CASE k = j + 1
    <3>1. /\ WriterLeft(k) <=> service[j] \in {"finish", "done"}
          /\ WriterLeft(k)' <=> service'[j] \in {"finish", "done"}
          /\ j < Hops
      BY <2>4, StreamAssumption DEF WriterLeft, Services
    <3>2. CASE CloseForward(j)
      <4>1. link'[k] = "closed"
        BY <1>1, <2>4, <3>1, <3>2 DEF CloseForward, WritesDone, TypeOK
      <4>2. QED
        BY <2>2, <3>1, <3>2, <4>1 DEF CloseForward, Goto
    <3>3. CASE ~CloseForward(j)
      BY <1>1, <1>6, <2>2, <3>1, <3>3 DEF Service, Goto, Read, ReadEnds, Ingest, Forward,
           FinishForward, streamVars
    <3>4. QED
      BY <3>2, <3>3
  <2>5. QED
    BY <2>3, <2>4
<1>7. ASSUME NEW j \in Services, Break(j)
      PROVE  link'[k] = "closed" <=> WriterLeft(k)'
  BY <1>3, <1>7 DEF Break, WriterLeft, nodeVars, serviceVars, TypeOK
<1>8. CASE UNCHANGED vars
  BY <1>3, <1>8 DEF vars, nodeVars, streamVars, serviceVars, WriterLeft
<1>9. QED
  BY <1>4, <1>5, <1>6, <1>7, <1>8 DEF Next, Stopped, Node

\* While no stream has broken, a writer at work has a healthy stream.
LEMMA SoundIsHealthy ==
  ASSUME TypeOK, ClosedByWriter, SoundLosesNothing, Sound, NEW k \in Services, ~WriterLeft(k)
  PROVE  Healthy(k)
<1>1. link[k] = "open"
  BY DEF ClosedByWriter, Sound, TypeOK
<1>2. service[k] # "done"
  BY <1>1 DEF SoundLosesNothing
<1>3. QED
  BY <1>1, <1>2 DEF Healthy

\* What is under way grows by sends only, and shrinks when its reader reads.
LEMMA WireStays ==
  ASSUME TypeOK, [Next]_vars, NEW k \in Services, ~Healthy(k), wire[k] = <<>>
  PROVE  wire'[k] = <<>>
<1>1. CASE UNCHANGED wire
  BY <1>1
<1>2. ASSUME NEW j \in Services, NEW b, Send(j, b)
      PROVE  wire'[k] = <<>>
  BY <1>2 DEF Send, TypeOK
<1>3. CASE Node
  BY <1>1, <1>2, <1>3, FirstService DEF Node, Produce, Write, WriteFails, EndTicks, Flush,
       CloseStream, FinishStream, streamVars
<1>4. ASSUME NEW j \in Services, Service(j)
      PROVE  wire'[k] = <<>>
  <2>1. CASE Read(j)
    BY <2>1 DEF Read, TypeOK
  <2>2. CASE Forward(j)
    <3>1. j + 1 \in Services
      BY <2>2, StreamAssumption DEF Forward, Services
    <3>2. QED
      BY <1>1, <1>2, <2>2, <3>1 DEF Forward
  <2>3. CASE ~Read(j) /\ ~Forward(j)
    BY <1>1, <1>4, <2>3 DEF Service, ReadEnds, Ingest, CloseForward, FinishForward, streamVars
  <2>4. QED
    BY <2>1, <2>2, <2>3
<1>5. QED
  BY <1>1, <1>3, <1>4 DEF Next, Stopped, Break, vars, streamVars

\* And while none has broken nothing is lost.
LEMMA SoundAfterStep ==
  ASSUME TypeOK, Phases, HandlersHold, ClosedByWriter, SoundLosesNothing, [Next]_vars
  PROVE  SoundLosesNothing'
<1> SUFFICES ASSUME Sound'
             PROVE  /\ \A k \in Services :
                         /\ Received(k)' = Sent(k)'
                         /\ service'[k] \in {"close", "finish", "done"} =>
                              link'[k] = "closed" /\ wire'[k] = <<>>
                         /\ service'[k] = "done" => \A l \in k..Hops : service'[l] = "done"
                    /\ node' = "done" => service'[1] = "done"
  BY DEF SoundLosesNothing
<1>1. Sound
  BY LinkStays DEF Sound
<1>2. ASSUME NEW k \in Services
      PROVE  Received(k)' = Sent(k)'
  <2>1. Received(k) = Sent(k)
    BY <1>1 DEF SoundLosesNothing
  <2>2. CASE Rests(k)
    BY <2>1, <2>2 DEF Rests
  <2>3. CASE Carries(k)
    BY <1>1, <2>1, <2>3, SoundIsHealthy DEF Carries
  <2>4. QED
    BY <2>2, <2>3, StepOnLink
<1>3. ASSUME NEW k \in Services, service'[k] \in {"close", "finish", "done"}
      PROVE  link'[k] = "closed" /\ wire'[k] = <<>>
  <2>1. CASE service[k] \in {"close", "finish", "done"}
    <3>1. link[k] = "closed" /\ wire[k] = <<>>
      BY <1>1, <2>1 DEF SoundLosesNothing
    <3>2. wire'[k] = <<>>
      BY <3>1, WireStays DEF Healthy
    <3>3. link'[k] # "broken" /\ link'[k] # "open"
      BY <3>1, LinkStays DEF Sound
    <3>4. QED
      BY <3>2, <3>3, TypesAfterStep DEF TypeOK
  <2>2. CASE service[k] \notin {"close", "finish", "done"}
    <3>1. Service(k)
      <4>1. service'[k] # service[k]
        BY <1>3, <2>2
      <4>2. QED
        BY <4>1, OthersRest DEF Next, Stopped, vars, serviceVars, Break, Node, Produce, Write,
             WriteFails, EndTicks, Flush, CloseStream, FinishStream
    <3>2. k \in DOMAIN service
      BY DEF TypeOK
    <3>3. CASE ReadEnds(k)
      BY <1>1, <3>3 DEF ReadEnds, Sound, streamVars
    <3>4. ~Forward(k) \/ service'[k] = "read"
      <4> SUFFICES ASSUME Forward(k), service'[k] # "read"
                   PROVE  FALSE
        OBVIOUS
      <4>1. k + 1 \in Services /\ k + 1 # 1 /\ (k + 1) - 1 = k
        BY StreamAssumption DEF Forward, Services
      <4>2. Refused(k + 1) /\ service[k] = "forward"
        BY <3>2 DEF Forward, Goto
      <4>3. ~WriterLeft(k + 1)
        BY <4>1, <4>2 DEF WriterLeft
      <4>4. QED
        BY <1>1, <4>1, <4>2, <4>3, SoundIsHealthy DEF Refused
    <3>5. QED
      BY <1>3, <2>2, <3>1, <3>2, <3>3, <3>4 DEF Service, Goto, Read, Ingest, CloseForward,
           FinishForward, Forward
  <2>3. QED
    BY <2>1, <2>2
<1>4. ASSUME NEW k \in Services, service'[k] = "done", NEW l \in k..Hops
      PROVE  service'[l] = "done"
  <2>1. l \in Services
    BY StreamAssumption DEF Services
  <2>2. CASE service[k] = "done"
    BY <1>1, <2>1, <2>2, DoneStays DEF SoundLosesNothing
  <2>3. CASE service[k] # "done" /\ l # k
    <3>1. Service(k)
      BY <1>4, <2>3, OthersRest DEF Next, Stopped, vars, serviceVars, Break, Node, Produce, Write,
           WriteFails, EndTicks, Flush, CloseStream, FinishStream
    <3>2. k + 1 \in Services /\ k < Hops /\ l \in k + 1..Hops
      BY <2>3, StreamAssumption DEF Services
    <3>3. k \in DOMAIN service
      BY DEF TypeOK
    <3>4. FinishForward(k)
      BY <1>4, <2>3, <3>1, <3>2, <3>3 DEF Service, Goto, Read, ReadEnds, Ingest, Forward, CloseForward
    <3>5. service[k + 1] = "done"
      BY <1>1, <3>2, <3>4 DEF FinishForward, Answered, Sound
    <3>6. QED
      BY <1>1, <2>1, <3>2, <3>5, DoneStays DEF SoundLosesNothing
  <2>4. QED
    BY <1>4, <2>2, <2>3
<1>5. ASSUME node' = "done"
      PROVE  service'[1] = "done"
  <2>1. CASE node = "done"
    BY <1>1, <2>1, FirstService, DoneStays DEF SoundLosesNothing
  <2>2. CASE node # "done"
    <3>1. FinishStream
      BY <1>5, <2>2 DEF Next, Stopped, vars, nodeVars, Break, Node, Produce, Write, WriteFails,
           EndTicks, Flush, CloseStream, Service, Read, ReadEnds, Ingest, Forward, CloseForward,
           FinishForward
    <3>2. QED
      BY <1>1, <3>1, FirstService DEF FinishStream, Answered, Sound, serviceVars
  <2>3. QED
    BY <2>1, <2>2
<1>6. QED
  BY <1>2, <1>3, <1>4, <1>5

-----------------------------------------------------------------------------
(***************************************************************************)
(* The node.                                                               *)
(***************************************************************************)

\* The way of batches after others have been added to it, index by index.
LEMMA WayTo ==
  ASSUME NEW S, NEW s \in Seq(S), NEW t \in Seq(S)
  PROVE  /\ s \o t \in Seq(S)
         /\ DOMAIN (s \o t) = 1..Len(s) + Len(t)
         /\ \A j \in 1..Len(s) : (s \o t)[j] = s[j]
         /\ \A j \in 1..Len(t) : (s \o t)[Len(s) + j] = t[j]
BY ConcatProperties

\* Writing the first of the batches to be written leaves the way as it is.
LEMMA WayOfWrite ==
  ASSUME NEW S, NEW s \in Seq(S), NEW t \in Seq(S), t # <<>>
  PROVE  Append(s, Head(t)) \o Tail(t) = s \o t
<1>1. Head(t) \in S /\ Tail(t) \in Seq(S) /\ t = <<Head(t)>> \o Tail(t) /\ <<Head(t)>> \in Seq(S)
  BY ConcatProperties
<1>2. Append(s, Head(t)) = s \o <<Head(t)>>
  BY <1>1, AppendIsConcat
<1>3. (s \o <<Head(t)>>) \o Tail(t) = s \o (<<Head(t)>> \o Tail(t))
  BY <1>1, ConcatAssociative
<1>4. QED
  BY <1>1, <1>2, <1>3

\* What is only swapped is so on a shorter way,
LEMMA SwapsOfShorter ==
  ASSUME NEW s \in Seq(Batch), NEW t \in Seq(Batch), NEW ds, NEW es, es \subseteq ds,
         NEW next, NEW gone, OnlySwaps(s \o t, ds, next, gone)
  PROVE  OnlySwaps(s, es, next, gone)
<1> DEFINE w == s \o t
<1>1. DOMAIN s \subseteq DOMAIN w /\ DOMAIN s = 1..Len(s) /\ \A j \in DOMAIN s : w[j] = s[j]
  BY WayTo
<1>2. \A j \in DOMAIN s : 1..j - 1 \subseteq DOMAIN s
  BY <1>1
<1>3. OnlySwaps(w, ds, next, gone)
  OBVIOUS
<1> HIDE DEF w
<1>4. QED
  BY <1>1, <1>2, <1>3 DEF OnlySwaps

\* on one with a newer batch at its end,
LEMMA SwapsOfLonger ==
  ASSUME NEW w \in Seq(Batch), NEW b \in Batch, NEW next \in Int, NEW later \in Int, NEW gone,
         OnlySwaps(w, {}, next, gone), b.seq < later, next <= later,
         \A j \in DOMAIN w : w[j].seq < b.seq,
         b.seq \notin gone
  PROVE  OnlySwaps(w \o <<b>>, {}, later, gone)
<1> DEFINE v == w \o <<b>>
<1>1. /\ DOMAIN w = 1..Len(w) /\ DOMAIN v = 1..Len(w) + 1
      /\ \A j \in 1..Len(w) : v[j] = w[j]
      /\ v[Len(w) + 1] = b
      /\ Len(w) \in Nat
  BY WayTo
<1>2. \A j \in 1..Len(w) : w[j].seq \in Int
  <2>1. \A c \in Batch : c.seq \in Int
    BY DEF Batch
  <2>2. QED
    BY <2>1, ElementOfSeq
<1>3. b.seq \in Int
  BY DEF Batch
<1> HIDE DEF v
<1>4. ASSUME NEW j \in DOMAIN v PROVE v[j].seq < later /\ v[j].seq \notin gone
  BY <1>1, <1>2, <1>3 DEF OnlySwaps
<1>5. ASSUME NEW j \in DOMAIN v, NEW l \in DOMAIN v, v[j].seq = v[l].seq PROVE j = l
  BY <1>1, <1>2, <1>3, <1>5 DEF OnlySwaps
<1>6. ASSUME NEW j \in DOMAIN v, NEW l \in 1..j - 1, NEW m \in 1..j - 1,
             v[l].seq > v[j].seq, v[m].seq > v[j].seq
      PROVE  l = m
  <2>1. CASE j = Len(w) + 1
    BY <1>1, <1>2, <1>3, <1>6, <2>1, SMTT(30)
  <2>2. CASE j \in 1..Len(w)
    <3>1. l \in 1..Len(w) /\ m \in 1..Len(w)
      BY <1>1, <2>2
    <3>2. w[l].seq > w[j].seq /\ w[m].seq > w[j].seq
      BY <1>1, <1>6, <2>2, <3>1
    <3>3. QED
      BY <1>1, <2>2, <3>2 DEF OnlySwaps
  <2>3. QED
    BY <1>1, <2>1, <2>2
<1>7. QED
  BY <1>4, <1>5, <1>6 DEF OnlySwaps, v

\* and on one with the two newest batches at its end, swapped.
LEMMA SwapsOfPair ==
  ASSUME NEW w \in Seq(Batch), NEW b \in Batch, NEW d \in Batch,
         NEW later \in Int, NEW gone,
         OnlySwaps(w, {}, later, gone), d.seq < b.seq, b.seq < later,
         \A j \in DOMAIN w : w[j].seq < d.seq,
         b.seq \notin gone, d.seq \notin gone
  PROVE  OnlySwaps(w \o <<b, d>>, {}, later, gone)
<1> DEFINE v == w \o <<b, d>>
<1>1. /\ DOMAIN w = 1..Len(w) /\ DOMAIN v = 1..Len(w) + 2
      /\ \A j \in 1..Len(w) : v[j] = w[j]
      /\ v[Len(w) + 1] = b /\ v[Len(w) + 2] = d
      /\ Len(w) \in Nat
  BY WayTo
<1>2. \A j \in 1..Len(w) : w[j].seq \in Int
  <2>1. \A c \in Batch : c.seq \in Int
    BY DEF Batch
  <2>2. QED
    BY <2>1, ElementOfSeq
<1>3. b.seq \in Int /\ d.seq \in Int
  BY DEF Batch
<1> HIDE DEF v
<1>4. ASSUME NEW j \in DOMAIN v PROVE v[j].seq < later /\ v[j].seq \notin gone
  BY <1>1, <1>2, <1>3 DEF OnlySwaps
<1>5. ASSUME NEW j \in DOMAIN v, NEW l \in DOMAIN v, v[j].seq = v[l].seq PROVE j = l
  <2>1. CASE j \in 1..Len(w) /\ l \in 1..Len(w)
    BY <1>1, <1>5, <2>1 DEF OnlySwaps
  <2>2. ASSUME NEW i \in 1..Len(w), NEW e \in {Len(w) + 1, Len(w) + 2}
        PROVE  v[i].seq # v[e].seq
    <3>1. v[i].seq \in Int /\ v[i].seq < d.seq /\ v[e].seq \in {b.seq, d.seq}
      BY <1>1, <1>2
    <3>2. QED
      BY <1>3, <3>1
  <2>3. CASE j \notin 1..Len(w) /\ l \notin 1..Len(w)
    BY <1>1, <1>3, <1>5, <2>3
  <2>4. QED
    BY <1>1, <1>5, <2>1, <2>2, <2>3
<1>6. ASSUME NEW j \in DOMAIN v, NEW l \in 1..j - 1, NEW m \in 1..j - 1,
             v[l].seq > v[j].seq, v[m].seq > v[j].seq
      PROVE  l = m
  <2>1. CASE j \in {Len(w) + 1, Len(w) + 2}
    <3>1. ASSUME NEW i \in 1..j - 1, v[i].seq > v[j].seq PROVE i = Len(w) + 1
      <4>1. v[j].seq \in {b.seq, d.seq}
        BY <1>1, <2>1
      <4>2. CASE i \in 1..Len(w)
        <5>1. v[i].seq \in Int /\ v[i].seq < d.seq
          BY <1>1, <1>2, <4>2
        <5>2. QED
          BY <1>3, <3>1, <4>1, <5>1
      <4>3. QED
        BY <1>1, <2>1, <4>2
    <3>2. QED
      BY <1>6, <3>1
  <2>2. CASE j \in 1..Len(w)
    <3>1. l \in 1..Len(w) /\ m \in 1..Len(w)
      BY <1>1, <2>2
    <3>2. w[l].seq > w[j].seq /\ w[m].seq > w[j].seq
      BY <1>1, <1>6, <2>2, <3>1
    <3>3. QED
      BY <1>1, <2>2, <3>2 DEF OnlySwaps
  <2>3. QED
    BY <1>1, <2>1, <2>2
<1>7. QED
  BY <1>4, <1>5, <1>6 DEF OnlySwaps, v

\* The numbers on a way are those of its parts.
LEMMA NumbersOfConcat ==
  ASSUME NEW s \in Seq(Batch), NEW t \in Seq(Batch)
  PROVE  Numbers(s \o t) = Numbers(s) \cup Numbers(t)
<1> DEFINE w == s \o t
<1>1. /\ DOMAIN w = 1..Len(s) + Len(t)
      /\ DOMAIN s = 1..Len(s) /\ DOMAIN t = 1..Len(t)
      /\ Len(s) \in Nat /\ Len(t) \in Nat
      /\ \A j \in 1..Len(s) : w[j] = s[j]
      /\ \A j \in 1..Len(t) : w[Len(s) + j] = t[j]
  BY WayTo
<1> HIDE DEF w
<1>2. ASSUME NEW j \in DOMAIN w
      PROVE  w[j].seq \in Numbers(s) \cup Numbers(t)
  <2>1. CASE j \in 1..Len(s)
    BY <1>1, <2>1 DEF Numbers
  <2>2. CASE j \notin 1..Len(s)
    <3>1. j - Len(s) \in 1..Len(t) /\ j = Len(s) + (j - Len(s))
      BY <1>1, <2>2
    <3>2. w[j] = t[j - Len(s)]
      BY <1>1, <3>1
    <3>3. QED
      BY <1>1, <3>1, <3>2 DEF Numbers
  <2>3. QED
    BY <2>1, <2>2
<1>3. ASSUME NEW j \in DOMAIN s PROVE s[j].seq \in Numbers(w)
  BY <1>1 DEF Numbers
<1>4. ASSUME NEW j \in DOMAIN t PROVE t[j].seq \in Numbers(w)
  <2>1. Len(s) + j \in DOMAIN w
    BY <1>1
  <2>2. QED
    BY <1>1, <2>1 DEF Numbers
<1>5. QED
  BY <1>2, <1>3, <1>4 DEF Numbers, w

\* With nothing to write, the way is what was written.
LEMMA WayWritten ==
  ASSUME TypeOK, outbox = <<>>
  PROVE  Way = written
BY ConcatEmptySeq DEF TypeOK, Way

\* What the node makes of the next batch.
LEMMA NumbersAfterProduce ==
  ASSUME TypeOK, NodeInv, Produce
  PROVE  SwapsOnly' /\ AllNumbered'
<1>1. PICK size \in Sizes :
        LET b == [seq |-> seq, size |-> size]
        IN  \/ /\ dropped' = dropped \cup {seq}
               /\ UNCHANGED <<node, delayed, outbox>>
            \/ /\ delayed = {} /\ delayed' = {b}
               /\ UNCHANGED <<node, outbox, dropped>>
            \/ /\ delayed = {} /\ outbox' = <<b>> /\ node' = "write"
               /\ UNCHANGED <<delayed, dropped>>
            \/ /\ \E d \in delayed : outbox' \in {<<b, d>>, <<d, b>>}
               /\ delayed' = AfterPair
               /\ node' = "write"
               /\ UNCHANGED dropped
  BY DEF Produce
<1> DEFINE b == [seq |-> seq, size |-> size]
<1>2. /\ b \in Batch /\ b.seq = seq
      /\ seq \in Nat \ {0} /\ seq' = seq + 1 /\ written' = written /\ written \in Seq(Batch)
      /\ delayed \subseteq Batch
  BY DEF TypeOK, Batch, Produce
<1>3. node = "run" /\ outbox = <<>> /\ Way = written
  BY WayWritten DEF Produce, NodeInv, Phases
<1>4. /\ OnlySwaps(written, delayed, seq, dropped)
      /\ dropped \subseteq 1..seq - 1
      /\ Sound => 1..seq - 1 \subseteq dropped \cup Numbers(written) \cup {d.seq : d \in delayed}
  BY <1>3, Zenon DEF NodeInv, SwapsOnly, AllNumbered
<1>5. OnlySwaps(written, {}, seq, dropped)
  BY <1>4 DEF OnlySwaps
<1>6. Sound' => Sound
  BY DEF Sound, Produce, streamVars
<1>7. \A j \in DOMAIN written : written[j].seq \in Int /\ written[j].seq < seq
  <2>1. \A c \in Batch : c.seq \in Int
    BY DEF Batch
  <2>2. QED
    BY <1>2, <1>5, <2>1, ElementOfSeq DEF OnlySwaps
<1>8. 1..seq' - 1 = (1..seq - 1) \cup {seq}
  BY <1>2
<1>9. seq \notin dropped /\ dropped \subseteq 1..seq' - 1
  BY <1>2, <1>4
<1> HIDE DEF b
<1>10. CASE dropped' = dropped \cup {seq} /\ UNCHANGED <<node, delayed, outbox>>
  <2>1. Way' = written
    BY <1>2, <1>3, <1>10 DEF Way
  <2>2. \A d \in delayed : d.seq \in Int /\ d.seq < seq
    BY <1>2, <1>4 DEF OnlySwaps, Batch
  <2>3. OnlySwaps(written, delayed, seq + 1, dropped \cup {seq})
    BY <1>2, <1>4, <1>7, <2>2 DEF OnlySwaps
  <2>4. dropped' \subseteq 1..seq' - 1
    BY <1>2, <1>4, <1>10
  <2>5. QED
    BY <1>2, <1>4, <1>6, <1>8, <1>10, <2>1, <2>3, <2>4 DEF SwapsOnly, AllNumbered
<1>11. CASE delayed = {} /\ delayed' = {b} /\ UNCHANGED <<node, outbox, dropped>>
  <2>1. Way' = written
    BY <1>2, <1>3, <1>11 DEF Way
  <2>2. OnlySwaps(written, {b}, seq + 1, dropped)
    BY <1>2, <1>4, <1>7, <1>9 DEF OnlySwaps
  <2>3. QED
    BY <1>2, <1>4, <1>6, <1>8, <1>9, <1>11, <2>1, <2>2 DEF SwapsOnly, AllNumbered
<1>12. CASE delayed = {} /\ outbox' = <<b>> /\ UNCHANGED <<delayed, dropped>>
  <2>1. Way' = written \o <<b>>
    BY <1>2, <1>12 DEF Way
  <2>2. OnlySwaps(written \o <<b>>, {}, seq + 1, dropped)
    BY <1>2, <1>5, <1>7, <1>9, SwapsOfLonger
  <2>3. Numbers(written \o <<b>>) = Numbers(written) \cup {seq}
    <3>1. <<b>> \in Seq(Batch) /\ Numbers(<<b>>) = {seq}
      BY <1>2 DEF Numbers
    <3>2. QED
      BY <1>2, <3>1, NumbersOfConcat
  <2>4. Sound' => 1..seq' - 1 \subseteq dropped \cup Numbers(Way')
    BY <1>4, <1>6, <1>8, <1>12, <2>1, <2>3
  <2>5. QED
    BY <1>2, <1>9, <1>12, <2>1, <2>2, <2>4 DEF SwapsOnly, AllNumbered
<1>13. ASSUME NEW d \in delayed, outbox' \in {<<b, d>>, <<d, b>>},
              delayed' = {}, UNCHANGED dropped
       PROVE  SwapsOnly' /\ AllNumbered'
  <2>1. /\ d \in Batch /\ d.seq \in Int /\ d.seq < seq /\ d.seq \notin dropped
        /\ \A j \in DOMAIN written : written[j].seq < d.seq
        /\ \A e \in delayed : e = d
    BY <1>2, <1>4 DEF OnlySwaps, Batch, NodeInv, Phases
  <2>2. Way' = written \o outbox' /\ outbox' \in Seq(Batch)
    BY <1>2, TypesAfterStep DEF Way, Next, Node, TypeOK, NodeInv
  <2>3. OnlySwaps(Way', {}, seq + 1, dropped)
    <3>1. CASE outbox' = <<b, d>>
      <4>1. OnlySwaps(written, {}, seq', dropped)
        BY <1>2, <1>5, <1>7 DEF OnlySwaps
      <4>2. d.seq < b.seq /\ b.seq < seq' /\ seq' \in Int /\ b.seq \notin dropped
        BY <1>2, <1>9, <2>1
      <4>3. OnlySwaps(written \o <<b, d>>, {}, seq', dropped)
        BY <1>2, <2>1, <4>1, <4>2, SwapsOfPair
      <4>4. QED
        BY <1>2, <2>2, <3>1, <4>3
    <3>2. CASE outbox' = <<d, b>>
      <4> DEFINE w == written \o <<d>>
      <4>1. OnlySwaps(w, {}, seq, dropped)
        BY <1>2, <1>5, <2>1, SwapsOfLonger
      <4>2. /\ w \in Seq(Batch) /\ DOMAIN w = 1..Len(written) + 1
            /\ \A j \in DOMAIN w : w[j].seq < seq
        BY <1>2, <2>1, <4>1, WayTo DEF OnlySwaps
      <4>3. Way' = w \o <<b>>
        <5>1. <<d, b>> = <<d>> \o <<b>> /\ <<d>> \in Seq(Batch) /\ <<b>> \in Seq(Batch)
          BY <1>2, <2>1
        <5>2. \A s, t, u \in Seq(Batch) : (s \o t) \o u = s \o (t \o u)
          BY ConcatAssociative
        <5>3. w \o <<b>> = written \o (<<d>> \o <<b>>)
          BY <1>2, <5>1, <5>2
        <5>4. QED
          BY <2>2, <3>2, <5>1, <5>3
      <4> HIDE DEF w
      <4>4. OnlySwaps(w \o <<b>>, {}, seq + 1, dropped)
        BY <1>2, <1>9, <4>1, <4>2, SwapsOfLonger
      <4>5. QED
        BY <4>3, <4>4
    <3>3. QED
      BY <1>13, <3>1, <3>2
  <2>4. Numbers(outbox') = {seq, d.seq}
    <3>1. CASE outbox' = <<b, d>>
      BY <1>2, <3>1 DEF Numbers
    <3>2. CASE outbox' = <<d, b>>
      BY <1>2, <3>2 DEF Numbers
    <3>3. QED
      BY <1>13, <3>1, <3>2
  <2>5. Numbers(Way') = Numbers(written) \cup {seq, d.seq}
    BY <1>2, <2>2, <2>4, NumbersOfConcat
  <2>6. Sound' => 1..seq' - 1 \subseteq dropped \cup Numbers(Way')
    BY <1>4, <1>6, <1>8, <2>1, <2>5
  <2>7. QED
    BY <1>2, <1>9, <1>13, <2>3, <2>6 DEF SwapsOnly, AllNumbered
<1>14. QED
  BY <1>1, <1>10, <1>11, <1>12, <1>13 DEF b, AfterPair

\* A writer whose stream is refused has a broken chain.
LEMMA RefusedIsUnsound ==
  ASSUME TypeOK, LinkInv, Refused(1), node \in {"run", "write", "flush"}
  PROVE  ~Sound
BY FirstService, SoundIsHealthy DEF LinkInv, Refused, WriterLeft

\* When the node has something to write, after any of its steps.
LEMMA PhasesAfterNode ==
  ASSUME TypeOK, Phases, Node
  PROVE  Phases'
<1> USE DEF Phases
<1>1. CASE Produce
  <2>1. seq \in 1..MaxBatches /\ outbox = <<>>
    BY <1>1 DEF Produce, TypeOK
  <2>2. \A size \in Sizes : [seq |-> seq, size |-> size] \in Batch
    BY <2>1 DEF Batch
  <2>3. UNCHANGED <<node, outbox>> \/ (node' = "write" /\ delayed' = {})
    BY <1>1 DEF Produce, AfterPair
  <2>4. delayed' = {} \/ \E d \in Batch : delayed' = {d}
    BY <1>1, <2>2 DEF Produce, AfterPair
  <2>5. QED
    BY <1>1, <2>1, <2>3, <2>4 DEF Produce
<1>2. CASE Write
  <2>1. Len(outbox) = 1 => Tail(outbox) = <<>>
    BY <1>2 DEF Write, TypeOK
  <2>2. QED
    BY <1>2, <2>1 DEF Write
<1>3. CASE WriteFails
  BY <1>3 DEF WriteFails
<1>4. CASE EndTicks
  <2>1. Len(HeldBack) <= 1
    <3>1. CASE delayed = {}
      BY <3>1, HeldBackIs
    <3>2. ASSUME NEW d \in Batch, delayed = {d} PROVE Len(HeldBack) <= 1
      <4>1. HeldBack = <<d>>
        BY <3>2, HeldBackIs
      <4>2. QED
        BY <4>1
    <3>3. QED
      BY <3>1, <3>2
  <2>2. QED
    BY <1>4, <2>1 DEF EndTicks
<1>5. CASE Flush \/ CloseStream \/ FinishStream
  BY <1>5 DEF Flush, CloseStream, FinishStream
<1>6. QED
  BY <1>1, <1>2, <1>3, <1>4, <1>5 DEF Node

\* What the node does keeps its promise.
LEMMA NumbersAfterNode ==
  ASSUME TypeOK, NodeInv, LinkInv, Node
  PROVE  SwapsOnly' /\ AllNumbered'
<1>1. written \in Seq(Batch) /\ outbox \in Seq(Batch) /\ delayed \subseteq Batch
  BY DEF TypeOK
<1>2. ASSUME Sound' PROVE Sound
  BY <1>2, LinkStays DEF Sound, Next
<1>3. ASSUME Way' = Way, UNCHANGED <<seq, delayed, dropped>>
      PROVE  SwapsOnly' /\ AllNumbered'
  BY <1>2, <1>3 DEF NodeInv, SwapsOnly, AllNumbered
<1>4. ASSUME Way' = written, delayed' = {}, UNCHANGED <<seq, dropped>>, ~Sound
      PROVE  SwapsOnly' /\ AllNumbered'
  <2>1. OnlySwaps(written, {}, seq, dropped)
    BY <1>1, SwapsOfShorter DEF NodeInv, SwapsOnly, Way
  <2>2. QED
    BY <1>2, <1>4, <2>1 DEF NodeInv, SwapsOnly, AllNumbered
<1>5. CASE Produce
  BY <1>5, NumbersAfterProduce
<1>6. CASE Write
  <2>1. Way' = Way
    BY <1>1, <1>6, WayOfWrite DEF Write, Way
  <2>2. QED
    BY <1>3, <1>6, <2>1 DEF Write
<1>7. CASE WriteFails
  <2>1. ~Sound
    BY <1>7, RefusedIsUnsound DEF WriteFails
  <2>2. Way' = written
    BY <1>1, <1>7, ConcatEmptySeq DEF WriteFails, Way
  <2>3. QED
    BY <1>4, <1>7, <2>1, <2>2 DEF WriteFails
<1>8. CASE EndTicks
  <2>1. outbox = <<>> /\ Way = written
    BY <1>8, WayWritten DEF EndTicks, NodeInv, Phases
  <2>2. Way' = written \o HeldBack
    BY <1>8 DEF EndTicks, Way
  <2>3. CASE delayed = {}
    <3>1. Way' = Way
      BY <1>1, <2>1, <2>2, <2>3, HeldBackIs, ConcatEmptySeq
    <3>2. QED
      BY <1>3, <1>8, <2>3, <3>1 DEF EndTicks
  <2>4. ASSUME NEW d \in Batch, delayed = {d}
        PROVE  SwapsOnly' /\ AllNumbered'
    <3>1. Way' = written \o <<d>>
      BY <2>2, <2>4, HeldBackIs
    <3>2. /\ OnlySwaps(written, {}, seq, dropped) /\ seq \in Int
          /\ d.seq < seq /\ d.seq \notin dropped
          /\ \A j \in DOMAIN written : written[j].seq < d.seq
      BY <2>1, <2>4 DEF NodeInv, SwapsOnly, OnlySwaps, TypeOK
    <3>3. OnlySwaps(written \o <<d>>, {}, seq, dropped)
      BY <1>1, <3>2, SwapsOfLonger
    <3>4. Numbers(written \o <<d>>) = Numbers(written) \cup {d.seq}
      <4>1. <<d>> \in Seq(Batch) /\ Numbers(<<d>>) = {d.seq}
        BY DEF Numbers
      <4>2. QED
        BY <1>1, <4>1, NumbersOfConcat
    <3>5. UNCHANGED <<seq, dropped>> /\ delayed' = {}
      BY <1>8 DEF EndTicks
    <3>6. SwapsOnly'
      BY <3>1, <3>3, <3>5 DEF SwapsOnly
    <3>7. Sound => 1..seq - 1 \subseteq dropped \cup Numbers(written) \cup {d.seq}
      BY <2>1, <2>4 DEF NodeInv, AllNumbered
    <3>8. AllNumbered'
      BY <1>2, <3>1, <3>4, <3>5, <3>7 DEF NodeInv, AllNumbered
    <3>9. QED
      BY <3>6, <3>8
  <2>5. QED
    BY <2>3, <2>4 DEF NodeInv, Phases
<1>9. CASE Flush
  <2>1. delayed = {} /\ Len(outbox) <= 1 /\ outbox' = <<>> /\ UNCHANGED <<seq, delayed, dropped>>
    BY <1>9 DEF Flush, NodeInv, Phases
  <2>2. CASE outbox = <<>> /\ UNCHANGED written
    BY <1>3, <2>1, <2>2 DEF Way
  <2>3. CASE outbox # <<>> /\ written' = Append(written, Head(outbox))
    <3>1. Tail(outbox) = <<>>
      BY <1>1, <2>1, <2>3
    <3>2. Way' = Way
      BY <1>1, <2>1, <2>3, <3>1, WayOfWrite DEF Way
    <3>3. QED
      BY <1>3, <2>1, <3>2
  <2>4. CASE Refused(1) /\ UNCHANGED written
    <3>1. ~Sound
      BY <1>9, <2>4, RefusedIsUnsound DEF Flush
    <3>2. Way' = written
      BY <1>1, <2>1, <2>4, ConcatEmptySeq DEF Way
    <3>3. QED
      BY <1>4, <2>1, <3>1, <3>2
  <2>5. QED
    BY <1>9, <2>2, <2>3, <2>4 DEF Flush
<1>10. CASE CloseStream \/ FinishStream
  BY <1>3, <1>10 DEF CloseStream, FinishStream, Way
<1>11. QED
  BY <1>5, <1>6, <1>7, <1>8, <1>9, <1>10 DEF Node

-----------------------------------------------------------------------------
(***************************************************************************)
(* The invariant, and what it says.                                        *)
(***************************************************************************)

LEMMA StreamInvAtFirst == Init => StreamInv
<1> SUFFICES ASSUME Init
             PROVE  StreamInv
  OBVIOUS
<1>1. TypeOK
  BY TypesAtFirst
<1>2. ASSUME NEW k \in Services
      PROVE  Received(k) = <<>> /\ Sent(k) = <<>> /\ ~WriterLeft(k) /\ link[k] = "open"
  <2>1. k # 1 => k - 1 \in Services
    BY StreamAssumption DEF Services
  <2>2. QED
    BY <2>1, ConcatEmptySeq DEF Init, Received, Coming, Sent, PassedOn, WriterLeft
<1>3. HandlersHold /\ ClosedByWriter
  BY <1>2 DEF Init, HandlersHold, ClosedByWriter
<1>4. LosesItsEndOnly
  <2>1. <<>> \in Seq(Batch)
    OBVIOUS
  <2>2. IsPrefix(<<>>, <<>>)
    BY <2>1, PrefixOfItself
  <2>3. QED
    BY <1>2, <2>2 DEF LosesItsEndOnly
<1>5. SoundLosesNothing
  BY <1>2, FirstService DEF Init, SoundLosesNothing
<1>6. Way = <<>>
  BY <1>1, WayWritten DEF Init
<1>7. NodeInv
  BY <1>6 DEF Init, FirstSeq, NodeInv, Phases, SwapsOnly, OnlySwaps, AllNumbered
<1>8. QED
  BY <1>1, <1>3, <1>4, <1>5, <1>7 DEF StreamInv, LinkInv

LEMMA StreamInvAfterStep ==
  ASSUME StreamInv, [Next]_vars
  PROVE  StreamInv'
<1> USE DEF StreamInv, LinkInv, NodeInv
<1>1. TypeOK'
  BY TypesAfterStep
<1>2. LinkInv'
  BY HoldsAfterStep, LosesItsEndAfterStep, ClosedByWriterAfterStep, SoundAfterStep
<1>3. NodeInv'
  <2>1. CASE Node
    BY <2>1, PhasesAfterNode, NumbersAfterNode
  <2>2. CASE UNCHANGED nodeVars
    <3>1. Sound' => Sound
      BY LinkStays DEF Sound
    <3>2. QED
      BY <2>2, <3>1 DEF nodeVars, Phases, SwapsOnly, AllNumbered, Way
  <2>3. QED
    BY <2>1, <2>2 DEF Next, Stopped, Service, Read, ReadEnds, Ingest, Forward, CloseForward,
         FinishForward, Break, vars
<1>4. QED
  BY <1>1, <1>2, <1>3

\* The state of the node, the streams and the services keeps the invariant.
THEOREM StreamInvariance == Spec => []StreamInv
<1>1. QED
  BY StreamInvAtFirst, StreamInvAfterStep, PTL DEF Spec

\* Every variable stays in its type.
THEOREM StreamTypeCorrect == Spec => []TypeOK
<1>1. StreamInv => TypeOK
  BY DEF StreamInv
<1>2. QED
  BY <1>1, StreamInvariance, PTL

\* Each service has ingested a prefix of what the one before it has.
LEMMA PrefixesFollow == StreamInv => PrefixesAlongTheChain
<1> SUFFICES ASSUME StreamInv
             PROVE  PrefixesAlongTheChain
  OBVIOUS
<1> USE DEF StreamInv, LinkInv
<1>1. ASSUME NEW k \in Services
      PROVE  IsPrefix(log[k], Sent(k))
  <2>1. /\ log[k] \in Seq(Batch) /\ Coming(k) \in Seq(Batch)
        /\ Received(k) \in Seq(Batch) /\ Sent(k) \in Seq(Batch)
    BY LinkTypes, StreamTypes
  <2>2. IsPrefix(log[k], Received(k))
    BY <2>1, PrefixOfConcat DEF Received
  <2>3. QED
    BY <2>1, <2>2, PrefixOfPrefix DEF LosesItsEndOnly
<1>2. IsPrefix(log[1], written)
  BY <1>1, FirstService DEF Sent
<1>3. ASSUME NEW k \in 1..Hops - 1
      PROVE  IsPrefix(log[k + 1], log[k])
  <2>1. k \in Services /\ k + 1 \in Services /\ k + 1 # 1 /\ (k + 1) - 1 = k
    BY StreamAssumption DEF Services
  <2>2. IsPrefix(log[k + 1], PassedOn(k))
    BY <1>1, <2>1 DEF Sent
  <2>3. log[k] \in Seq(Batch) /\ log[k + 1] \in Seq(Batch)
    BY <2>1, LinkTypes
  <2>4. PassedOn(k) \in Seq(Batch) /\ IsPrefix(PassedOn(k), log[k])
    BY <2>3, FrontAndLast, PrefixOfItself DEF PassedOn
  <2>5. QED
    BY <2>2, <2>3, <2>4, PrefixOfPrefix
<1>4. QED
  BY <1>2, <1>3 DEF PrefixesAlongTheChain

\* What is on the way is swapped only, so what was written is.
LEMMA SwapsFollow == StreamInv => OvertakenOnceAtMost
<1> SUFFICES ASSUME StreamInv, NEW j \in DOMAIN written
             PROVE  /\ \A l \in DOMAIN written : written[j].seq = written[l].seq => j = l
                    /\ Cardinality({l \in 1..j - 1 : written[l].seq > written[j].seq}) <= 1
  BY DEF OvertakenOnceAtMost
<1>1. OnlySwaps(written, {}, seq, dropped)
  BY SwapsOfShorter DEF StreamInv, NodeInv, SwapsOnly, Way, TypeOK
<1> DEFINE Overtakers == {l \in 1..j - 1 : written[l].seq > written[j].seq}
<1>2. \A l, m \in Overtakers : l = m
  BY <1>1 DEF OnlySwaps
<1>3. Cardinality(Overtakers) <= 1
  <2> HIDE DEF Overtakers
  <2>1. CASE Overtakers = {}
    BY <2>1, FS_EmptySet
  <2>2. ASSUME NEW l \in Overtakers PROVE Cardinality(Overtakers) <= 1
    <3>1. Overtakers = {l}
      BY <1>2
    <3>2. QED
      BY <3>1, FS_Singleton
  <2>3. QED
    BY <2>1, <2>2
<1>4. QED
  BY <1>1, <1>3 DEF OnlySwaps

\* All the disorder a service sees is the node's single swaps, whatever breaks:
\* the handlers of StreamDetections and the streams between them skip, swap and
\* repeat nothing, for any length of the chain and any number of batches.
THEOREM OrderAlongTheWay == Spec => []OnlySwapsOnTheWay
<1>1. StreamInv => OnlySwapsOnTheWay
  BY PrefixesFollow, SwapsFollow DEF OnlySwapsOnTheWay
<1>2. QED
  BY <1>1, StreamInvariance, PTL

\* In a chain where nothing broke and all have ended, all logs are equal.
LEMMA AllLogsAreWritten ==
  ASSUME StreamInv, Sound, node = "done", NEW k \in Services
  PROVE  log[k] = written
<1> USE DEF StreamInv, LinkInv
<1>1. ASSUME NEW l \in Services
      PROVE  service[l] = "done" /\ log[l] = Sent(l)
  <2>1. service[l] = "done"
    BY FirstService DEF SoundLosesNothing, Services
  <2>2. wire[l] = <<>> /\ Received(l) = Sent(l)
    BY <2>1 DEF SoundLosesNothing
  <2>3. Received(l) = log[l]
    BY <2>1, <2>2, LinkTypes, ConcatEmptySeq DEF Received, Coming
  <2>4. QED
    BY <2>1, <2>2, <2>3
<1> DEFINE Differ == {l \in Services : log[l] # written}
<1>2. CASE Differ = {}
  BY <1>2
<1>3. CASE Differ # {}
  <2>1. Differ \subseteq Nat
    BY DEF Services
  <2>2. PICK l \in Differ : \A m \in Differ : l <= m
    BY <1>3, <2>1, LeastNumber
  <2>3. CASE l = 1
    BY <1>1, <2>3 DEF Sent
  <2>4. CASE l # 1
    <3>1. l - 1 \in Services /\ l - 1 \notin Differ
      BY <2>2, <2>4, StreamAssumption DEF Services
    <3>2. log[l] = log[l - 1]
      BY <1>1, <2>4, <3>1 DEF Sent, PassedOn
    <3>3. QED
      BY <2>2, <3>1, <3>2
  <2>5. QED
    BY <2>3, <2>4
<1>4. QED
  BY <1>2, <1>3

\* If the node ends with success, nothing of what it did not mean to drop is
\* missing from what it wrote, and unless a stream broke nothing is missing from
\* any service: closing from the node down the chain and answering from its end
\* up is enough for that.
THEOREM SuccessDelivers == Spec => []SuccessIsDelivery
<1>1. StreamInv => SuccessIsDelivery
  <2> SUFFICES ASSUME StreamInv, node = "done", \A k \in Services : link[k] # "broken"
               PROVE  /\ {written[j].seq : j \in DOMAIN written} = (1..seq - 1) \ dropped
                      /\ \A k \in Services : log[k] = written
    BY DEF SuccessIsDelivery
  <2>1. Sound
    BY DEF Sound
  <2>2. Way = written /\ delayed = {}
    BY WayWritten DEF StreamInv, NodeInv, Phases
  <2>3. 1..seq - 1 \subseteq dropped \cup Numbers(written)
    BY <2>1, <2>2 DEF StreamInv, NodeInv, AllNumbered
  <2>4. \A j \in DOMAIN written : written[j].seq \in 1..seq - 1 /\ written[j].seq \notin dropped
    <3>1. \A b \in Batch : b.seq \in 1..MaxBatches
      BY DEF Batch
    <3>2. \A j \in DOMAIN written : written[j] \in Batch
      BY DEF StreamInv, TypeOK
    <3>3. OnlySwaps(written, {}, seq, dropped) /\ seq \in Int
      BY <2>2 DEF StreamInv, NodeInv, SwapsOnly, TypeOK
    <3>4. QED
      BY <3>1, <3>2, <3>3 DEF OnlySwaps
  <2>5. QED
    BY <2>1, <2>3, <2>4, AllLogsAreWritten DEF Numbers
<1>2. QED
  BY <1>1, StreamInvariance, PTL

=============================================================================
