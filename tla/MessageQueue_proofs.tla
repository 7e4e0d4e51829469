------------------------ MODULE MessageQueue_proofs ------------------------
(***************************************************************************)
(* Proofs about MessageQueue, for any number of messages, redeliveries and *)
(* crashes: its types, and that the broker forgets a message only after    *)
(* the callback has run for it (NothingForgotten), although the consumer   *)
(* acknowledges tags that are not those of its deliveries.                 *)
(*                                                                         *)
(* Why it holds: the only tag ever acknowledged that the broker may know   *)
(* is 1, and when the first acknowledgement is under way, the first        *)
(* delivery of the channel has been handled (FirstIsHandled).              *)
(***************************************************************************)
EXTENDS MessageQueue, SequenceTheorems, TLAPS

(* What the queue actions do to sequences.                                 *)
LEMMA RemoveAtProperties ==
  ASSUME NEW S, NEW s \in Seq(S), NEW k \in 1..Len(s)
  PROVE  /\ RemoveAt(s, k) \in Seq(S)
         /\ \A i \in 1..Len(s) : i # k =>
              \E j \in 1..Len(RemoveAt(s, k)) : RemoveAt(s, k)[j] = s[i]
         /\ \A j \in 1..Len(RemoveAt(s, k)) :
              \E i \in 1..Len(s) : i # k /\ RemoveAt(s, k)[j] = s[i]
<1> DEFINE a == SubSeq(s, 1, k - 1)
           b == SubSeq(s, k + 1, Len(s))
<1>1. Len(s) \in Nat /\ k \in 1..Len(s)
  BY LenProperties
<1>2. /\ a \in Seq(S) /\ Len(a) = k - 1
      /\ \A i \in 1..(k - 1) : a[i] = s[i]
  <2>1. \A i \in 1..(k - 1) : s[i] \in S
    BY <1>1, ElementOfSeq
  <2> QED
    BY <1>1, <2>1, SubSeqProperties
<1>3. /\ b \in Seq(S) /\ Len(b) = Len(s) - k
      /\ \A i \in 1..(Len(s) - k) : b[i] = s[k + i]
  <2>1. \A i \in (k + 1)..Len(s) : s[i] \in S
    BY <1>1, ElementOfSeq
  <2> QED
    BY <1>1, <2>1, SubSeqProperties
<1>4. /\ a \o b \in Seq(S) /\ Len(a \o b) = Len(s) - 1
      /\ \A i \in 1..(Len(s) - 1) : (a \o b)[i] = IF i < k THEN s[i] ELSE s[i + 1]
  <2> HIDE DEF a, b
  <2>1. /\ a \o b \in Seq(S) /\ Len(a \o b) = Len(a) + Len(b)
        /\ \A i \in 1..(Len(a) + Len(b)) :
             (a \o b)[i] = IF i <= Len(a) THEN a[i] ELSE b[i - Len(a)]
    BY <1>2, <1>3, ConcatProperties
  <2>2. Len(a) + Len(b) = Len(s) - 1
    BY <1>1, <1>2, <1>3
  <2>3. ASSUME NEW i \in 1..(Len(s) - 1), i < k
        PROVE  (a \o b)[i] = s[i]
    BY <1>1, <1>2, <2>1, <2>2, <2>3
  <2>4. ASSUME NEW i \in 1..(Len(s) - 1), ~(i < k)
        PROVE  (a \o b)[i] = s[i + 1]
    <3>1. i - (k - 1) \in 1..(Len(s) - k) /\ k + (i - (k - 1)) = i + 1
      BY <1>1, <2>4
    <3>2. b[i - (k - 1)] = s[i + 1]
      BY <1>3, <3>1
    <3> QED
      BY <1>1, <1>2, <2>1, <2>2, <2>4, <3>2
  <2> QED
    BY <2>1, <2>2, <2>3, <2>4
<1>5. RemoveAt(s, k) = a \o b
  BY DEF RemoveAt
<1> HIDE DEF a, b
<1>6. ASSUME NEW i \in 1..Len(s), i # k
      PROVE  \E j \in 1..Len(a \o b) : (a \o b)[j] = s[i]
  <2>1. CASE i < k
    <3>1. i \in 1..Len(a \o b) /\ (a \o b)[i] = s[i]
      BY <1>1, <1>4, <2>1
    <3> QED
      BY <3>1
  <2>2. CASE i > k
    <3>1. i - 1 \in 1..(Len(s) - 1) /\ ~(i - 1 < k) /\ (i - 1) + 1 = i
      BY <1>1, <2>2
    <3>2. i - 1 \in 1..Len(a \o b) /\ (a \o b)[i - 1] = s[i]
      BY <1>4, <3>1
    <3> QED
      BY <3>2
  <2> QED
    BY <1>1, <1>6, <2>1, <2>2
<1>7. ASSUME NEW j \in 1..Len(a \o b)
      PROVE  \E i \in 1..Len(s) : i # k /\ (a \o b)[j] = s[i]
  <2>1. CASE j < k
    BY <1>1, <1>4, <2>1
  <2>2. CASE ~(j < k)
    <3>1. j + 1 \in 1..Len(s) /\ j + 1 # k /\ (a \o b)[j] = s[j + 1]
      BY <1>1, <1>4, <2>2
    <3> QED
      BY <3>1
  <2> QED
    BY <2>1, <2>2
<1> QED
  BY <1>4, <1>5, <1>6, <1>7

(* Requeueing keeps the queue a sequence of entries and loses nothing.     *)
LEMMA RequeueProperties ==
  ASSUME unacked \in Seq(Delivery), queue \in Seq(Entry), Requeue
  PROVE  /\ queue' \in Seq(Entry)
         /\ \A m \in Message : InQueue(m) \/ IsUnacked(m) => InQueue(m)'
<1> DEFINE n == Len(unacked)
           back == [k \in 1..n |-> [msg |-> unacked[k].msg, red |-> TRUE]]
<1>1. n \in Nat /\ \A k \in 1..n : unacked[k] \in Delivery
  BY ElementOfSeq, LenProperties
<1>2. back \in [1..n -> Entry]
  BY <1>1 DEF Delivery, Entry
<1>3. back \in Seq(Entry) /\ Len(back) = n
  <2> HIDE DEF back
  <2>1. back \in Seq(Entry)
    BY <1>1, <1>2, SeqDef
  <2>2. DOMAIN back = 1..n /\ DOMAIN back = 1..Len(back) /\ Len(back) \in Nat
    BY <1>2, <2>1, LenProperties
  <2> QED
    BY <1>1, <2>1, <2>2
<1>4. queue' = back \o queue
  BY DEF Requeue
<1>5. /\ queue' \in Seq(Entry)
      /\ Len(queue') = n + Len(queue)
      /\ \A k \in 1..(n + Len(queue)) :
           queue'[k] = IF k <= n THEN back[k] ELSE queue[k - n]
  <2> HIDE DEF back, n
  <2> QED
    BY <1>3, <1>4, ConcatProperties
<1>6. Len(queue) \in Nat
  BY LenProperties
<1>7. ASSUME NEW m \in Message, InQueue(m)
      PROVE  InQueue(m)'
  <2>1. PICK k \in 1..Len(queue) : queue[k].msg = m
    BY <1>7 DEF InQueue
  <2>2. n + k \in 1..Len(queue') /\ queue'[n + k] = queue[k]
    BY <1>1, <1>5, <1>6
  <2> QED
    BY <2>1, <2>2 DEF InQueue
<1>8. ASSUME NEW m \in Message, IsUnacked(m)
      PROVE  InQueue(m)'
  <2>1. PICK k \in 1..n : unacked[k].msg = m
    BY <1>8 DEF IsUnacked
  <2>2. k \in 1..Len(queue') /\ queue'[k].msg = m
    BY <1>1, <1>5, <1>6, <2>1
  <2> QED
    BY <2>2 DEF InQueue
<1> QED
  BY <1>5, <1>7, <1>8

-----------------------------------------------------------------------------
(* The inductive invariant.  While the process is down nothing of it is on *)
(* the channel; a channel that has delivered nothing has nothing under way;*)
(* and the first delivery of a channel, as long as it is outstanding, has  *)
(* been handled or is the next to be, with no acknowledgement under way.   *)
DownIsEmpty ==
  chan = "none" => unacked = <<>> /\ inbox = <<>> /\ acks = <<>>

FreshIsEmpty ==
  chan = "open" /\ nextTag = 1 => unacked = <<>> /\ inbox = <<>> /\ acks = <<>>

TagsAreKnown == \A j \in 1..Len(acks) : acks[j] \in {0, 1}

TagsArePositive == \A k \in 1..Len(unacked) : unacked[k].tag # 0

FirstIsHandled ==
  chan = "open" =>
    \A k \in 1..Len(unacked) : unacked[k].tag = 1 =>
      \/ unacked[k].msg \in handled
      \/ inbox # <<>> /\ Head(inbox) = unacked[k] /\ acks = <<>>

QueueInv ==
  /\ QueueTypeOK
  /\ DownIsEmpty /\ FreshIsEmpty /\ TagsAreKnown /\ TagsArePositive
  /\ FirstIsHandled
  /\ NothingForgotten

LEMMA QueueInit == InitQueue => QueueInv
<1> SUFFICES ASSUME InitQueue
             PROVE  QueueInv
  OBVIOUS
<1>1. QueueTypeOK
  BY EmptySeq DEF InitQueue, QueueTypeOK
<1>2. DownIsEmpty /\ FreshIsEmpty /\ NothingForgotten
  BY DEF InitQueue, DownIsEmpty, FreshIsEmpty, NothingForgotten
<1>3. Len(acks) = 0 /\ Len(unacked) = 0
  BY EmptySeq DEF InitQueue
<1>4. TagsAreKnown /\ TagsArePositive /\ FirstIsHandled
  BY <1>3 DEF TagsAreKnown, TagsArePositive, FirstIsHandled
<1> QED
  BY <1>1, <1>2, <1>4 DEF QueueInv

(* Steps of the publisher.                                                 *)
LEMMA PublishInv ==
  ASSUME QueueInv, NEW m \in Message, Publish(m)
  PROVE  QueueInv'
<1>1. /\ UNCHANGED <<lost, queue, unacked, inbox, acks, chan, nextTag, handled>>
      /\ published' = published \cup {m} /\ outbuf' = Append(outbuf, m)
      /\ outbuf \in Seq(Message)
  BY DEF Publish, QueueInv, QueueTypeOK
<1>2. /\ outbuf' \in Seq(Message) /\ Len(outbuf') = Len(outbuf) + 1
      /\ \A k \in 1..Len(outbuf) : outbuf'[k] = outbuf[k]
      /\ outbuf'[Len(outbuf) + 1] = m
  BY <1>1, AppendProperties
<1>3. Len(outbuf) \in Nat
  BY <1>1, LenProperties
<1>4. QueueTypeOK'
  BY <1>1, <1>2 DEF QueueInv, QueueTypeOK
<1>5. NothingForgotten'
  <2>1. InBuffer(m)'
    BY <1>2, <1>3 DEF InBuffer
  <2>2. \A x \in published : InBuffer(x) => InBuffer(x)'
    BY <1>2, <1>3 DEF InBuffer
  <2> QED
    BY <1>1, <2>1, <2>2 DEF QueueInv, NothingForgotten, InQueue, IsUnacked
<1> QED
  BY <1>1, <1>4, <1>5 DEF QueueInv, DownIsEmpty, FreshIsEmpty, TagsAreKnown,
     TagsArePositive, FirstIsHandled

LEMMA FlushInv ==
  ASSUME QueueInv, Flush
  PROVE  QueueInv'
<1> DEFINE e == [msg |-> Head(outbuf), red |-> FALSE]
<1>1. /\ UNCHANGED <<published, lost, unacked, inbox, acks, chan, nextTag, handled>>
      /\ outbuf # <<>> /\ outbuf' = Tail(outbuf) /\ queue' = Append(queue, e)
      /\ outbuf \in Seq(Message) /\ queue \in Seq(Entry)
  BY DEF Flush, QueueInv, QueueTypeOK
<1>2. /\ Head(outbuf) \in Message /\ outbuf' \in Seq(Message)
      /\ Len(outbuf') = Len(outbuf) - 1
      /\ \A k \in 1..Len(outbuf') : outbuf'[k] = outbuf[k + 1]
      /\ Head(outbuf) = outbuf[1]
  BY <1>1, HeadTailProperties
<1>3. e \in Entry
  BY <1>2 DEF Entry
<1>4. /\ queue' \in Seq(Entry) /\ Len(queue') = Len(queue) + 1
      /\ \A k \in 1..Len(queue) : queue'[k] = queue[k]
      /\ queue'[Len(queue) + 1] = e
  <2> HIDE DEF e
  <2> QED
    BY <1>1, <1>3, AppendProperties
<1>5. Len(outbuf) \in Nat /\ Len(queue) \in Nat
  BY <1>1, LenProperties
<1>6. QueueTypeOK'
  BY <1>1, <1>2, <1>4 DEF QueueInv, QueueTypeOK
<1>7. \A x \in Message : InQueue(x) => InQueue(x)'
  BY <1>4, <1>5 DEF InQueue
<1>8. ASSUME NEW x \in Message, InBuffer(x)
      PROVE  InBuffer(x)' \/ InQueue(x)'
  <2>1. PICK k \in 1..Len(outbuf) : outbuf[k] = x
    BY <1>8 DEF InBuffer
  <2>2. CASE k = 1
    <3>1. Len(queue) + 1 \in 1..Len(queue') /\ queue'[Len(queue) + 1].msg = x
      BY <1>2, <1>4, <1>5, <2>1, <2>2
    <3> QED
      BY <3>1 DEF InQueue
  <2>3. CASE k # 1
    <3>1. k - 1 \in 1..Len(outbuf') /\ outbuf'[k - 1] = outbuf[(k - 1) + 1]
      BY <1>2, <1>5, <2>1, <2>3
    <3>2. (k - 1) + 1 = k
      BY <1>5, <2>1
    <3> QED
      BY <2>1, <3>1, <3>2 DEF InBuffer
  <2> QED
    BY <2>2, <2>3
<1>9. NothingForgotten'
  BY <1>1, <1>7, <1>8 DEF QueueInv, QueueTypeOK, NothingForgotten, IsUnacked
<1> QED
  BY <1>1, <1>6, <1>9 DEF QueueInv, DownIsEmpty, FreshIsEmpty, TagsAreKnown,
     TagsArePositive, FirstIsHandled

LEMMA PublisherDiesInv ==
  ASSUME QueueInv, PublisherDies
  PROVE  QueueInv'
<1>1. /\ UNCHANGED <<published, queue, unacked, inbox, acks, chan, nextTag, handled>>
      /\ outbuf' = <<>> /\ lost' = lost \cup ToSet(outbuf) /\ outbuf \in Seq(Message)
  BY DEF PublisherDies, QueueInv, QueueTypeOK
<1>2. DOMAIN outbuf = 1..Len(outbuf) /\ \A k \in 1..Len(outbuf) : outbuf[k] \in Message
  BY <1>1, LenProperties, ElementOfSeq
<1>3. ToSet(outbuf) \subseteq Message
  BY <1>2 DEF ToSet
<1>4. QueueTypeOK'
  BY <1>1, <1>3, EmptySeq DEF QueueInv, QueueTypeOK
<1>5. \A x \in Message : InBuffer(x) => x \in lost'
  BY <1>1, <1>2 DEF InBuffer, ToSet
<1>6. NothingForgotten'
  BY <1>1, <1>5 DEF QueueInv, QueueTypeOK, NothingForgotten, InQueue, IsUnacked
<1> QED
  BY <1>1, <1>4, <1>6 DEF QueueInv, DownIsEmpty, FreshIsEmpty, TagsAreKnown,
     TagsArePositive, FirstIsHandled

(* Steps of the consumer and of the broker.                                *)
LEMMA ConsumeInv ==
  ASSUME QueueInv, Consume
  PROVE  QueueInv'
<1>1. /\ UNCHANGED <<published, outbuf, lost, queue, unacked, inbox, acks, handled>>
      /\ chan' = "open" /\ nextTag' = 1
      /\ unacked = <<>> /\ inbox = <<>> /\ acks = <<>>
  BY DEF Consume, QueueInv, DownIsEmpty
<1>2. QueueTypeOK' /\ DownIsEmpty' /\ FreshIsEmpty' /\ TagsAreKnown' /\ TagsArePositive'
  BY <1>1 DEF QueueInv, QueueTypeOK, DownIsEmpty, FreshIsEmpty, TagsAreKnown,
     TagsArePositive
<1>3. FirstIsHandled'
  BY <1>1, EmptySeq DEF FirstIsHandled
<1>4. NothingForgotten'
  BY <1>1 DEF QueueInv, NothingForgotten, InBuffer, InQueue, IsUnacked
<1> QED
  BY <1>2, <1>3, <1>4 DEF QueueInv

LEMMA DeliverInv ==
  ASSUME QueueInv, Deliver
  PROVE  QueueInv'
<1> DEFINE d == [msg |-> Head(queue).msg, red |-> Head(queue).red, tag |-> nextTag]
<1>1. /\ UNCHANGED <<published, outbuf, lost, acks, chan, handled>>
      /\ chan = "open" /\ queue # <<>>
      /\ unacked' = Append(unacked, d) /\ inbox' = Append(inbox, d)
      /\ queue' = Tail(queue) /\ nextTag' = nextTag + 1
      /\ queue \in Seq(Entry) /\ unacked \in Seq(Delivery) /\ inbox \in Seq(Delivery)
      /\ nextTag \in Nat \ {0}
  BY DEF Deliver, QueueInv, QueueTypeOK
<1>2. /\ Head(queue) \in Entry /\ Head(queue) = queue[1]
      /\ queue' \in Seq(Entry) /\ Len(queue') = Len(queue) - 1
      /\ \A k \in 1..Len(queue') : queue'[k] = queue[k + 1]
  BY <1>1, HeadTailProperties
<1>3. d \in Delivery /\ d.msg = queue[1].msg /\ d.tag = nextTag
  BY <1>1, <1>2 DEF Entry, Delivery
<1> HIDE DEF d
<1>4. /\ unacked' \in Seq(Delivery) /\ Len(unacked') = Len(unacked) + 1
      /\ \A k \in 1..Len(unacked) : unacked'[k] = unacked[k]
      /\ unacked'[Len(unacked) + 1] = d
  BY <1>1, <1>3, AppendProperties
<1>5. /\ inbox' \in Seq(Delivery) /\ Len(inbox') = Len(inbox) + 1 /\ inbox' # <<>>
      /\ \A k \in 1..Len(inbox) : inbox'[k] = inbox[k]
      /\ inbox'[Len(inbox) + 1] = d
  BY <1>1, <1>3, AppendProperties
<1>6. Len(queue) \in Nat /\ Len(unacked) \in Nat /\ Len(inbox) \in Nat
  BY <1>1, LenProperties
<1>7. QueueTypeOK'
  BY <1>1, <1>2, <1>4, <1>5 DEF QueueInv, QueueTypeOK
<1>8. DownIsEmpty' /\ FreshIsEmpty' /\ TagsAreKnown'
  BY <1>1 DEF QueueInv, DownIsEmpty, FreshIsEmpty, TagsAreKnown
<1>9. TagsArePositive'
  BY <1>1, <1>3, <1>4, <1>6 DEF QueueInv, TagsArePositive
<1>10. ASSUME NEW k \in 1..Len(unacked'), unacked'[k].tag = 1
       PROVE  \/ unacked'[k].msg \in handled
              \/ inbox' # <<>> /\ Head(inbox') = unacked'[k] /\ acks = <<>>
  <2>0. Head(inbox') = inbox'[1]
    BY <1>5, HeadTailProperties
  <2>1. CASE k = Len(unacked) + 1
    <3>1. nextTag = 1
      BY <1>3, <1>4, <1>10, <2>1
    <3>2. inbox = <<>> /\ acks = <<>>
      BY <1>1, <3>1 DEF QueueInv, FreshIsEmpty
    <3>3. inbox'[1] = d
      BY <1>5, <3>2, EmptySeq
    <3> QED
      BY <1>4, <1>5, <2>0, <2>1, <3>2, <3>3
  <2>2. CASE k # Len(unacked) + 1
    <3>1. k \in 1..Len(unacked) /\ unacked'[k] = unacked[k]
      BY <1>4, <1>6, <2>2
    <3>2. CASE inbox # <<>> /\ Head(inbox) = unacked[k] /\ acks = <<>>
      <4>1. Head(inbox) = inbox[1] /\ 1 \in 1..Len(inbox)
        BY <1>1, <1>6, <3>2, HeadTailProperties, EmptySeq
      <4> QED
        BY <1>5, <2>0, <3>1, <3>2, <4>1
    <3> QED
      BY <1>1, <1>10, <3>1, <3>2 DEF QueueInv, FirstIsHandled
  <2> QED
    BY <2>1, <2>2
<1>11. FirstIsHandled'
  BY <1>1, <1>10 DEF FirstIsHandled
<1>12. ASSUME NEW x \in Message, InQueue(x)
       PROVE  InQueue(x)' \/ IsUnacked(x)'
  <2>1. PICK k \in 1..Len(queue) : queue[k].msg = x
    BY <1>12 DEF InQueue
  <2>2. CASE k = 1
    <3>1. Len(unacked) + 1 \in 1..Len(unacked') /\ unacked'[Len(unacked) + 1].msg = x
      BY <1>3, <1>4, <1>6, <2>1, <2>2
    <3> QED
      BY <3>1 DEF IsUnacked
  <2>3. CASE k # 1
    <3>1. k - 1 \in 1..Len(queue') /\ (k - 1) + 1 = k
      BY <1>2, <1>6, <2>1, <2>3
    <3> QED
      BY <1>2, <2>1, <3>1 DEF InQueue
  <2> QED
    BY <2>2, <2>3
<1>13. \A x \in Message : IsUnacked(x) => IsUnacked(x)'
  BY <1>4, <1>6 DEF IsUnacked
<1>14. NothingForgotten'
  BY <1>1, <1>12, <1>13 DEF QueueInv, QueueTypeOK, NothingForgotten, InBuffer
<1> QED
  BY <1>7, <1>8, <1>9, <1>11, <1>14 DEF QueueInv

LEMMA ReceivedInv ==
  ASSUME QueueInv, Received
  PROVE  QueueInv'
<1> DEFINE d == Head(inbox)
<1>1. /\ UNCHANGED <<published, outbuf, lost, queue, unacked, chan, nextTag>>
      /\ chan # "none" /\ inbox # <<>>
      /\ handled' = handled \cup {d.msg}
      /\ acks' = Append(acks, AckTag(d)) /\ inbox' = Tail(inbox)
      /\ inbox \in Seq(Delivery) /\ acks \in Seq(Nat)
  BY DEF Received, QueueInv, QueueTypeOK
<1>2. d \in Delivery /\ inbox' \in Seq(Delivery)
  BY <1>1, HeadTailProperties
<1> HIDE DEF d
<1>3. d.msg \in Message /\ AckTag(d) \in {0, 1}
  BY <1>2 DEF Delivery, AckTag
<1>4. /\ acks' \in Seq(Nat) /\ Len(acks') = Len(acks) + 1
      /\ \A k \in 1..Len(acks) : acks'[k] = acks[k]
      /\ acks'[Len(acks) + 1] = AckTag(d)
  BY <1>1, <1>3, AppendProperties
<1>5. Len(acks) \in Nat
  BY <1>1, LenProperties
<1>6. QueueTypeOK'
  BY <1>1, <1>2, <1>3, <1>4 DEF QueueInv, QueueTypeOK
<1>7. DownIsEmpty' /\ TagsArePositive'
  BY <1>1 DEF QueueInv, DownIsEmpty, TagsArePositive
<1>8. FreshIsEmpty'
  BY <1>1 DEF QueueInv, FreshIsEmpty
<1>9. TagsAreKnown'
  BY <1>3, <1>4, <1>5 DEF QueueInv, TagsAreKnown
<1>10. FirstIsHandled'
  BY <1>1 DEF QueueInv, FirstIsHandled, d
<1>11. NothingForgotten'
  BY <1>1 DEF QueueInv, NothingForgotten, InBuffer, InQueue, IsUnacked
<1> QED
  BY <1>6, <1>7, <1>8, <1>9, <1>10, <1>11 DEF QueueInv

(* Whatever the broker takes an acknowledgement for, nothing is forgotten. *)
LEMMA BrokerAckInv ==
  ASSUME QueueInv, BrokerAck
  PROVE  QueueInv'
<1>1. /\ UNCHANGED <<published, outbuf, lost, inbox, nextTag, handled>>
      /\ acks # <<>> /\ acks' = Tail(acks)
      /\ acks \in Seq(Nat) /\ unacked \in Seq(Delivery) /\ queue \in Seq(Entry)
  BY DEF BrokerAck, QueueInv, QueueTypeOK
<1>2. /\ acks' \in Seq(Nat) /\ Len(acks') = Len(acks) - 1 /\ Head(acks) = acks[1]
      /\ \A k \in 1..Len(acks') : acks'[k] = acks[k + 1]
  BY <1>1, HeadTailProperties
<1>3. Len(acks) \in Nat /\ Len(acks) # 0
  BY <1>1, LenProperties, EmptySeq
<1>4. TagsAreKnown' /\ Head(acks) \in {0, 1}
  BY <1>2, <1>3 DEF QueueInv, TagsAreKnown
<1>5. chan # "none"
  BY <1>1 DEF QueueInv, DownIsEmpty
<1>6. CASE /\ chan = "open"
           /\ \E k \in 1..Len(unacked) : /\ unacked[k].tag = Head(acks)
                                         /\ unacked' = RemoveAt(unacked, k)
           /\ UNCHANGED <<queue, chan>>
  <2>1. PICK k \in 1..Len(unacked) : /\ unacked[k].tag = Head(acks)
                                     /\ unacked' = RemoveAt(unacked, k)
    BY <1>6
  <2>2. /\ unacked' \in Seq(Delivery)
        /\ \A i \in 1..Len(unacked) : i # k =>
             \E j \in 1..Len(unacked') : unacked'[j] = unacked[i]
        /\ \A j \in 1..Len(unacked') :
             \E i \in 1..Len(unacked) : i # k /\ unacked'[j] = unacked[i]
    BY <1>1, <2>1, RemoveAtProperties
  <2>3. unacked[k].tag = 1
    BY <1>4, <2>1 DEF QueueInv, TagsArePositive
  <2>4. unacked[k].msg \in handled
    BY <1>1, <1>6, <2>1, <2>3 DEF QueueInv, FirstIsHandled
  <2>5. QueueTypeOK'
    BY <1>1, <1>2, <1>6, <2>2 DEF QueueInv, QueueTypeOK
  <2>6. DownIsEmpty' /\ FreshIsEmpty'
    BY <1>1, <1>6 DEF QueueInv, DownIsEmpty, FreshIsEmpty
  <2>7. TagsArePositive'
    BY <2>2 DEF QueueInv, TagsArePositive
  <2>8. FirstIsHandled'
    BY <1>1, <1>6, <2>2 DEF QueueInv, FirstIsHandled
  <2>9. \A x \in Message : IsUnacked(x) => IsUnacked(x)' \/ x \in handled
    BY <2>2, <2>4 DEF IsUnacked
  <2>10. NothingForgotten'
    BY <1>1, <1>6, <2>9 DEF QueueInv, QueueTypeOK, NothingForgotten, InBuffer, InQueue
  <2> QED
    BY <1>4, <2>5, <2>6, <2>7, <2>8, <2>10 DEF QueueInv
<1>7. CASE chan = "open" /\ chan' = "closed" /\ Requeue
  <2>1. /\ queue' \in Seq(Entry) /\ unacked' = <<>>
        /\ \A m \in Message : InQueue(m) \/ IsUnacked(m) => InQueue(m)'
    BY <1>1, <1>7, RequeueProperties DEF Requeue
  <2>2. Len(unacked') = 0 /\ unacked' \in Seq(Delivery)
    BY <2>1, EmptySeq
  <2>3. QueueTypeOK'
    BY <1>1, <1>2, <1>7, <2>1, <2>2 DEF QueueInv, QueueTypeOK
  <2>4. NothingForgotten'
    BY <1>1, <2>1 DEF QueueInv, QueueTypeOK, NothingForgotten, InBuffer
  <2> QED
    BY <1>4, <1>7, <2>2, <2>3, <2>4 DEF QueueInv, DownIsEmpty, FreshIsEmpty,
       TagsArePositive, FirstIsHandled
<1>8. CASE chan = "closed" /\ UNCHANGED <<queue, unacked, chan>>
  BY <1>1, <1>2, <1>4, <1>8 DEF QueueInv, QueueTypeOK, DownIsEmpty, FreshIsEmpty,
     TagsArePositive, FirstIsHandled, NothingForgotten, InBuffer, InQueue, IsUnacked
<1> QED
  BY <1>6, <1>7, <1>8 DEF BrokerAck

LEMMA ConsumerDiesInv ==
  ASSUME QueueInv, ConsumerDies
  PROVE  QueueInv'
<1>1. /\ UNCHANGED <<published, outbuf, lost, nextTag, handled>>
      /\ chan' = "none" /\ inbox' = <<>> /\ acks' = <<>> /\ Requeue
      /\ unacked \in Seq(Delivery) /\ queue \in Seq(Entry)
  BY DEF ConsumerDies, QueueInv, QueueTypeOK
<1>2. /\ queue' \in Seq(Entry) /\ unacked' = <<>>
      /\ \A m \in Message : InQueue(m) \/ IsUnacked(m) => InQueue(m)'
  BY <1>1, RequeueProperties DEF Requeue
<1>3. Len(unacked') = 0 /\ Len(acks') = 0
  BY <1>1, <1>2, EmptySeq
<1>4. QueueTypeOK'
  BY <1>1, <1>2, EmptySeq DEF QueueInv, QueueTypeOK
<1>5. NothingForgotten'
  BY <1>1, <1>2 DEF QueueInv, QueueTypeOK, NothingForgotten, InBuffer
<1> QED
  BY <1>1, <1>2, <1>3, <1>4, <1>5 DEF QueueInv, DownIsEmpty, FreshIsEmpty,
     TagsAreKnown, TagsArePositive, FirstIsHandled

LEMMA QueueStep == QueueInv /\ [NextQueue]_queueVars => QueueInv'
<1> SUFFICES ASSUME QueueInv, [NextQueue]_queueVars
             PROVE  QueueInv'
  OBVIOUS
<1>1. ASSUME NEW m \in Message, Publish(m)
      PROVE  QueueInv'
  BY <1>1, PublishInv
<1>2. CASE UNCHANGED queueVars
  BY <1>2 DEF queueVars, QueueInv, QueueTypeOK, DownIsEmpty, FreshIsEmpty,
     TagsAreKnown, TagsArePositive, FirstIsHandled, NothingForgotten, InBuffer,
     InQueue, IsUnacked
<1> QED
  BY <1>1, <1>2, FlushInv, PublisherDiesInv, ConsumeInv, DeliverInv, ReceivedInv,
     BrokerAckInv, ConsumerDiesInv DEF NextQueue

LEMMA QueueInvariant == SpecQueue => []QueueInv
  BY QueueInit, QueueStep, PTL DEF SpecQueue

-----------------------------------------------------------------------------
(* Tags stay positive, the sequences hold entries and deliveries: the      *)
(* types of the queue between MQClient::publish and MQClient::consume.     *)
THEOREM QueueTypeCorrect == SpecQueue => []QueueTypeOK
<1>1. QueueInv => QueueTypeOK
  BY DEF QueueInv
<1> QED
  BY <1>1, QueueInvariant, PTL

(* The broker forgets no published message before the callback has run for *)
(* it, although MQClient::consume acknowledges the redelivered flag as the *)
(* tag, and through any number of closed channels and crashes.             *)
THEOREM NothingIsForgotten == SpecQueue => []NothingForgotten
<1>1. QueueInv => NothingForgotten
  BY DEF QueueInv
<1> QED
  BY <1>1, QueueInvariant, PTL
=============================================================================
