---------------------------- MODULE MessageQueue ----------------------------
(***************************************************************************)
(* The RabbitMQ queue between the transmit service, which publishes chat   *)
(* messages, and the message storage service, which consumes them, as both *)
(* use it through class MQClient (src/code/server/common/rabbitmq.hpp).    *)
(*                                                                         *)
(* The broker is external and modelled by what AMQP promises the client:   *)
(* messages are pushed to the consumer in queue order, each with the next  *)
(* delivery tag of its channel; an acknowledgement names a tag; naming one *)
(* that is not outstanding is a channel error, and the broker then closes  *)
(* the channel; what was delivered and not acknowledged when a channel     *)
(* goes away returns to the front of the queue, marked as redelivered.     *)
(* No prefetch limit is set, so the broker never waits for the consumer.   *)
(***************************************************************************)
EXTENDS Integers, Sequences, SequencesExt

CONSTANT Message   \* chat messages, told apart by their message_id

VARIABLES
  published,  \* messages for which publish() returned true
  outbuf,     \* of them, those still in the publisher's send buffer
  lost,       \* ghost: those that were in the buffer of a publisher that died
  queue,      \* the broker's queue: [msg, red], red once delivered before
  unacked,    \* delivered on the present channel and not acknowledged
  inbox,      \* deliveries the consumer process has not called back yet
  acks,       \* tags the consumer has acknowledged, on their way
  chan,       \* the consumer: "none" (process down), "open", or "closed" by
              \* the broker while the process goes on
  nextTag,    \* the delivery tag the channel uses next
  handled     \* ghost: messages the callback has run for

queueVars ==
  <<published, outbuf, lost, queue, unacked, inbox, acks, chan, nextTag, handled>>

Entry == [msg : Message, red : BOOLEAN]
Delivery == [msg : Message, red : BOOLEAN, tag : Nat]

InitQueue ==
  /\ published = {} /\ outbuf = <<>> /\ lost = {}
  /\ queue = <<>>
  /\ unacked = <<>> /\ inbox = <<>> /\ acks = <<>>
  /\ chan = "none"
  /\ nextTag = 1
  /\ handled = {}

-----------------------------------------------------------------------------

(* MQClient::publish returns true as soon as the frame is in the buffer of *)
(* the connection; the event loop sends it later.                          *)
Publish(m) ==
  /\ m \notin published
  /\ published' = published \cup {m}
  /\ outbuf' = Append(outbuf, m)
  /\ UNCHANGED <<lost, queue, unacked, inbox, acks, chan, nextTag, handled>>

Flush ==
  /\ outbuf # <<>>
  /\ outbuf' = Tail(outbuf)
  /\ queue' = Append(queue, [msg |-> Head(outbuf), red |-> FALSE])
  /\ UNCHANGED <<published, lost, unacked, inbox, acks, chan, nextTag, handled>>

(* The publishing process dies with what it had buffered. *)
PublisherDies ==
  /\ outbuf # <<>>
  /\ lost' = lost \cup ToSet(outbuf)
  /\ outbuf' = <<>>
  /\ UNCHANGED <<published, queue, unacked, inbox, acks, chan, nextTag, handled>>

(* The storage service starts: MQClient's constructor opens a connection   *)
(* and a channel, declareComponents declares, consume subscribes.          *)
Consume ==
  /\ chan = "none"
  /\ chan' = "open"
  /\ nextTag' = 1
  /\ UNCHANGED <<published, outbuf, lost, queue, unacked, inbox, acks, handled>>

Deliver ==
  /\ chan = "open"
  /\ queue # <<>>
  /\ LET d == [msg |-> Head(queue).msg, red |-> Head(queue).red, tag |-> nextTag]
     IN /\ unacked' = Append(unacked, d)
        /\ inbox' = Append(inbox, d)
  /\ queue' = Tail(queue)
  /\ nextTag' = nextTag + 1
  /\ UNCHANGED <<published, outbuf, lost, acks, chan, handled>>

AckNext(d) == d.tag + 1                         \* mutant of AckTag

(* The tag the lambda of MQClient::consume acknowledges after the callback *)
(* has returned: `_channel->ack(redelivered)`, a bool used as the tag.     *)
AckTag(d) == IF d.red THEN 1 ELSE 0

(* The lambda's end: cb(body, size) has returned, and the ack is sent.     *)
Received ==
  /\ chan # "none"
  /\ inbox # <<>>
  /\ handled' = handled \cup {Head(inbox).msg}
  /\ acks' = Append(acks, AckTag(Head(inbox)))
  /\ inbox' = Tail(inbox)
  /\ UNCHANGED <<published, outbuf, lost, queue, unacked, chan, nextTag>>

(* What the channel had outstanding goes back to the front of the queue.   *)
Requeue ==
  /\ queue' = [k \in 1..Len(unacked) |-> [msg |-> unacked[k].msg, red |-> TRUE]]
              \o queue
  /\ unacked' = <<>>

(* The broker takes the next acknowledgement: of an outstanding delivery,  *)
(* of a tag it does not know (PRECONDITION_FAILED), or on a channel that   *)
(* it has closed (ignored).                                                *)
BrokerAck ==
  /\ acks # <<>>
  /\ acks' = Tail(acks)
  /\ \/ /\ chan = "open"
        /\ \E k \in 1..Len(unacked) :
             /\ unacked[k].tag = Head(acks)
             /\ unacked' = RemoveAt(unacked, k)
        /\ UNCHANGED <<queue, chan>>
     \/ /\ chan = "open"
        /\ \A k \in 1..Len(unacked) : unacked[k].tag # Head(acks)
        /\ chan' = "closed"
        /\ Requeue
     \/ /\ chan = "closed"
        /\ UNCHANGED <<queue, unacked, chan>>
  /\ UNCHANGED <<published, outbuf, lost, inbox, nextTag, handled>>

(* The storage service dies; acknowledgements not yet taken are lost.      *)
ConsumerDies ==
  /\ chan # "none"
  /\ chan' = "none"
  /\ Requeue
  /\ inbox' = <<>> /\ acks' = <<>>
  /\ UNCHANGED <<published, outbuf, lost, nextTag, handled>>

NextQueue ==
  \/ \E m \in Message : Publish(m)
  \/ Flush
  \/ PublisherDies
  \/ Consume
  \/ Deliver
  \/ Received
  \/ BrokerAck
  \/ ConsumerDies

SpecQueue == InitQueue /\ [][NextQueue]_queueVars

-----------------------------------------------------------------------------
QueueTypeOK ==
  /\ published \subseteq Message
  /\ outbuf \in Seq(Message)
  /\ lost \subseteq Message
  /\ queue \in Seq(Entry)
  /\ unacked \in Seq(Delivery)
  /\ inbox \in Seq(Delivery)
  /\ acks \in Seq(Nat)
  /\ chan \in {"none", "open", "closed"}
  /\ nextTag \in Nat \ {0}
  /\ handled \subseteq Message

(* The broker, or the publisher's buffer on the way to it, still has m. *)
InBuffer(m) == \E k \in 1..Len(outbuf) : outbuf[k] = m
InQueue(m) == \E k \in 1..Len(queue) : queue[k].msg = m
IsUnacked(m) == \E k \in 1..Len(unacked) : unacked[k].msg = m

(* The broker forgets a message only after the callback has run for it:    *)
(* whatever order deliveries, acknowledgements, channel errors and crashes *)
(* take, a published message is buffered, queued, outstanding or handled,  *)
(* or it died in the publisher's buffer.  (MQClient::publish, consume)     *)
NothingForgotten ==
  \A m \in published :
    InBuffer(m) \/ InQueue(m) \/ IsUnacked(m) \/ m \in handled \/ m \in lost
=============================================================================
