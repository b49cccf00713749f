--------------------------- MODULE ChannelDelivery ---------------------------
(***************************************************************************)
(* One AMQP channel from channel.open to its close: the consumers on it,   *)
(* the delivery goroutines of the queues they consume from, and the        *)
(* connection's goroutine, which runs the client's methods one at a time.  *)
(*                                                                         *)
(* deliverMessage reads the throttle state of a consumer in one critical   *)
(* section of the channel's mu and deliverToConsumer tracks the delivery   *)
(* in another, so the two are separate steps, with the frame write and the *)
(* removal of a failed delivery after them.  What happens to a message     *)
(* outside the channel is in module Delivery; here any message may come.   *)
(***************************************************************************)
EXTENDS ChannelState

CONSTANTS Prefetches,   \* the prefetch counts the client may set
          MaxTag,       \* bound on LastDeliveryTag, a uint64 in the code
          Handler       \* the connection's goroutine, as a delivering thread

ASSUME ChannelAssumption ==
    /\ Prefetches \subseteq Nat
    /\ MaxTag \in Nat
    /\ Handler \notin Queues
    /\ Queues # {}
    /\ Messages # {}
    /\ ConsumerTags # {}

Threads == Queues \cup {Handler}

VARIABLES ch,      \* the channel's ChannelDeliveryState
          cons,    \* the consumer registered under each tag
          thread,  \* each thread's delivery in progress
          redo     \* what a basic.recover(requeue=false) has left to redeliver

vars == <<ch, cons, thread, redo>>

(* Consumer: Active, QueueName, PrefetchCount and Props.NoAck. *)
Consumer == [active : BOOLEAN, queue : Queues, pf : Nat, noAck : BOOLEAN]

(***************************************************************************)
(* A thread is idle, has found consumer ctag not throttled ("admitted"),   *)
(* or has tracked the delivery and is writing its frames ("sending").      *)
(* live is the Active flag of the consumer object it holds: a consumer     *)
(* registered later under the same tag is another object.                  *)
(***************************************************************************)
Thread == [pc   : {"idle", "admitted", "sending"},
           ctag : ConsumerTags \cup {NoConsumer},
           msg  : Messages,
           live : BOOLEAN,
           tag  : Nat]

(* The one type invariant. *)
TypeOK ==
    /\ ch \in ChannelDeliveryState
    /\ cons \in [ConsumerTags -> Consumer]
    /\ thread \in [Threads -> Thread]
    /\ redo \subseteq DeliveryRecord

Idle == [pc |-> "idle", ctag |-> NoConsumer, msg |-> CHOOSE m \in Messages : TRUE,
         live |-> FALSE, tag |-> 0]

Unregistered == [active |-> FALSE, queue |-> CHOOSE q \in Queues : TRUE,
                 pf |-> 0, noAck |-> FALSE]

Init ==
    /\ ch = NewChannelState
    /\ cons = [c \in ConsumerTags |-> Unregistered]
    /\ thread = [t \in Threads |-> Idle]
    /\ redo = {}

-----------------------------------------------------------------------------
(***************************************************************************)
(* A delivery.  The thread of queue q picks one of the queue's consumers   *)
(* that is not throttled; the handler redelivers to the consumer a record  *)
(* of the recover names, whatever its prefetch.                            *)
(***************************************************************************)
Hold(c, m) ==
    [pc |-> "admitted", ctag |-> c, msg |-> m, live |-> TRUE, tag |-> 0]

Admit(q, c, m) ==
    /\ thread[q].pc = "idle"
    /\ cons[c].active /\ cons[c].queue = q
    /\ ~ShouldThrottle(ch, c, cons[c].pf)
    /\ thread' = [thread EXCEPT ![q] = Hold(c, m)]
    /\ UNCHANGED <<ch, cons, redo>>

(* Mutant: the second Active check, under mu, is left out. *)
TrackUnchecked(t) ==
    /\ thread[t].pc = "admitted"
    /\ ch.last < MaxTag
    /\ ch' = TrackConsumer(ch, thread[t].ctag, cons[thread[t].ctag].queue, thread[t].msg)
    /\ thread' = [thread EXCEPT ![t].pc = "sending", ![t].tag = ch.last + 1]
    /\ UNCHANGED <<cons, redo>>

(* The Active check under mu, then the delivery tag and the record. *)
Track(t) ==
    /\ thread[t].pc = "admitted"
    /\ IF thread[t].live
       THEN /\ ch.last < MaxTag
            /\ ch' = LET c == thread[t].ctag
                     IN  IF cons[c].noAck THEN TakeTag(ch)
                         ELSE TrackConsumer(ch, c, cons[c].queue, thread[t].msg)
            /\ thread' = [thread EXCEPT ![t].pc = "sending", ![t].tag = ch.last + 1]
       ELSE /\ thread' = [thread EXCEPT ![t] = Idle]
            /\ UNCHANGED ch
    /\ UNCHANGED <<cons, redo>>

Sent(t) ==
    /\ thread[t].pc = "sending"
    /\ thread' = [thread EXCEPT ![t] = Idle]
    /\ UNCHANGED <<ch, cons, redo>>

(* The record of a failed write is removed, if it is still there. *)
SendFailed(t) ==
    /\ thread[t].pc = "sending"
    /\ ch' = DeleteUnacked(ch, {thread[t].tag})
    /\ thread' = [thread EXCEPT ![t] = Idle]
    /\ UNCHANGED <<cons, redo>>

-----------------------------------------------------------------------------
(***************************************************************************)
(* The client's methods, one at a time.                                    *)
(***************************************************************************)
HandlerFree == redo = {} /\ thread[Handler].pc = "idle"

(* basic.ack, basic.nack and basic.reject; an unknown tag changes nothing  *)
(* here and closes the channel.                                            *)
Acknowledge(t, multiple) ==
    /\ HandlerFree
    /\ ValidAck(ch, t, multiple)
    /\ ch' = PopUnacked(ch, t, multiple)
    /\ UNCHANGED <<cons, thread, redo>>

BasicGet(q, m, noAck) ==
    /\ HandlerFree
    /\ ch.last < MaxTag
    /\ ch' = IF noAck THEN TakeTag(ch) ELSE TrackGet(ch, q, m)
    /\ UNCHANGED <<cons, thread, redo>>

BasicQos(n, global) ==
    /\ HandlerFree
    /\ ch' = SetQos(ch, n, global)
    /\ UNCHANGED <<cons, thread, redo>>

ChannelFlow(active) ==
    /\ HandlerFree
    /\ ch' = SetFlow(ch, active)
    /\ UNCHANGED <<cons, thread, redo>>

RegisterConsumer(c, q, noAck) ==
    /\ HandlerFree
    /\ ~cons[c].active
    /\ cons' = [cons EXCEPT ![c] = [active |-> TRUE, queue |-> q,
                                    pf |-> ConsumerPrefetch(ch), noAck |-> noAck]]
    /\ UNCHANGED <<ch, thread, redo>>

(* Clearing Active on the consumers in C, as the threads that hold one see, *)
(* and dropping them from the registry.                                     *)
Deactivate(C) ==
    /\ cons' = [c \in ConsumerTags |-> IF c \in C THEN Unregistered ELSE cons[c]]
    /\ thread' = [t \in Threads |-> [thread[t] EXCEPT !.live = @ /\ thread[t].ctag \notin C]]

(* A consumer is cancelled by basic.cancel, which looks it up by channel   *)
(* number and tag and so may come from another connection, or by a         *)
(* delivery loop that failed to deliver to it: neither waits for this      *)
(* connection's goroutine.                                                 *)
CancelConsumer(c) ==
    /\ cons[c].active
    /\ Deactivate({c})
    /\ ch' = DetachConsumer(ch, c)
    /\ UNCHANGED redo

(* The queue is deleted, by this connection or another. *)
DeleteQueue(q) ==
    /\ Deactivate({c \in ConsumerTags : cons[c].active /\ cons[c].queue = q})
    /\ ch' = DetachQueue(ch, q)
    /\ UNCHANGED redo

(***************************************************************************)
(* basic.recover takes every record at once.  With requeue they leave the  *)
(* channel; without it those of a consumer that still has the tag are      *)
(* redelivered one by one, and the others are requeued.                    *)
(***************************************************************************)
BasicRecover(requeue) ==
    /\ HandlerFree
    /\ ch' = ClearIndexes(ch)
    /\ redo' = IF requeue THEN {}
               ELSE {r \in FetchUnacked(ch) : ~FromGet(r) /\ ~r.cancelled}
    /\ UNCHANGED <<cons, thread>>

Redeliver(r) ==
    /\ thread[Handler].pc = "idle"
    /\ r \in redo
    /\ redo' = redo \ {r}
    /\ thread' = IF cons[r.ctag].active
                 THEN [thread EXCEPT ![Handler] = Hold(r.ctag, r.msg)]
                 ELSE thread
    /\ UNCHANGED <<ch, cons>>

-----------------------------------------------------------------------------
Next ==
    \/ \E q \in Queues, c \in ConsumerTags, m \in Messages : Admit(q, c, m)
    \/ \E t \in Threads : Track(t) \/ Sent(t) \/ SendFailed(t)
    \/ \E t \in 0..MaxTag, multiple \in BOOLEAN : Acknowledge(t, multiple)
    \/ \E q \in Queues, m \in Messages, noAck \in BOOLEAN : BasicGet(q, m, noAck)
    \/ \E n \in Prefetches, global \in BOOLEAN : BasicQos(n, global)
    \/ \E active \in BOOLEAN : ChannelFlow(active)
    \/ \E c \in ConsumerTags, q \in Queues, noAck \in BOOLEAN : RegisterConsumer(c, q, noAck)
    \/ \E c \in ConsumerTags : CancelConsumer(c)
    \/ \E q \in Queues : DeleteQueue(q)
    \/ \E requeue \in BOOLEAN : BasicRecover(requeue)
    \/ \E r \in redo : Redeliver(r)

Spec == Init /\ [][Next]_vars

-----------------------------------------------------------------------------
(***************************************************************************)
(* The three indexes of unacked deliveries agree at every moment, whatever *)
(* acks, failed writes, cancels, queue deletions and recovers interleave   *)
(* (delivery.go, ack.go, consumer.go).                                     *)
(***************************************************************************)
IndexConsistent == IndexesAgree(ch)

(***************************************************************************)
(* A consumer that reuses a tag inherits nothing: a delivery that still    *)
(* counts against a consumer tag is one of the consumer registered under   *)
(* it now, from that consumer's queue (detachConsumerDeliveries,           *)
(* detachQueueDeliveriesLocked and the Active check of deliverToConsumer). *)
(***************************************************************************)
NoInheritedDelivery ==
    \A r \in ch.unacked :
        (~FromGet(r) /\ ~r.cancelled /\ ~r.deleted) =>
            cons[r.ctag].active /\ cons[r.ctag].queue = r.queue

(***************************************************************************)
(* Delivery tags only grow, and a delivery that was acked, taken back or   *)
(* lost never becomes outstanding again under its tag: a second ack of it  *)
(* is the 406 the client counts on to find double acks                     *)
(* (unknownDeliveryTagError), whatever interleaves with it.                *)
(***************************************************************************)
SettledTagStaysSettled ==
    [][/\ ch'.last >= ch.last
       /\ \A r \in ch'.unacked :
             r.tag <= ch.last => \E x \in ch.unacked : x.tag = r.tag]_vars

(***************************************************************************)
(* A consumer never has more unacked deliveries than its prefetch, though  *)
(* the throttle check and the delivery are separate critical sections, as  *)
(* long as basic.recover(requeue=false) redelivers nothing: redelivery     *)
(* does not ask shouldThrottle.  Of the channel-wide limit (global) it     *)
(* says nothing: two loops may pass the check for the same slot.           *)
(***************************************************************************)
WithinPrefetch ==
    \A c \in ConsumerTags :
        (cons[c].active /\ cons[c].pf > 0 /\ ~ch.global) =>
            Cardinality(ch.byConsumer[c]) <= cons[c].pf

NoRedelivery == redo = {}

PrefetchRespected == []NoRedelivery => []WithinPrefetch
=============================================================================
