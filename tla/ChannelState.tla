----------------------------- MODULE ChannelState -----------------------------
(***************************************************************************)
(* The delivery state a vhost keeps for one AMQP channel,                  *)
(* ChannelDeliveryState of vhost/delivery.go, and the operations of        *)
(* delivery.go, ack.go, consumer.go and recover.go on it.                  *)
(*                                                                         *)
(* The state is one record, so that the modules that compose channels,     *)
(* queues and consumers share the operators below.  Each operator is one   *)
(* critical section of the channel state's mu.                             *)
(*                                                                         *)
(* A DeliveryRecord is shared by pointer between three Go maps.  Here      *)
(* UnackedByTag is the set of the records, and the two other indexes hold  *)
(* the tags of the records they point to.                                  *)
(***************************************************************************)
EXTENDS Integers, FiniteSets

CONSTANTS Queues,        \* queue names
          ConsumerTags,  \* consumer tags
          Messages,      \* message identities
          NoConsumer     \* the consumer tag of a basic.get delivery

ASSUME NoConsumerAssumption == NoConsumer \notin ConsumerTags

DeliveryRecord ==
    [tag       : Nat,
     ctag      : ConsumerTags \cup {NoConsumer},
     queue     : Queues,
     msg       : Messages,
     deleted   : BOOLEAN,   \* QueueDeleted
     cancelled : BOOLEAN]   \* ConsumerCancelled

FromGet(r) == r.ctag = NoConsumer

ChannelDeliveryState ==
    [last       : Nat,                             \* LastDeliveryTag
     unacked    : SUBSET DeliveryRecord,           \* UnackedByTag
     byConsumer : [ConsumerTags -> SUBSET Nat],    \* UnackedByConsumer
     byGet      : SUBSET Nat,                      \* UnackedByGet
     global     : BOOLEAN,                         \* PrefetchGlobal
     globalPf   : Nat,                             \* GlobalPrefetchCount
     nextPf     : Nat,                             \* NextPrefetchCount
     flow       : BOOLEAN,                         \* FlowActive
     signal     : BOOLEAN]                         \* a token in unackedChanged

(* What GetOrCreateChannelDelivery and HandleBasicQos allocate. *)
NewChannelState ==
    [last       |-> 0,
     unacked    |-> {},
     byConsumer |-> [c \in ConsumerTags |-> {}],
     byGet      |-> {},
     global     |-> FALSE,
     globalPf   |-> 0,
     nextPf     |-> 0,
     flow       |-> TRUE,
     signal     |-> FALSE]

-----------------------------------------------------------------------------
(***************************************************************************)
(* Tracking a delivery.  The next tag is last + 1; a no-ack delivery takes *)
(* a tag and leaves no record.                                             *)
(***************************************************************************)
NewRecord(t, c, q, m) ==
    [tag |-> t, ctag |-> c, queue |-> q, msg |-> m,
     deleted |-> FALSE, cancelled |-> FALSE]

TakeTag(s) == [s EXCEPT !.last = s.last + 1]

TrackConsumer(s, c, q, m) ==
    [s EXCEPT !.last          = s.last + 1,
              !.unacked       = s.unacked \cup {NewRecord(s.last + 1, c, q, m)},
              !.byConsumer[c] = @ \cup {s.last + 1}]

TrackGet(s, q, m) ==
    [s EXCEPT !.last    = s.last + 1,
              !.unacked = s.unacked \cup {NewRecord(s.last + 1, NoConsumer, q, m)},
              !.byGet   = s.byGet \cup {s.last + 1}]

(***************************************************************************)
(* untrackDeliverySource and deleteUnackedDelivery, on a set T of tags.    *)
(***************************************************************************)
(* Mutant: a basic.get delivery is looked for in UnackedByConsumer only. *)
UntrackConsumerOnly(s, T) ==
    [s EXCEPT !.byConsumer = [c \in ConsumerTags |-> s.byConsumer[c] \ T]]

UntrackSource(s, T) ==
    [s EXCEPT !.byConsumer = [c \in ConsumerTags |-> s.byConsumer[c] \ T],
              !.byGet      = s.byGet \ T]

DeleteUnacked(s, T) ==
    [UntrackSource(s, T) EXCEPT !.unacked = {r \in s.unacked : r.tag \notin T}]

(***************************************************************************)
(* popUnackedRecords: the records an ack, nack or reject removes.  With    *)
(* multiple, tag 0 stands for every outstanding delivery and any other tag *)
(* must be outstanding itself; without it, tag 0 is never outstanding.  A  *)
(* tag that is not outstanding is a channel exception (ValidAck is false). *)
(***************************************************************************)
ValidAck(s, t, multiple) ==
    \/ \E r \in s.unacked : r.tag = t
    \/ multiple /\ t = 0

AckedRecords(s, t, multiple) ==
    {r \in s.unacked : IF multiple THEN t = 0 \/ r.tag <= t ELSE r.tag = t}

Tags(R) == {r.tag : r \in R}

PopUnacked(s, t, multiple) ==
    [DeleteUnacked(s, Tags(AckedRecords(s, t, multiple))) EXCEPT !.signal = TRUE]

(***************************************************************************)
(* detachQueueDeliveriesLocked, for one channel: the deliveries of a       *)
(* deleted queue stay outstanding, and leave the other two indexes.        *)
(***************************************************************************)
OfQueue(s, q) == {r \in s.unacked : r.queue = q /\ ~r.deleted}

MarkDeleted(r) == [r EXCEPT !.deleted = TRUE]

DetachQueue(s, q) ==
    [UntrackSource(s, Tags(OfQueue(s, q))) EXCEPT
        !.unacked = (s.unacked \ OfQueue(s, q))
                      \cup {MarkDeleted(r) : r \in OfQueue(s, q)}]

(***************************************************************************)
(* detachConsumerDeliveries: the deliveries UnackedByConsumer holds for c. *)
(***************************************************************************)
OfConsumer(s, c) == {r \in s.unacked : r.tag \in s.byConsumer[c]}

MarkCancelled(r) == [r EXCEPT !.cancelled = TRUE]

DetachConsumer(s, c) ==
    [s EXCEPT !.unacked       = (s.unacked \ OfConsumer(s, c))
                                  \cup {MarkCancelled(r) : r \in OfConsumer(s, c)},
              !.byConsumer[c] = {}]

(* fetchUnackedMessages: what a close or a basic.recover may requeue. *)
FetchUnacked(s) == {r \in s.unacked : ~r.deleted}

(* Mutant: basic.recover starts over with a fresh state. *)
ClearAll(s) == NewChannelState

(* Mutant: basic.recover forgets UnackedByTag. *)
ClearSources(s) ==
    [s EXCEPT !.byConsumer = [c \in ConsumerTags |-> {}], !.byGet = {}]

(* The indexes basic.recover installs.  It does not signal unackedChanged. *)
ClearIndexes(s) ==
    [s EXCEPT !.unacked    = {},
              !.byConsumer = [c \in ConsumerTags |-> {}],
              !.byGet      = {}]

-----------------------------------------------------------------------------
(* HandleBasicQos and HandleChannelFlow. *)
SetQos(s, n, global) ==
    IF global THEN [s EXCEPT !.global = TRUE, !.globalPf = n]
              ELSE [s EXCEPT !.nextPf = n]

SetFlow(s, active) == [s EXCEPT !.flow = active]

(* Mutant: one delivery less than the client asked for. *)
ConsumerPrefetchLess(s) == IF s.global THEN 0 ELSE s.nextPf - 1

(* The prefetch RegisterConsumer gives a consumer; 0 is no limit. *)
ConsumerPrefetch(s) == IF s.global THEN 0 ELSE s.nextPf

(* Mutant: throttled only when the limit is exceeded. *)
ThrottleLate(s, c, pf) ==
    \/ ~s.flow
    \/ s.global /\ s.globalPf > 0 /\ Cardinality(s.unacked) > s.globalPf
    \/ ~s.global /\ pf > 0 /\ Cardinality(s.byConsumer[c]) > pf

(* shouldThrottle, for a consumer with tag c and prefetch pf. *)
ShouldThrottle(s, c, pf) ==
    \/ ~s.flow
    \/ s.global /\ s.globalPf > 0 /\ Cardinality(s.unacked) >= s.globalPf
    \/ ~s.global /\ pf > 0 /\ Cardinality(s.byConsumer[c]) >= pf

(***************************************************************************)
(* The three indexes agree, as the comment on the indexes of               *)
(* ChannelDeliveryState says: every delivery is in UnackedByTag, and in    *)
(* the index of its source until its consumer is cancelled or its queue is *)
(* deleted; no delivery tag is used twice.                                 *)
(***************************************************************************)
CountsFor(r, c) == r.ctag = c /\ ~r.cancelled /\ ~r.deleted

IndexesAgree(s) ==
    /\ \A r \in s.unacked : r.tag > 0 /\ r.tag <= s.last
    /\ \A r1, r2 \in s.unacked : r1.tag = r2.tag => r1 = r2
    /\ \A c \in ConsumerTags :
          /\ \A n \in s.byConsumer[c] : \E r \in s.unacked : r.tag = n /\ CountsFor(r, c)
          /\ \A r \in s.unacked : CountsFor(r, c) => r.tag \in s.byConsumer[c]
    /\ \A n \in s.byGet : \E r \in s.unacked : r.tag = n /\ FromGet(r) /\ ~r.deleted
    /\ \A r \in s.unacked : FromGet(r) /\ ~r.deleted => r.tag \in s.byGet
=============================================================================
