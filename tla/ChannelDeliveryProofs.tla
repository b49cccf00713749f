----------------------- MODULE ChannelDeliveryProofs -----------------------
(***************************************************************************)
(* Proofs about ChannelDelivery, for any sets of queues, consumer tags and *)
(* messages, any prefetch counts and any bound on delivery tags.           *)
(***************************************************************************)
EXTENDS ChannelDelivery, ChannelStateProofs

(***************************************************************************)
(* The inductive invariant.  IndexConsistent and NoInheritedDelivery need  *)
(* each other, and both need to know what the delivering threads hold: a   *)
(* thread that still sees Active set holds the consumer registered under   *)
(* its tag, of its own queue if it is a delivery loop.                     *)
(***************************************************************************)
ThreadsHold ==
    \A t \in Threads :
        thread[t].live =>
            /\ thread[t].ctag \in ConsumerTags
            /\ cons[thread[t].ctag].active
            /\ t # Handler => cons[thread[t].ctag].queue = t

RedoHasConsumer == \A r \in redo : r.ctag \in ConsumerTags

IInv ==
    /\ TypeOK
    /\ IndexConsistent
    /\ NoInheritedDelivery
    /\ ThreadsHold
    /\ RedoHasConsumer

LEMMA UnregisteredType == Unregistered \in Consumer /\ ~Unregistered.active
BY ChannelAssumption DEF Unregistered, Consumer

LEMMA IdleType == Idle \in Thread /\ ~Idle.live /\ Idle.pc = "idle"
BY ChannelAssumption DEF Idle, Thread

LEMMA InitIInv == Init => IInv
<1> SUFFICES ASSUME Init PROVE IInv
  OBVIOUS
<1>1. TypeOK
  BY UnregisteredType, IdleType
  DEF Init, TypeOK, NewChannelState, ChannelDeliveryState
<1>2. IndexConsistent
  BY NewIndexes DEF Init, IndexConsistent
<1>3. NoInheritedDelivery
  BY DEF Init, NoInheritedDelivery, NewChannelState
<1>4. ThreadsHold /\ RedoHasConsumer
  BY IdleType DEF Init, ThreadsHold, RedoHasConsumer
<1> QED
  BY <1>1, <1>2, <1>3, <1>4 DEF IInv

(***************************************************************************)
(* Deactivating consumers, as cancels and queue deletions do.              *)
(***************************************************************************)
LEMMA DeactivateKeeps ==
    ASSUME IInv, NEW C \in SUBSET ConsumerTags, Deactivate(C)
    PROVE  /\ cons' \in [ConsumerTags -> Consumer]
           /\ thread' \in [Threads -> Thread]
           /\ ThreadsHold'
           /\ \A c \in ConsumerTags \ C : cons'[c] = cons[c]
<1>1. /\ cons \in [ConsumerTags -> Consumer]
      /\ thread \in [Threads -> Thread]
  BY DEF IInv, TypeOK
<1>2. \A c \in ConsumerTags : cons'[c] = IF c \in C THEN Unregistered ELSE cons[c]
  BY DEF Deactivate
<1>3. cons' \in [ConsumerTags -> Consumer]
  BY <1>1, UnregisteredType DEF Deactivate
<1>4. \A t \in Threads :
        /\ thread[t] \in Thread
        /\ thread'[t] = [thread[t] EXCEPT !.live = thread[t].live /\ thread[t].ctag \notin C]
  BY <1>1 DEF Deactivate
<1>5. \A t \in Threads :
        /\ thread'[t] \in Thread
        /\ thread'[t].live => thread[t].live /\ thread[t].ctag \notin C
        /\ thread'[t].ctag = thread[t].ctag
  BY <1>4 DEF Thread
<1>6. thread' \in [Threads -> Thread]
  BY <1>5 DEF Deactivate
<1>7. ThreadsHold'
  <2> SUFFICES ASSUME NEW t \in Threads, thread'[t].live
               PROVE  /\ thread'[t].ctag \in ConsumerTags
                      /\ cons'[thread'[t].ctag].active
                      /\ t # Handler => cons'[thread'[t].ctag].queue = t
    BY DEF ThreadsHold
  <2>1. /\ thread[t].live /\ thread[t].ctag \notin C
        /\ thread'[t].ctag = thread[t].ctag
    BY <1>5
  <2>2. /\ thread[t].ctag \in ConsumerTags
        /\ cons[thread[t].ctag].active
        /\ t # Handler => cons[thread[t].ctag].queue = t
    BY <2>1 DEF IInv, ThreadsHold
  <2> QED
    BY <1>2, <2>1, <2>2
<1> QED
  BY <1>2, <1>3, <1>6, <1>7

LEMMA CancelIInv ==
    ASSUME IInv, NEW c \in ConsumerTags, CancelConsumer(c)
    PROVE  IInv'
<1>1. /\ ch \in ChannelDeliveryState
      /\ redo \subseteq DeliveryRecord
      /\ IndexesAgree(ch)
      /\ Deactivate({c})
      /\ ch' = DetachConsumer(ch, c)
      /\ redo' = redo
  BY DEF IInv, TypeOK, CancelConsumer, IndexConsistent
<1>2. /\ cons' \in [ConsumerTags -> Consumer]
      /\ thread' \in [Threads -> Thread]
      /\ ThreadsHold'
      /\ \A e \in ConsumerTags \ {c} : cons'[e] = cons[e]
  BY <1>1, DeactivateKeeps
<1>3. TypeOK'
  BY <1>1, <1>2, DetachConsumerType DEF TypeOK
<1>4. IndexConsistent'
  BY <1>1, DetachConsumerIndexes DEF IndexConsistent
<1>5. NoInheritedDelivery'
  <2> SUFFICES ASSUME NEW r \in ch'.unacked, ~FromGet(r), ~r.cancelled, ~r.deleted
               PROVE  cons'[r.ctag].active /\ cons'[r.ctag].queue = r.queue
    BY DEF NoInheritedDelivery
  <2>1. r \in ch.unacked \ OfConsumer(ch, c)
    BY <1>1, DetachConsumerRecords
  <2>2. r.ctag \in ConsumerTags
    BY <2>1, <1>1 DEF ChannelDeliveryState, DeliveryRecord, FromGet
  <2>3. r.ctag # c
    BY <2>1, <2>2, <1>1 DEF OfConsumer, IndexesAgree, CountsFor
  <2> QED
    BY <1>2, <2>1, <2>2, <2>3 DEF IInv, NoInheritedDelivery
<1>6. RedoHasConsumer'
  BY <1>1 DEF IInv, RedoHasConsumer
<1> QED
  BY <1>2, <1>3, <1>4, <1>5, <1>6 DEF IInv

LEMMA DeleteQueueIInv ==
    ASSUME IInv, NEW q \in Queues, DeleteQueue(q)
    PROVE  IInv'
<1> DEFINE C == {c \in ConsumerTags : cons[c].active /\ cons[c].queue = q}
<1>1. /\ ch \in ChannelDeliveryState
      /\ redo \subseteq DeliveryRecord
      /\ IndexesAgree(ch)
      /\ Deactivate(C)
      /\ ch' = DetachQueue(ch, q)
      /\ redo' = redo
  BY DEF IInv, TypeOK, DeleteQueue, IndexConsistent
<1>2. /\ cons' \in [ConsumerTags -> Consumer]
      /\ thread' \in [Threads -> Thread]
      /\ ThreadsHold'
      /\ \A e \in ConsumerTags \ C : cons'[e] = cons[e]
  BY <1>1, DeactivateKeeps
<1>3. TypeOK'
  BY <1>1, <1>2, DetachQueueType DEF TypeOK
<1>4. IndexConsistent'
  BY <1>1, DetachQueueIndexes DEF IndexConsistent
<1>5. NoInheritedDelivery'
  <2> SUFFICES ASSUME NEW r \in ch'.unacked, ~FromGet(r), ~r.cancelled, ~r.deleted
               PROVE  cons'[r.ctag].active /\ cons'[r.ctag].queue = r.queue
    BY DEF NoInheritedDelivery
  <2>1. r \in ch.unacked \ OfQueue(ch, q)
    BY <1>1, DetachQueueRecords
  <2>2. r.ctag \in ConsumerTags
    BY <2>1, <1>1 DEF ChannelDeliveryState, DeliveryRecord, FromGet
  <2>3. cons[r.ctag].active /\ cons[r.ctag].queue = r.queue
    BY <2>1 DEF IInv, NoInheritedDelivery
  <2>4. r.queue # q
    BY <2>1 DEF OfQueue
  <2> QED
    BY <1>2, <2>2, <2>3, <2>4
<1>6. RedoHasConsumer'
  BY <1>1 DEF IInv, RedoHasConsumer
<1> QED
  BY <1>2, <1>3, <1>4, <1>5, <1>6 DEF IInv

(* A step that leaves the threads and the registry alone. *)
LEMMA ChannelOnlyIInv ==
    ASSUME IInv, UNCHANGED <<cons, thread, redo>>,
           ch' \in ChannelDeliveryState, IndexesAgree(ch'),
           \A r \in ch'.unacked : FromGet(r) \/ r \in ch.unacked
    PROVE  IInv'
BY DEF IInv, TypeOK, IndexConsistent, NoInheritedDelivery, ThreadsHold, RedoHasConsumer

LEMMA TrackIInv ==
    ASSUME IInv, NEW t \in Threads, Track(t)
    PROVE  IInv'
<1>1. /\ ch \in ChannelDeliveryState
      /\ ch.last \in Nat
      /\ cons \in [ConsumerTags -> Consumer]
      /\ thread \in [Threads -> Thread]
      /\ thread[t] \in Thread
      /\ IndexesAgree(ch)
  BY DEF IInv, TypeOK, ChannelDeliveryState, IndexConsistent
<1>2. CASE ~thread[t].live
  <2>1. /\ thread' = [thread EXCEPT ![t] = Idle]
        /\ UNCHANGED <<ch, cons, redo>>
    BY <1>2 DEF Track
  <2> QED
    BY <1>1, <2>1, IdleType
    DEF IInv, TypeOK, IndexConsistent, NoInheritedDelivery, ThreadsHold, RedoHasConsumer
<1>3. CASE thread[t].live
  <2> DEFINE c == thread[t].ctag
             n == NewRecord(ch.last + 1, c, cons[c].queue, thread[t].msg)
  <2>1. /\ ch' = IF cons[c].noAck THEN TakeTag(ch)
                 ELSE TrackConsumer(ch, c, cons[c].queue, thread[t].msg)
        /\ thread' = [thread EXCEPT ![t].pc = "sending", ![t].tag = ch.last + 1]
        /\ UNCHANGED <<cons, redo>>
    BY <1>3 DEF Track
  <2>2. /\ c \in ConsumerTags
        /\ cons[c].active
        /\ cons[c].queue \in Queues
        /\ thread[t].msg \in Messages
    BY <1>1, <1>3 DEF IInv, ThreadsHold, Consumer, Thread
  <2>3. /\ n.ctag = c
        /\ n.queue = cons[c].queue
    BY DEF NewRecord
  <2>4. /\ ch' \in ChannelDeliveryState
        /\ IndexesAgree(ch')
        /\ \A r \in ch'.unacked : r \in ch.unacked \/ r = n
    <3>1. CASE cons[c].noAck
      <4>1. ch' = TakeTag(ch)
        BY <2>1, <3>1
      <4>2. /\ ch'.last = ch.last + 1
            /\ ch'.unacked = ch.unacked
            /\ ch'.byConsumer = ch.byConsumer
            /\ ch'.byGet = ch.byGet
        BY <1>1, <4>1 DEF TakeTag, ChannelDeliveryState
      <4>3. \A r \in ch.unacked : r.tag \in Nat
        BY <1>1 DEF ChannelDeliveryState, DeliveryRecord
      <4>4. IndexesAgree(ch')
        BY <1>1, <4>2, <4>3 DEF IndexesAgree
      <4> QED
        BY <1>1, <4>1, <4>2, <4>4, TakeTagType
    <3>2. CASE ~cons[c].noAck
      <4>1. ch' = TrackConsumer(ch, c, cons[c].queue, thread[t].msg)
        BY <2>1, <3>2
      <4>2. ch'.unacked = ch.unacked \cup {n}
        BY <1>1, <4>1 DEF TrackConsumer, ChannelDeliveryState
      <4> QED
        BY <1>1, <2>2, <4>1, <4>2, TrackConsumerType, TrackConsumerIndexes
    <3> QED
      BY <3>1, <3>2
  <2> HIDE DEF n
  <2>5. \A u \in Threads :
          /\ thread'[u] \in Thread
          /\ thread'[u].live = thread[u].live
          /\ thread'[u].ctag = thread[u].ctag
    <3>1. /\ thread'[t] = [thread[t] EXCEPT !.pc = "sending", !.tag = ch.last + 1]
          /\ ch.last + 1 \in Nat
      BY <1>1, <2>1
    <3>2. /\ thread'[t] \in Thread
          /\ thread'[t].live = thread[t].live
          /\ thread'[t].ctag = thread[t].ctag
      BY <1>1, <3>1 DEF Thread
    <3>3. \A u \in Threads \ {t} : thread'[u] = thread[u]
      BY <1>1, <2>1
    <3> QED
      BY <1>1, <3>2, <3>3
  <2>6. thread' \in [Threads -> Thread]
    BY <1>1, <2>1, <2>5
  <2>7. TypeOK'
    BY <2>1, <2>4, <2>6 DEF IInv, TypeOK
  <2>8. NoInheritedDelivery'
    BY <2>1, <2>2, <2>3, <2>4 DEF IInv, NoInheritedDelivery
  <2>9. ThreadsHold' /\ RedoHasConsumer'
    BY <2>1, <2>5 DEF IInv, ThreadsHold, RedoHasConsumer
  <2> QED
    BY <2>4, <2>7, <2>8, <2>9 DEF IInv, IndexConsistent
<1> QED
  BY <1>2, <1>3

LEMMA NextIInv == IInv /\ [Next]_vars => IInv'
<1> SUFFICES ASSUME IInv, [Next]_vars PROVE IInv'
  OBVIOUS
<1>0. /\ ch \in ChannelDeliveryState
      /\ cons \in [ConsumerTags -> Consumer]
      /\ thread \in [Threads -> Thread]
      /\ redo \subseteq DeliveryRecord
      /\ IndexesAgree(ch)
      /\ ch.last \in Nat
      /\ \A r \in ch.unacked : r.tag \in Nat
  BY DEF IInv, TypeOK, IndexConsistent, ChannelDeliveryState, DeliveryRecord
<1>1. ASSUME NEW q \in Queues, NEW c \in ConsumerTags, NEW m \in Messages, Admit(q, c, m)
      PROVE  IInv'
  <2>1. /\ thread' = [thread EXCEPT ![q] = Hold(c, m)]
        /\ UNCHANGED <<ch, cons, redo>>
        /\ cons[c].active /\ cons[c].queue = q
        /\ q \in Threads
    BY <1>1 DEF Admit, Threads
  <2>2. Hold(c, m) \in Thread /\ Hold(c, m).ctag = c
    BY DEF Hold, Thread
  <2>3. TypeOK'
    BY <1>0, <2>1, <2>2 DEF TypeOK
  <2>4. ThreadsHold'
    BY <1>0, <2>1, <2>2 DEF IInv, ThreadsHold
  <2> QED
    BY <2>1, <2>3, <2>4 DEF IInv, IndexConsistent, NoInheritedDelivery, RedoHasConsumer
<1>2. ASSUME NEW t \in Threads, Track(t) PROVE IInv'
  BY <1>2, TrackIInv
<1>3. ASSUME NEW t \in Threads, Sent(t) PROVE IInv'
  BY <1>0, <1>3, IdleType
  DEF Sent, IInv, TypeOK, IndexConsistent, NoInheritedDelivery, ThreadsHold, RedoHasConsumer
<1>4. ASSUME NEW t \in Threads, SendFailed(t) PROVE IInv'
  <2>1. /\ ch' = DeleteUnacked(ch, {thread[t].tag})
        /\ thread' = [thread EXCEPT ![t] = Idle]
        /\ UNCHANGED <<cons, redo>>
    BY <1>4 DEF SendFailed
  <2>2. /\ ch' \in ChannelDeliveryState
        /\ IndexesAgree(ch')
        /\ ch'.unacked \subseteq ch.unacked
    <3>1. ch' \in ChannelDeliveryState
      BY <1>0, <2>1, DeleteUnackedType
    <3>2. IndexesAgree(ch')
      BY <1>0, <2>1, DeleteUnackedIndexes
    <3>3. ch'.unacked \subseteq ch.unacked
      BY <1>0, <2>1, DeleteUnackedShrinks
    <3> QED
      BY <3>1, <3>2, <3>3
  <2> QED
    BY <1>0, <2>1, <2>2, IdleType
    DEF IInv, TypeOK, IndexConsistent, NoInheritedDelivery, ThreadsHold, RedoHasConsumer
<1>5. ASSUME NEW t \in 0..MaxTag, NEW multiple \in BOOLEAN, Acknowledge(t, multiple)
      PROVE  IInv'
  <2>1. ch' = PopUnacked(ch, t, multiple) /\ UNCHANGED <<cons, thread, redo>>
    BY <1>5 DEF Acknowledge
  <2>2. /\ ch' \in ChannelDeliveryState
        /\ IndexesAgree(ch')
        /\ ch'.unacked \subseteq ch.unacked
    <3>1. ch' \in ChannelDeliveryState
      BY <1>0, <2>1, PopUnackedType
    <3>2. IndexesAgree(ch')
      BY <1>0, <2>1, PopUnackedIndexes
    <3>3. ch'.unacked \subseteq ch.unacked
      BY <1>0, <2>1, PopUnackedShrinks
    <3> QED
      BY <3>1, <3>2, <3>3
  <2> QED
    BY <2>1, <2>2, ChannelOnlyIInv
<1>6. ASSUME NEW q \in Queues, NEW m \in Messages, NEW noAck \in BOOLEAN, BasicGet(q, m, noAck)
      PROVE  IInv'
  <2>1. /\ ch' = IF noAck THEN TakeTag(ch) ELSE TrackGet(ch, q, m)
        /\ UNCHANGED <<cons, thread, redo>>
    BY <1>6 DEF BasicGet
  <2>2. CASE noAck
    <3>1. /\ ch'.last = ch.last + 1
          /\ ch'.unacked = ch.unacked
          /\ ch'.byConsumer = ch.byConsumer
          /\ ch'.byGet = ch.byGet
      BY <1>0, <2>1, <2>2 DEF TakeTag, ChannelDeliveryState
    <3>2. IndexesAgree(ch')
      BY <1>0, <3>1 DEF IndexesAgree
    <3> QED
      BY <1>0, <2>1, <2>2, <3>1, <3>2, TakeTagType, ChannelOnlyIInv
  <2>3. CASE ~noAck
    <3>1. ch' = TrackGet(ch, q, m)
      BY <2>1, <2>3
    <3>2. ch'.unacked = ch.unacked \cup {NewRecord(ch.last + 1, NoConsumer, q, m)}
      BY <1>0, <3>1 DEF TrackGet, ChannelDeliveryState
    <3>3. FromGet(NewRecord(ch.last + 1, NoConsumer, q, m))
      BY DEF FromGet, NewRecord
    <3> QED
      BY <1>0, <2>1, <3>1, <3>2, <3>3, TrackGetType, TrackGetIndexes, ChannelOnlyIInv
  <2> QED
    BY <2>2, <2>3
<1>7. ASSUME NEW n \in Prefetches, NEW global \in BOOLEAN, BasicQos(n, global) PROVE IInv'
  <2>1. ch' = SetQos(ch, n, global) /\ UNCHANGED <<cons, thread, redo>>
    BY <1>7 DEF BasicQos
  <2>2. n \in Nat
    BY ChannelAssumption
  <2>3. /\ ch' \in ChannelDeliveryState
        /\ ch'.last = ch.last
        /\ ch'.unacked = ch.unacked
        /\ ch'.byConsumer = ch.byConsumer
        /\ ch'.byGet = ch.byGet
    BY <1>0, <2>1, <2>2 DEF SetQos, ChannelDeliveryState
  <2>4. IndexesAgree(ch')
    BY <1>0, <2>3 DEF IndexesAgree
  <2> QED
    BY <2>1, <2>3, <2>4, ChannelOnlyIInv
<1>8. ASSUME NEW active \in BOOLEAN, ChannelFlow(active) PROVE IInv'
  <2>1. ch' = SetFlow(ch, active) /\ UNCHANGED <<cons, thread, redo>>
    BY <1>8 DEF ChannelFlow
  <2>2. /\ ch' \in ChannelDeliveryState
        /\ ch'.last = ch.last
        /\ ch'.unacked = ch.unacked
        /\ ch'.byConsumer = ch.byConsumer
        /\ ch'.byGet = ch.byGet
    BY <1>0, <2>1 DEF SetFlow, ChannelDeliveryState
  <2>3. IndexesAgree(ch')
    BY <1>0, <2>2 DEF IndexesAgree
  <2> QED
    BY <2>1, <2>2, <2>3, ChannelOnlyIInv
<1>9. ASSUME NEW c \in ConsumerTags, NEW q \in Queues, NEW noAck \in BOOLEAN,
             RegisterConsumer(c, q, noAck)
      PROVE  IInv'
  <2> DEFINE new == [active |-> TRUE, queue |-> q, pf |-> ConsumerPrefetch(ch), noAck |-> noAck]
  <2>1. /\ cons' = [cons EXCEPT ![c] = new]
        /\ ~cons[c].active
        /\ UNCHANGED <<ch, thread, redo>>
    BY <1>9 DEF RegisterConsumer
  <2>2. ConsumerPrefetch(ch) \in Nat
    BY <1>0 DEF ConsumerPrefetch, ChannelDeliveryState
  <2>3. new \in Consumer
    BY <2>2 DEF Consumer
  <2> HIDE DEF new
  <2>4. TypeOK'
    BY <1>0, <2>1, <2>3 DEF TypeOK
  <2>5. \A e \in ConsumerTags : cons[e].active => cons'[e] = cons[e]
    BY <1>0, <2>1
  <2>6. \A r \in ch.unacked : ~FromGet(r) => r.ctag \in ConsumerTags
    BY <1>0 DEF ChannelDeliveryState, DeliveryRecord, FromGet
  <2>7. NoInheritedDelivery'
    BY <2>1, <2>5, <2>6 DEF IInv, NoInheritedDelivery
  <2>8. ThreadsHold' /\ RedoHasConsumer'
    BY <2>1, <2>5 DEF IInv, ThreadsHold, RedoHasConsumer
  <2> QED
    BY <2>1, <2>4, <2>7, <2>8 DEF IInv, IndexConsistent
<1>10. ASSUME NEW c \in ConsumerTags, CancelConsumer(c) PROVE IInv'
  BY <1>10, CancelIInv
<1>11. ASSUME NEW q \in Queues, DeleteQueue(q) PROVE IInv'
  BY <1>11, DeleteQueueIInv
<1>12. ASSUME NEW requeue \in BOOLEAN, BasicRecover(requeue) PROVE IInv'
  <2>1. /\ ch' = ClearIndexes(ch)
        /\ redo' \subseteq {r \in FetchUnacked(ch) : ~FromGet(r) /\ ~r.cancelled}
        /\ UNCHANGED <<cons, thread>>
    BY <1>12 DEF BasicRecover
  <2>2. /\ ch' \in ChannelDeliveryState
        /\ IndexesAgree(ch')
        /\ ch'.unacked = {}
    BY <1>0, <2>1, ClearIndexesType, ClearIndexesAgree DEF ClearIndexes, ChannelDeliveryState
  <2>3. redo' \subseteq DeliveryRecord /\ RedoHasConsumer'
    BY <1>0, <2>1
    DEF FetchUnacked, ChannelDeliveryState, DeliveryRecord, FromGet, RedoHasConsumer
  <2> QED
    BY <2>1, <2>2, <2>3
    DEF IInv, TypeOK, IndexConsistent, NoInheritedDelivery, ThreadsHold
<1>13. ASSUME NEW r \in redo, Redeliver(r) PROVE IInv'
  <2>1. /\ redo' \subseteq redo
        /\ UNCHANGED <<ch, cons>>
        /\ r.ctag \in ConsumerTags
        /\ r.msg \in Messages
    BY <1>0, <1>13 DEF Redeliver, IInv, RedoHasConsumer, DeliveryRecord
  <2>2. CASE ~cons[r.ctag].active
    BY <1>13, <2>1, <2>2
    DEF Redeliver, IInv, TypeOK, IndexConsistent, NoInheritedDelivery, ThreadsHold, RedoHasConsumer
  <2>3. CASE cons[r.ctag].active
    <3>1. thread' = [thread EXCEPT ![Handler] = Hold(r.ctag, r.msg)] /\ Handler \in Threads
      BY <1>13, <2>3 DEF Redeliver, Threads
    <3>2. Hold(r.ctag, r.msg) \in Thread /\ Hold(r.ctag, r.msg).ctag = r.ctag
      BY <2>1 DEF Hold, Thread
    <3>3. TypeOK'
      BY <1>0, <2>1, <3>1, <3>2 DEF TypeOK
    <3>4. ThreadsHold'
      BY <1>0, <2>1, <2>3, <3>1, <3>2 DEF IInv, ThreadsHold
    <3> QED
      BY <2>1, <3>3, <3>4 DEF IInv, IndexConsistent, NoInheritedDelivery, RedoHasConsumer
  <2> QED
    BY <2>2, <2>3
<1>14. ASSUME UNCHANGED vars PROVE IInv'
  BY <1>14
  DEF vars, IInv, TypeOK, IndexConsistent, NoInheritedDelivery, ThreadsHold, RedoHasConsumer
<1> QED
  BY <1>1, <1>2, <1>3, <1>4, <1>5, <1>6, <1>7, <1>8, <1>9, <1>10, <1>11, <1>12, <1>13, <1>14
  DEF Next

(***************************************************************************)
(* In every behaviour of a channel the state has its type, the three       *)
(* indexes of delivery.go agree and a consumer that reuses a tag inherits  *)
(* no delivery.                                                            *)
(***************************************************************************)
THEOREM ChannelConsistent ==
    Spec => [](TypeOK /\ IndexConsistent /\ NoInheritedDelivery)
<1>1. IInv => TypeOK /\ IndexConsistent /\ NoInheritedDelivery
  BY DEF IInv
<1> QED
  BY <1>1, InitIInv, NextIInv, PTL DEF Spec

(***************************************************************************)
(* What a goroutine holds across the gaps between its locks is never       *)
(* delivered on behalf of a consumer registered later under the same tag   *)
(* (deliverToConsumer against RegisterConsumer).                           *)
(***************************************************************************)
THEOREM NothingInherited == Spec => []NoInheritedDelivery
  BY ChannelConsistent, PTL

(* The channel's state, its goroutines and its consumers have their types. *)
THEOREM ChannelTyped == Spec => []TypeOK
  BY ChannelConsistent, PTL

-----------------------------------------------------------------------------
(***************************************************************************)
(* Delivery tags only grow and a settled tag stays settled.                *)
(***************************************************************************)
SettledStep ==
    /\ ch'.last >= ch.last
    /\ \A r \in ch'.unacked : r.tag <= ch.last => \E x \in ch.unacked : x.tag = r.tag

LEMMA NextSettled == IInv /\ [Next]_vars => SettledStep
<1> SUFFICES ASSUME IInv, [Next]_vars PROVE SettledStep
  OBVIOUS
<1>0. /\ ch \in ChannelDeliveryState
      /\ ch.last \in Nat
      /\ \A r \in ch.unacked : r.tag \in Nat
  BY DEF IInv, TypeOK, ChannelDeliveryState, DeliveryRecord
<1>1. ASSUME ch'.last = ch.last \/ ch'.last = ch.last + 1,
             \A r \in ch'.unacked : \/ r.tag = ch.last + 1
                                    \/ \E x \in ch.unacked : x.tag = r.tag
      PROVE  SettledStep
  BY <1>0, <1>1 DEF SettledStep
<1>2. ASSUME ch' = ch PROVE SettledStep
  BY <1>0, <1>2 DEF SettledStep
<1>3. ASSUME NEW c, NEW q, NEW m, ch' = TrackConsumer(ch, c, q, m) PROVE SettledStep
  <2>1. /\ ch'.last = ch.last + 1
        /\ ch'.unacked = ch.unacked \cup {NewRecord(ch.last + 1, c, q, m)}
    BY <1>0, <1>3 DEF TrackConsumer, ChannelDeliveryState
  <2>2. NewRecord(ch.last + 1, c, q, m).tag = ch.last + 1
    BY DEF NewRecord
  <2> QED
    BY <1>1, <2>1, <2>2
<1>4. ASSUME NEW q, NEW m, ch' = TrackGet(ch, q, m) PROVE SettledStep
  <2>1. /\ ch'.last = ch.last + 1
        /\ ch'.unacked = ch.unacked \cup {NewRecord(ch.last + 1, NoConsumer, q, m)}
    BY <1>0, <1>4 DEF TrackGet, ChannelDeliveryState
  <2>2. NewRecord(ch.last + 1, NoConsumer, q, m).tag = ch.last + 1
    BY DEF NewRecord
  <2> QED
    BY <1>1, <2>1, <2>2
<1>5. ASSUME ch' = TakeTag(ch) PROVE SettledStep
  <2>1. ch'.last = ch.last + 1 /\ ch'.unacked = ch.unacked
    BY <1>0, <1>5 DEF TakeTag, ChannelDeliveryState
  <2> QED
    BY <1>1, <2>1
<1>6. ASSUME NEW T, ch' = DeleteUnacked(ch, T) PROVE SettledStep
  <2>1. ch'.last = ch.last
    BY <1>0, <1>6, DeleteUnackedFields
  <2>2. ch'.unacked \subseteq ch.unacked
    BY <1>0, <1>6, DeleteUnackedShrinks
  <2> QED
    BY <1>1, <2>1, <2>2
<1>7. ASSUME NEW t, NEW multiple, ch' = PopUnacked(ch, t, multiple) PROVE SettledStep
  <2>1. ch'.last = ch.last
    BY <1>0, <1>7, PopUnackedShrinks
  <2>2. ch'.unacked \subseteq ch.unacked
    BY <1>0, <1>7, PopUnackedShrinks
  <2> QED
    BY <1>1, <2>1, <2>2
<1>8. ASSUME NEW c \in ConsumerTags, ch' = DetachConsumer(ch, c) PROVE SettledStep
  <2>1. ch'.last = ch.last
    BY <1>0, <1>8, DetachConsumerFields
  <2>2. \A r \in ch'.unacked : \E x \in ch.unacked : x.tag = r.tag
    BY <1>0, <1>8, DetachConsumerRecords DEF OfConsumer
  <2> QED
    BY <1>1, <2>1, <2>2
<1>9. ASSUME NEW q, ch' = DetachQueue(ch, q) PROVE SettledStep
  <2>1. ch'.last = ch.last
    BY <1>0, <1>9, DetachQueueFields
  <2>2. \A r \in ch'.unacked : \E x \in ch.unacked : x.tag = r.tag
    BY <1>0, <1>9, DetachQueueRecords DEF OfQueue
  <2> QED
    BY <1>1, <2>1, <2>2
<1>10. ASSUME ch' = ClearIndexes(ch) PROVE SettledStep
  BY <1>0, <1>10 DEF ClearIndexes, ChannelDeliveryState, SettledStep
<1>11. ASSUME NEW n, NEW global, ch' = SetQos(ch, n, global) PROVE SettledStep
  <2>1. ch'.last = ch.last /\ ch'.unacked = ch.unacked
    BY <1>0, <1>11 DEF SetQos, ChannelDeliveryState
  <2> QED
    BY <1>1, <2>1
<1>12. ASSUME NEW active, ch' = SetFlow(ch, active) PROVE SettledStep
  <2>1. ch'.last = ch.last /\ ch'.unacked = ch.unacked
    BY <1>0, <1>12 DEF SetFlow, ChannelDeliveryState
  <2> QED
    BY <1>1, <2>1
<1>13. ASSUME NEW t \in Threads, Track(t) PROVE SettledStep
  BY <1>2, <1>3, <1>5, <1>13 DEF Track
<1>14. ASSUME NEW q \in Queues, NEW m \in Messages, NEW noAck \in BOOLEAN, BasicGet(q, m, noAck)
       PROVE  SettledStep
  BY <1>4, <1>5, <1>14 DEF BasicGet
<1> QED
  BY <1>2, <1>6, <1>7, <1>8, <1>9, <1>10, <1>11, <1>12, <1>13, <1>14
  DEF Next, vars, Admit, Sent, SendFailed, Acknowledge, BasicQos, ChannelFlow,
      RegisterConsumer, CancelConsumer, DeleteQueue, BasicRecover, Redeliver

(***************************************************************************)
(* No step makes an acked, recovered or lost delivery outstanding again,   *)
(* so the 406 for a second ack (unknownDeliveryTagError) is never missed.  *)
(***************************************************************************)
THEOREM TagsStaySettled == Spec => SettledTagStaysSettled
<1>1. IInv /\ [Next]_vars =>
        [/\ ch'.last >= ch.last
         /\ \A r \in ch'.unacked :
               r.tag <= ch.last => \E x \in ch.unacked : x.tag = r.tag]_vars
  BY NextSettled DEF SettledStep
<1> QED
  BY <1>1, InitIInv, NextIInv, PTL DEF Spec, SettledTagStaysSettled

-----------------------------------------------------------------------------
(***************************************************************************)
(* The prefetch limit.  The throttle check and the delivery it allows are  *)
(* separate critical sections, so the invariant also says what a thread    *)
(* between the two may count on: its consumer still has room.  This holds  *)
(* because a queue has one delivery loop and a consumer one queue, as long *)
(* as the client never sends basic.recover(requeue=false), which delivers  *)
(* from the connection's goroutine.                                        *)
(***************************************************************************)
Limited(c) == cons[c].active /\ cons[c].pf > 0 /\ ~ch.global

PrefetchInv ==
    /\ redo = {}
    /\ thread[Handler].pc = "idle"
    /\ \A c \in ConsumerTags : IsFiniteSet(ch.byConsumer[c])
    /\ \A c \in ConsumerTags :
          Limited(c) => Cardinality(ch.byConsumer[c]) <= cons[c].pf
    /\ \A t \in Queues :
          (thread[t].pc = "admitted" /\ thread[t].live /\ Limited(thread[t].ctag)) =>
              Cardinality(ch.byConsumer[thread[t].ctag]) < cons[thread[t].ctag].pf

LEMMA InitPrefetch == Init => PrefetchInv
<1> SUFFICES ASSUME Init PROVE PrefetchInv
  OBVIOUS
<1>1. \A c \in ConsumerTags : ch.byConsumer[c] = {}
  BY DEF Init, NewChannelState
<1>2. \A t \in Threads : thread[t].pc = "idle"
  BY IdleType DEF Init
<1>3. \A c \in ConsumerTags : ~cons[c].active
  BY UnregisteredType DEF Init
<1> QED
  BY <1>1, <1>2, <1>3, FS_EmptySet DEF Init, PrefetchInv, Limited, Threads

(* A step that adds no delivery, no consumer and no thread past its check. *)
LEMMA ShrinkPrefetch ==
    ASSUME IInv, IInv', PrefetchInv,
           redo' = {}, thread'[Handler].pc = "idle",
           ch.global => ch'.global,
           \A c \in ConsumerTags : ch'.byConsumer[c] \subseteq ch.byConsumer[c],
           \A c \in ConsumerTags : cons'[c].active => cons'[c] = cons[c],
           \A t \in Queues :
              thread'[t].pc = "admitted" /\ thread'[t].live =>
                 /\ thread[t].pc = "admitted" /\ thread[t].live
                 /\ thread'[t].ctag = thread[t].ctag
    PROVE  PrefetchInv'
<1>1. \A c \in ConsumerTags :
         /\ cons[c].pf \in Nat
         /\ IsFiniteSet(ch.byConsumer[c])
  BY DEF IInv, TypeOK, Consumer, PrefetchInv
<1>2. \A c \in ConsumerTags :
         /\ IsFiniteSet(ch'.byConsumer[c])
         /\ Cardinality(ch'.byConsumer[c]) <= Cardinality(ch.byConsumer[c])
         /\ Cardinality(ch'.byConsumer[c]) \in Nat
         /\ Cardinality(ch.byConsumer[c]) \in Nat
  BY <1>1, FS_Subset, FS_CardinalityType
<1>3. \A c \in ConsumerTags : Limited(c)' => Limited(c) /\ cons'[c].pf = cons[c].pf
  BY DEF Limited
<1>4. \A c \in ConsumerTags :
         Limited(c)' => Cardinality(ch'.byConsumer[c]) <= cons'[c].pf
  BY <1>1, <1>2, <1>3 DEF PrefetchInv
<1>5. ASSUME NEW t \in Queues, thread'[t].pc = "admitted", thread'[t].live,
             Limited(thread[t].ctag)'
      PROVE  Cardinality(ch'.byConsumer[thread'[t].ctag]) < cons'[thread'[t].ctag].pf
  <2>1. /\ thread[t].pc = "admitted" /\ thread[t].live
        /\ thread'[t].ctag = thread[t].ctag
    BY <1>5
  <2>2. thread[t].ctag \in ConsumerTags
    BY <2>1 DEF IInv, ThreadsHold, Threads
  <2>3. Limited(thread[t].ctag) /\ cons'[thread[t].ctag].pf = cons[thread[t].ctag].pf
    BY <1>5, <2>1, <2>2 DEF Limited
  <2>4. Cardinality(ch.byConsumer[thread[t].ctag]) < cons[thread[t].ctag].pf
    BY <2>1, <2>3 DEF PrefetchInv
  <2> QED
    BY <1>1, <1>2, <2>1, <2>2, <2>3, <2>4
<1> QED
  BY <1>2, <1>4, <1>5 DEF PrefetchInv, Limited

LEMMA AdmitPrefetch ==
    ASSUME IInv, PrefetchInv, NEW q \in Queues, NEW c \in ConsumerTags, NEW m \in Messages,
           Admit(q, c, m)
    PROVE  PrefetchInv'
<1>1. /\ thread' = [thread EXCEPT ![q] = Hold(c, m)]
      /\ UNCHANGED <<ch, cons, redo>>
      /\ ~ShouldThrottle(ch, c, cons[c].pf)
      /\ thread \in [Threads -> Thread]
      /\ q \in Threads /\ Handler # q /\ Handler \in Threads /\ Queues \subseteq Threads
  BY ChannelAssumption DEF Admit, IInv, TypeOK, Threads
<1>2. Hold(c, m).ctag = c
  BY DEF Hold
<1>3. /\ cons[c].pf \in Nat
      /\ Cardinality(ch.byConsumer[c]) \in Nat
  BY FS_CardinalityType DEF IInv, TypeOK, Consumer, PrefetchInv
<1>4. Limited(c) => Cardinality(ch.byConsumer[c]) < cons[c].pf
  BY <1>1, <1>3 DEF Limited, ShouldThrottle
<1>5. /\ \A e \in ConsumerTags : Limited(e)' <=> Limited(e)
      /\ \A e : Limited(e)' => Limited(e)
  BY <1>1 DEF Limited
<1>6. \A t \in Queues : thread'[t] = IF t = q THEN Hold(c, m) ELSE thread[t]
  BY <1>1
<1>7. thread'[Handler] = thread[Handler]
  BY <1>1
<1>8. ASSUME NEW t \in Queues, thread'[t].pc = "admitted", thread'[t].live,
             Limited(thread[t].ctag)'
      PROVE  Cardinality(ch'.byConsumer[thread'[t].ctag]) < cons'[thread'[t].ctag].pf
  <2>1. CASE t = q
    BY <1>1, <1>2, <1>4, <1>6, <1>8, <2>1 DEF Limited
  <2>2. CASE t # q
    BY <1>1, <1>6, <1>8, <2>2 DEF Limited, PrefetchInv
  <2> QED
    BY <2>1, <2>2
<1> QED
  BY <1>1, <1>5, <1>7, <1>8 DEF PrefetchInv, Limited

(* The one step that adds a delivery: no other loop is past its check for  *)
(* the same consumer.                                                      *)
LEMMA TrackPrefetch ==
    ASSUME IInv, IInv', PrefetchInv, NEW t \in Threads, Track(t)
    PROVE  PrefetchInv'
<1>1. /\ ch \in ChannelDeliveryState
      /\ cons \in [ConsumerTags -> Consumer]
      /\ thread \in [Threads -> Thread]
      /\ redo' = {} /\ cons' = cons
  BY DEF IInv, TypeOK, Track, PrefetchInv
<1>2. t \in Queues /\ t # Handler /\ Handler \in Threads /\ Queues \subseteq Threads
  BY ChannelAssumption DEF Track, PrefetchInv, Threads
<1>3. CASE ~thread[t].live
  <2>1. thread' = [thread EXCEPT ![t] = Idle] /\ ch' = ch
    BY <1>3 DEF Track
  <2>2. thread'[Handler].pc = "idle"
    BY <1>1, <1>2, <2>1 DEF PrefetchInv
  <2>3. \A u \in Queues : thread'[u] = IF u = t THEN Idle ELSE thread[u]
    BY <1>1, <1>2, <2>1
  <2> QED
    BY <1>1, <2>1, <2>2, <2>3, IdleType, ShrinkPrefetch
<1>4. CASE thread[t].live
  <2> DEFINE c == thread[t].ctag
  <2>1. /\ thread' = [thread EXCEPT ![t].pc = "sending", ![t].tag = ch.last + 1]
        /\ ch' = IF cons[c].noAck THEN TakeTag(ch)
                 ELSE TrackConsumer(ch, c, cons[c].queue, thread[t].msg)
        /\ thread[t].pc = "admitted"
    BY <1>4 DEF Track
  <2>2. /\ c \in ConsumerTags
        /\ cons[c].active /\ cons[c].queue = t
    BY <1>2, <1>4 DEF IInv, ThreadsHold
  <2>3. \A u \in Queues \ {t} : thread'[u] = thread[u]
    BY <1>1, <1>2, <2>1
  <2>4. thread'[Handler].pc = "idle"
    BY <1>1, <1>2, <2>1 DEF PrefetchInv
  <2>5. thread'[t].pc = "sending"
    <3>1. thread'[t] = [thread[t] EXCEPT !.pc = "sending", !.tag = ch.last + 1]
          /\ thread[t] \in Thread
      BY <1>1, <2>1
    <3> QED
      BY <3>1 DEF Thread
  <2>6. CASE cons[c].noAck
    <3>1. ch'.byConsumer = ch.byConsumer /\ ch'.global = ch.global
      BY <1>1, <2>1, <2>6 DEF TakeTag, ChannelDeliveryState
    <3> QED
      BY <1>1, <2>3, <2>4, <2>5, <3>1, ShrinkPrefetch
  <2>7. CASE ~cons[c].noAck
    <3>1. /\ ch'.byConsumer = [ch.byConsumer EXCEPT ![c] = @ \cup {ch.last + 1}]
          /\ ch'.global = ch.global
          /\ ch.byConsumer \in [ConsumerTags -> SUBSET Nat]
      BY <1>1, <2>1, <2>7 DEF TrackConsumer, ChannelDeliveryState
    <3>2. /\ ch'.byConsumer[c] = ch.byConsumer[c] \cup {ch.last + 1}
          /\ \A e \in ConsumerTags \ {c} : ch'.byConsumer[e] = ch.byConsumer[e]
      BY <2>2, <3>1
    <3>3. /\ IsFiniteSet(ch.byConsumer[c])
          /\ Cardinality(ch.byConsumer[c]) \in Nat
          /\ cons[c].pf \in Nat
      BY <1>1, <2>2, FS_CardinalityType DEF PrefetchInv, Consumer
    <3>4. /\ IsFiniteSet(ch'.byConsumer[c])
          /\ Cardinality(ch'.byConsumer[c]) <= Cardinality(ch.byConsumer[c]) + 1
      <4> DEFINE B == ch.byConsumer[c]
                 n == ch.last + 1
      <4>1. IsFiniteSet(B) /\ Cardinality(B) \in Nat
        BY <3>3
      <4> HIDE DEF B, n
      <4>2. /\ IsFiniteSet(B \cup {n})
            /\ Cardinality(B \cup {n}) = IF n \in B THEN Cardinality(B) ELSE Cardinality(B) + 1
        BY <4>1, FS_AddElement
      <4>3. Cardinality(B \cup {n}) <= Cardinality(B) + 1
        BY <4>1, <4>2
      <4> QED
        BY <3>2, <4>2, <4>3 DEF B, n
    <3>5. Limited(c) => Cardinality(ch.byConsumer[c]) < cons[c].pf
      BY <1>2, <1>4, <2>1 DEF PrefetchInv
    <3>6. Limited(c) => Cardinality(ch'.byConsumer[c]) <= cons[c].pf
      <4>1. IsFiniteSet(ch'.byConsumer[c]) => Cardinality(ch'.byConsumer[c]) \in Nat
        BY FS_CardinalityType
      <4> QED
        BY <3>3, <3>4, <3>5, <4>1
    <3>7. \A e \in ConsumerTags :
             /\ IsFiniteSet(ch'.byConsumer[e])
             /\ Limited(e)' => Cardinality(ch'.byConsumer[e]) <= cons'[e].pf
      BY <1>1, <3>1, <3>2, <3>4, <3>6 DEF PrefetchInv, Limited
    <3>8. ASSUME NEW u \in Queues, thread'[u].pc = "admitted", thread'[u].live,
                 Limited(thread[u].ctag)'
          PROVE  Cardinality(ch'.byConsumer[thread'[u].ctag]) < cons'[thread'[u].ctag].pf
      <4>1. u # t /\ thread'[u] = thread[u]
        BY <2>3, <2>5, <3>8
      <4>2. thread[u].ctag \in ConsumerTags /\ cons[thread[u].ctag].queue = u
        BY <1>2, <3>8, <4>1, ChannelAssumption DEF IInv, ThreadsHold
      <4>3. thread[u].ctag # c
        BY <2>2, <4>1, <4>2
      <4> QED
        BY <1>1, <3>1, <3>2, <3>8, <4>1, <4>2, <4>3 DEF PrefetchInv, Limited
    <3> QED
      BY <1>1, <2>4, <3>7, <3>8 DEF PrefetchInv, Limited
  <2> QED
    BY <2>6, <2>7
<1> QED
  BY <1>3, <1>4

LEMMA RegisterPrefetch ==
    ASSUME IInv, PrefetchInv, NEW c \in ConsumerTags, NEW q \in Queues, NEW noAck \in BOOLEAN,
           RegisterConsumer(c, q, noAck)
    PROVE  PrefetchInv'
<1>1. /\ cons' = [cons EXCEPT ![c] = [active |-> TRUE, queue |-> q,
                                      pf |-> ConsumerPrefetch(ch), noAck |-> noAck]]
      /\ ~cons[c].active
      /\ UNCHANGED <<ch, thread, redo>>
      /\ cons \in [ConsumerTags -> Consumer]
      /\ ch \in ChannelDeliveryState
  BY DEF RegisterConsumer, IInv, TypeOK
<1>2. /\ \A e \in ConsumerTags \ {c} : cons'[e] = cons[e]
      /\ cons'[c].pf \in Nat
  BY <1>1 DEF ConsumerPrefetch, ChannelDeliveryState
<1>3. ch.byConsumer[c] = {}
  <2>1. ASSUME NEW n \in ch.byConsumer[c] PROVE FALSE
    <3>1. PICK r \in ch.unacked : r.tag = n /\ CountsFor(r, c)
      BY <2>1 DEF IInv, IndexConsistent, IndexesAgree
    <3> QED
      BY <1>1, <3>1, NoConsumerAssumption
      DEF IInv, NoInheritedDelivery, CountsFor, FromGet
  <2> QED
    BY <2>1
<1>4. \A e \in ConsumerTags : Limited(e)' => Cardinality(ch'.byConsumer[e]) <= cons'[e].pf
  BY <1>1, <1>2, <1>3, FS_EmptySet DEF PrefetchInv, Limited
<1>5. \A t \in Queues : thread[t].live => thread[t].ctag \in ConsumerTags \ {c}
  BY <1>1 DEF IInv, ThreadsHold, Threads
<1>6. ASSUME NEW t \in Queues, thread'[t].pc = "admitted", thread'[t].live,
             Limited(thread[t].ctag)'
      PROVE  Cardinality(ch'.byConsumer[thread'[t].ctag]) < cons'[thread'[t].ctag].pf
  BY <1>1, <1>2, <1>5, <1>6 DEF PrefetchInv, Limited
<1> QED
  BY <1>1, <1>4, <1>6 DEF PrefetchInv, Limited

LEMMA NextPrefetch ==
    IInv /\ IInv' /\ PrefetchInv /\ NoRedelivery' /\ [Next]_vars => PrefetchInv'
<1> SUFFICES ASSUME IInv, IInv', PrefetchInv, NoRedelivery', [Next]_vars PROVE PrefetchInv'
  OBVIOUS
<1>0. /\ ch \in ChannelDeliveryState
      /\ ch.byConsumer \in [ConsumerTags -> SUBSET Nat]
      /\ thread \in [Threads -> Thread]
      /\ Handler \in Threads /\ Queues \subseteq Threads
      /\ redo = {} /\ thread[Handler].pc = "idle"
  BY DEF IInv, TypeOK, ChannelDeliveryState, Threads, PrefetchInv
<1>1. ASSUME UNCHANGED <<cons, thread, redo>>, ch.global => ch'.global,
             \A c \in ConsumerTags : ch'.byConsumer[c] \subseteq ch.byConsumer[c]
      PROVE  PrefetchInv'
  BY <1>0, <1>1, ShrinkPrefetch
<1>2. ASSUME NEW t \in Threads, thread' = [thread EXCEPT ![t] = Idle], UNCHANGED <<cons, redo>>,
             ch.global => ch'.global,
             \A c \in ConsumerTags : ch'.byConsumer[c] \subseteq ch.byConsumer[c]
      PROVE  PrefetchInv'
  <2>1. \A u \in Threads : thread'[u] = IF u = t THEN Idle ELSE thread[u]
    BY <1>0, <1>2
  <2> QED
    BY <1>0, <1>2, <2>1, IdleType, ShrinkPrefetch
<1>3. ASSUME NEW C \in SUBSET ConsumerTags, Deactivate(C), redo' = redo, ch.global => ch'.global,
             \A c \in ConsumerTags : ch'.byConsumer[c] \subseteq ch.byConsumer[c]
      PROVE  PrefetchInv'
  <2>1. \A t \in Threads :
          /\ thread'[t].pc = thread[t].pc
          /\ thread'[t].ctag = thread[t].ctag
          /\ thread'[t].live => thread[t].live
    BY <1>0, <1>3 DEF Deactivate, Thread
  <2>2. \A c \in ConsumerTags : cons'[c].active => cons'[c] = cons[c]
    BY <1>3, UnregisteredType DEF Deactivate
  <2> QED
    BY <1>0, <1>3, <2>1, <2>2, ShrinkPrefetch
<1>4. ASSUME NEW q \in Queues, NEW c \in ConsumerTags, NEW m \in Messages, Admit(q, c, m)
      PROVE  PrefetchInv'
  BY <1>4, AdmitPrefetch
<1>5. ASSUME NEW t \in Threads, Track(t) PROVE PrefetchInv'
  BY <1>5, TrackPrefetch
<1>6. ASSUME NEW t \in Threads, Sent(t) PROVE PrefetchInv'
  BY <1>2, <1>6 DEF Sent
<1>7. ASSUME NEW t \in Threads, SendFailed(t) PROVE PrefetchInv'
  <2>1. ch' = DeleteUnacked(ch, {thread[t].tag})
    BY <1>7 DEF SendFailed
  <2>2. ch'.global = ch.global /\ \A c \in ConsumerTags : ch'.byConsumer[c] \subseteq ch.byConsumer[c]
    BY <1>0, <2>1, DeleteUnackedShrinks
  <2> QED
    BY <1>2, <1>7, <2>2 DEF SendFailed
<1>8. ASSUME NEW t \in 0..MaxTag, NEW multiple \in BOOLEAN, Acknowledge(t, multiple)
      PROVE  PrefetchInv'
  <2>1. ch' = PopUnacked(ch, t, multiple)
    BY <1>8 DEF Acknowledge
  <2>2. ch'.global = ch.global /\ \A c \in ConsumerTags : ch'.byConsumer[c] \subseteq ch.byConsumer[c]
    BY <1>0, <2>1, PopUnackedShrinks
  <2> QED
    BY <1>1, <1>8, <2>2 DEF Acknowledge
<1>9. ASSUME NEW q \in Queues, NEW m \in Messages, NEW noAck \in BOOLEAN, BasicGet(q, m, noAck)
      PROVE  PrefetchInv'
  <2>1. ch'.global = ch.global /\ ch'.byConsumer = ch.byConsumer
    BY <1>0, <1>9 DEF BasicGet, TakeTag, TrackGet, ChannelDeliveryState
  <2> QED
    BY <1>1, <1>9, <2>1 DEF BasicGet
<1>10. ASSUME NEW n \in Prefetches, NEW global \in BOOLEAN, BasicQos(n, global) PROVE PrefetchInv'
  <2>1. ch.global => ch'.global
    BY <1>0, <1>10 DEF BasicQos, SetQos, ChannelDeliveryState
  <2>2. ch'.byConsumer = ch.byConsumer
    BY <1>0, <1>10 DEF BasicQos, SetQos, ChannelDeliveryState
  <2> QED
    BY <1>1, <1>10, <2>1, <2>2 DEF BasicQos
<1>11. ASSUME NEW active \in BOOLEAN, ChannelFlow(active) PROVE PrefetchInv'
  <2>1. ch'.global = ch.global /\ ch'.byConsumer = ch.byConsumer
    BY <1>0, <1>11 DEF ChannelFlow, SetFlow, ChannelDeliveryState
  <2> QED
    BY <1>1, <1>11, <2>1 DEF ChannelFlow
<1>12. ASSUME NEW c \in ConsumerTags, NEW q \in Queues, NEW noAck \in BOOLEAN,
              RegisterConsumer(c, q, noAck)
       PROVE  PrefetchInv'
  BY <1>12, RegisterPrefetch
<1>13. ASSUME NEW c \in ConsumerTags, CancelConsumer(c) PROVE PrefetchInv'
  <2>1. ch' = DetachConsumer(ch, c) /\ Deactivate({c}) /\ redo' = redo
    BY <1>13 DEF CancelConsumer
  <2>2. ch'.global = ch.global /\ ch'.byConsumer = [ch.byConsumer EXCEPT ![c] = {}]
    BY <1>0, <2>1, DetachConsumerFields
  <2> QED
    BY <1>0, <1>3, <2>1, <2>2
<1>14. ASSUME NEW q \in Queues, DeleteQueue(q) PROVE PrefetchInv'
  <2>1. /\ ch' = DetachQueue(ch, q)
        /\ Deactivate({c \in ConsumerTags : cons[c].active /\ cons[c].queue = q})
        /\ redo' = redo
    BY <1>14 DEF DeleteQueue
  <2>2. /\ ch'.global = ch.global
        /\ ch'.byConsumer = [c \in ConsumerTags |-> ch.byConsumer[c] \ Tags(OfQueue(ch, q))]
    BY <1>0, <2>1, DetachQueueFields
  <2>3. \A c \in ConsumerTags : ch'.byConsumer[c] \subseteq ch.byConsumer[c]
    BY <2>2
  <2> QED
    BY <1>3, <2>1, <2>2, <2>3
<1>15. ASSUME NEW requeue \in BOOLEAN, BasicRecover(requeue) PROVE PrefetchInv'
  <2>1. redo' = redo
    BY <1>0 DEF NoRedelivery
  <2>2. ch'.global = ch.global /\ \A c \in ConsumerTags : ch'.byConsumer[c] = {}
    BY <1>0, <1>15 DEF BasicRecover, ClearIndexes, ChannelDeliveryState
  <2> QED
    BY <1>1, <1>15, <2>1, <2>2 DEF BasicRecover
<1>16. ASSUME UNCHANGED vars PROVE PrefetchInv'
  BY <1>16 DEF vars, PrefetchInv, Limited
<1> QED
  BY <1>0, <1>4, <1>5, <1>6, <1>7, <1>8, <1>9, <1>10, <1>11, <1>12, <1>13, <1>14, <1>15, <1>16
  DEF Next

(***************************************************************************)
(* A consumer never holds more unacked deliveries than its prefetch, for   *)
(* any number of queues, consumers and delivery loops, as long as          *)
(* basic.recover(requeue=false) has nothing to redeliver.                  *)
(***************************************************************************)
THEOREM PrefetchIsRespected == Spec => PrefetchRespected
<1>1. PrefetchInv => WithinPrefetch
  BY DEF PrefetchInv, WithinPrefetch, Limited
<1> QED
  BY <1>1, InitIInv, NextIInv, InitPrefetch, NextPrefetch, PTL DEF Spec, PrefetchRespected
=============================================================================
