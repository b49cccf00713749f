------------------------------- MODULE Locks -------------------------------
(***************************************************************************)
(* The mutexes of a broker and one of its virtual hosts, and the order in  *)
(* which the goroutines take them: b.mu, vh.mu, a channel's transaction    *)
(* lock and delivery state, a consumer's sendMu and a queue's mu.  A       *)
(* program is the sequence of the Lock and Unlock calls of one operation,  *)
(* an operation the set of its programs, one for each way through it.      *)
(*                                                                         *)
(* Left out are the mutexes under which no other is taken: connectionsMu,  *)
(* deliveryMu, redeliveredMu, the store's file locks, the collector's.     *)
(* Waits with a time limit (cancels.send, the throttled loop) block nobody *)
(* for good and are left out too.  Where the code repeats a section (for   *)
(* each channel, each target of a publish, a second lookup) one stands for *)
(* all: none is held when the next is taken.                               *)
(***************************************************************************)
EXTENDS Sequences, Integers

CONSTANTS Conns,        \* connections, with one channel and one consumer each
          Queues,
          Admin,        \* the management API
          DeadLetterTo, \* the queue behind a queue's dead letter exchange, or None
          Limited,      \* the queues with x-max-length
          Expiring,     \* the queues with messages that expire
          Active,       \* the goroutines that run, a subset of Threads
          MaxHops,      \* bound on dead-lettering what a dead-lettered message evicts
          None

VARIABLES todo,  \* what is left of each goroutine's program
          holder \* who holds each mutex

vars == <<todo, holder>>

B == <<"b">>
VH == <<"vh">>
Tx(c) == <<"tx", c>>
Ch(c) == <<"ch", c>>
Send(c) == <<"send", c>>
Q(q) == <<"q", q>>
Mutexes == {B, VH} \union {Tx(c) : c \in Conns} \union {Ch(c) : c \in Conns}
             \union {Send(c) : c \in Conns} \union {Q(q) : q \in Queues}

(* A handler for each connection, a loop for each queue, one more for the API. *)
Threads == Conns \union Queues \union {Admin}

Init ==
    /\ todo = [t \in Active |-> <<>>]
    /\ holder = [m \in Mutexes |-> None]
-----------------------------------------------------------------------------
(* The building blocks: a critical section around programs, and programs   *)
(* one after the other.                                                    *)
Within(m, P) == {<<[lock |-> TRUE, mu |-> m]>> \o p \o <<[lock |-> FALSE, mu |-> m]>> : p \in P}
Section(m) == Within(m, {<<>>})
Then(P, R) == {p \o r : p \in P, r \in R}
Maybe(P) == {<<>>} \union P

(* Queue.Push: EnforceMaxLength under q.mu, the evicted message dead-      *)
(* lettered after it, then the push.  handleDeadLetter reads the queue's   *)
(* arguments under vh.mu and publishes to the exchange, again under vh.mu  *)
(* and then with a Push.                                                   *)
Push[n \in 0..MaxHops, q \in Queues] ==
    LET published == Then(Section(VH), IF n = 0 THEN {<<>>} ELSE Push[n - 1, DeadLetterTo[q]])
        evicted == Then(Section(VH), IF DeadLetterTo[q] = None THEN {<<>>} ELSE published)
        enforced == Then(Section(Q(q)), Maybe(evicted))
    IN Then(IF q \in Limited THEN enforced ELSE {<<>>}, Section(Q(q)))

Publish(q) == Then(Section(VH), Push[MaxHops, q])
HandleDeadLetter(q) ==
    Then(Section(VH), IF DeadLetterTo[q] = None THEN {<<>>} ELSE Publish(DeadLetterTo[q]))
HandleTTLExpiration(q) == IF q \in Expiring THEN Maybe(HandleDeadLetter(q)) ELSE {<<>>}

(* popUnackedRecords finds the channel's state, then takes its mutex. *)
PopUnacked(c) == Then(Section(VH), Section(Ch(c)))
Requeue(q) == Then(Section(VH), Then(HandleTTLExpiration(q), Maybe(Push[MaxHops, q])))
Nack(c, q) == Then(PopUnacked(c), Requeue(q) \union Then(Section(VH), HandleDeadLetter(q)))

(* A deletion under vh.mu stops the queue under q.mu and detaches the      *)
(* deliveries of every channel; a cancel detaches the consumer's, and may  *)
(* delete an auto-delete queue.                                            *)
DeleteUnlocked(q) == Then(Section(Q(q)), UNION {Section(Ch(c)) : c \in Conns})
CancelLocked(c, q) == Then(Section(Ch(c)), Maybe(DeleteUnlocked(q)))

(* A delivery: the frames are written under sendMu, by an active consumer. *)
DeliverToConsumer(c) ==
    Then(Within(Send(c), Maybe(Then(Section(VH), Section(Ch(c))))), Maybe(Section(Ch(c))))

(* A delivery loop: the count, the expiry, the consumers, the throttle,    *)
(* then the delivery.  A consumer that failed is removed; without another  *)
(* the message is pushed back.                                             *)
DeliverMessage(c, q) ==
    LET throttle == Then(Section(VH), Section(Ch(c)))
        removed == Within(VH, CancelLocked(c, q))
        delivery == Then(throttle, Maybe(Then(DeliverToConsumer(c), Maybe(Then(removed, Section(VH))))))
    IN Then(Section(Q(q)), Then(HandleTTLExpiration(q), Then(Section(VH),
           Then(Maybe(delivery), Maybe(Push[MaxHops, q])))))

GetMessage(c, q) ==
    Then(Section(VH), Then(Within(VH, Section(Q(q))), Then(Within(VH, Section(Q(q))),
        Then(HandleTTLExpiration(q), Maybe(Then(Section(VH), Section(Ch(c))))))))

(* queue.purge finds the queue under vh.mu, then empties it under q.mu.    *)
StreamPurge(q) == Within(Q(q), HandleTTLExpiration(q))
PurgeQueue(q) == Then(Section(VH), StreamPurge(q))

DeleteQueue(q) ==
    Then(Section(VH), Then(Section(Q(q)), Within(VH, DeleteUnlocked(q))))

Recover(c, q) ==
    Then(PopUnacked(c), Then(Section(VH), Then(HandleTTLExpiration(q),
        Requeue(q) \union Then(Section(VH), Then(DeliverToConsumer(c), Maybe(Requeue(q)))))))

(* ReleaseChannelDeliveries, and the transaction state after it. *)
ReleaseChannelDeliveries(c, q) ==
    Then(Within(VH, CancelLocked(c, q)), Then(Section(Send(c)),
        Then(Within(VH, Section(Ch(c))), Maybe(Push[MaxHops, q]))))
CleanupChannel(c, q) ==
    Then(ReleaseChannelDeliveries(c, q), Then(Section(VH), Section(Tx(c))))
CleanupConnection(c, q) ==
    Then(Section(B), Then(Within(VH, Then(CancelLocked(c, q), Then(Section(Ch(c)), Maybe(DeleteUnlocked(q))))),
        Maybe(Push[MaxHops, q])))

(* tx.commit holds the transaction's lock from the check of the routes to  *)
(* the last ack, and while it releases a channel it has to close.          *)
Commit(c, q) ==
    Then(Section(VH), Within(Tx(c),
        Then(Section(VH), Then(Publish(q), Then(PopUnacked(c) \union Nack(c, q),
            Maybe(Then(Section(B), ReleaseChannelDeliveries(c, q))))))))

(* The management API's overview counts under b.mu, and reads a channel's  *)
(* delivery and transaction state after it.                                *)
Overview == Within(B, Section(VH))
ChannelInfo(c) ==
    Then(Section(B), Then(Within(VH, Section(Ch(c))), Then(Section(VH), Section(Tx(c)))))
-----------------------------------------------------------------------------
(* Every method starts with a look at the connection under b.mu. *)
Methods(c) ==
    UNION {Then(Section(B), GetMessage(c, q) \union PurgeQueue(q) \union DeleteQueue(q) \union Publish(q)
             \union PopUnacked(c) \union Nack(c, q) \union Recover(c, q) \union Within(VH, CancelLocked(c, q))
             \union Within(VH, Section(Ch(c))) \union CleanupChannel(c, q) \union Commit(c, q)) : q \in Queues}
      \union UNION {CleanupConnection(c, q) : q \in Queues}
Programs(t) ==
    CASE t \in Conns -> Methods(t)
      [] t \in Queues -> UNION {DeliverMessage(c, t) : c \in Conns}
      [] t = Admin -> Overview \union UNION {ChannelInfo(c) : c \in Conns}
                        \union UNION {PurgeQueue(q) \union DeleteQueue(q) \union Publish(q) : q \in Queues}

Start(t) ==
    /\ todo[t] = <<>>
    /\ \E p \in Programs(t) : todo' = [todo EXCEPT ![t] = p]
    /\ UNCHANGED holder

(* sync.Mutex: not reentrant. *)
Lock(t) ==
    /\ todo[t] # <<>> /\ Head(todo[t]).lock
    /\ holder[Head(todo[t]).mu] = None
    /\ holder' = [holder EXCEPT ![Head(todo[t]).mu] = t]
    /\ todo' = [todo EXCEPT ![t] = Tail(@)]

Unlock(t) ==
    /\ todo[t] # <<>> /\ ~Head(todo[t]).lock
    /\ holder' = [holder EXCEPT ![Head(todo[t]).mu] = None]
    /\ todo' = [todo EXCEPT ![t] = Tail(@)]

Next == \E t \in Active : Start(t) \/ Lock(t) \/ Unlock(t)
Spec == Init /\ [][Next]_vars
-----------------------------------------------------------------------------
(* Who a goroutine waits for: the holder of the mutex it locks next. *)
WaitsFor(t) == IF todo[t] # <<>> /\ Head(todo[t]).lock THEN holder[Head(todo[t]).mu] ELSE None

(* No goroutines wait for each other in a circle, nor one for itself: what *)
(* the lock order of vhost.go:23-24 (vh.mu, then a queue's mu, never the   *)
(* reverse) is there for, and what qll.go:62-63 says of the same dead-     *)
(* lettering when a message is evicted.                                    *)
NoDeadlock ==
    \A S \in SUBSET Active : S # {} => \E t \in S : WaitsFor(t) \notin S
=============================================================================
