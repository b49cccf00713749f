------------------------------ MODULE Delivery ------------------------------
(***************************************************************************)
(* A queue name, the queues declared under it one after the other, the     *)
(* connections that use it and the consumers on them: the path of a        *)
(* message from the queue's buffer to a client and back.                   *)
(*                                                                         *)
(* A queue is an object (a *Queue in the code), numbered in the order of   *)
(* declaration; the vhost maps the name to the current one.  A deleted     *)
(* queue's delivery goroutine, and work that holds the pointer, may        *)
(* outlive it.  Each connection has one channel and one goroutine that     *)
(* runs its methods; the cleanup of a lost connection runs on another one. *)
(* Consumers are objects too: each is registered once, under its own tag   *)
(* (ChannelDelivery covers tags that are reused).                          *)
(*                                                                         *)
(* One action is one critical section of vh.mu, of a channel state's mu or *)
(* of a queue's mu, or one frame write.  A push that follows the lookup of *)
(* its queue is one step with it: a queue deleted in between discards the  *)
(* push, as the deletion right after it would.                             *)
(***************************************************************************)
EXTENDS ChannelState, Sequences, Functions

CONSTANTS Conns,      \* connections
          ConnOf,     \* the connection of each consumer
          NoAck,      \* the consumers with Props.NoAck
          Prefetch,   \* PrefetchCount of every consumer; 0 is no limit
          Ops,        \* the methods each connection's client uses
          Mortal,     \* the connections whose socket may die
          MaxOps,     \* bound on the methods each client sends
          MaxQueues,  \* bound on the queues declared under the name
          MaxRounds   \* maxRounds of deliverMessage (100 in the code)

Consumers == ConsumerTags
Objects == 1..MaxQueues
ConsumersOf(k) == {c \in Consumers : ConnOf[c] = k}

ASSUME DeliveryAssumption ==
    /\ IsFiniteSet(Consumers) /\ Messages # {}
    /\ ConnOf \in [Consumers -> Conns]
    /\ NoAck \subseteq Consumers
    /\ Mortal \subseteq Conns
    /\ Prefetch \in Nat
    /\ MaxQueues \in Nat \ {0}
    /\ MaxRounds \in Nat \ {0}
    /\ MaxOps \in [Conns -> Nat]
    /\ \E q \in Queues : Queues = {q}

Name == CHOOSE q \in Queues : TRUE

VARIABLES current,   \* vh.Queues[Name], 0 if there is none
          made,      \* the number of queues declared so far
          queue,     \* the fields of each queue object
          loop,      \* each queue object's delivery goroutine
          cons,      \* each consumer: not yet, registered, or removed
          byQueue,   \* vh.ConsumersByQueue[Name]: each consumer's place, 0 for none
          chan,      \* vh.ChannelDeliveries of each connection's channel
          handler,   \* each connection's goroutine
          cleaner,   \* what CleanupConnection has left to requeue
          conn,      \* each connection: its socket and its registration
          cancels,   \* consumers with a server-sent basic.cancel to write
          told,      \* consumers whose client was told that they are gone
          home,      \* the queue each message was published to
          settled    \* messages acked, or delivered to a no-ack consumer

vars == <<current, made, queue, loop, cons, byQueue, chan, handler, cleaner, conn,
          cancels, told, home, settled>>

(* The phases of startDeliveryLoop, deliverFromFIFOQueue, deliverMessage   *)
(* and deliverToConsumer.                                                  *)
LoopPC == {"off", "top", "idle", "select", "lookup", "round", "try", "lock", "create",
           "track", "send", "untrack", "failed", "remove", "refresh", "wait", "push",
           "exited"}

(* A list of consumers gives each its place, and 0 to those not in it. *)
ConsumerList == [Consumers -> Nat]
Nobody == [c \in Consumers |-> 0]
Members(list) == {c \in Consumers : list[c] > 0}
Earliest(list, C) == CHOOSE c \in C : \A x \in C : list[c] <= list[x]

(* msg is the message in hand, list the consumers looked up, left those    *)
(* still to try in this round, at the one being tried; tag and epoch are   *)
(* the delivery's tag and channel state.                                   *)
Loop == [pc : LoopPC, msg : Messages, list : ConsumerList, left : SUBSET Consumers,
         at : Consumers \cup {NoConsumer}, tag : Nat, epoch : Nat, rounds : Nat]

(* todo is what the goroutine took off the channel, or out of the queue,   *)
(* and has not put back yet, obj the queue it holds.                       *)
Handler == [pc : {"ready", "start", "requeue", "got", "barrier", "release"},
            obj : {0} \cup Objects, todo : SUBSET DeliveryRecord,
            wait : SUBSET Consumers, ops : Nat, late : BOOLEAN]

Cleaner == [obj : {0} \cup Objects, todo : SUBSET DeliveryRecord]

(* mirror is the queue's own count of its consumers, wake a token in       *)
(* consumersChanged, done the end of the loop's context.                   *)
Queue == [buf : Seq(Messages), stopped : BOOLEAN, done : BOOLEAN, mirror : Nat, wake : BOOLEAN]
Channel == [open : BOOLEAN, epoch : Nat, st : ChannelDeliveryState]

(* The one type invariant. *)
TypeOK ==
    /\ current \in {0} \cup Objects /\ made \in Objects
    /\ queue \in [Objects -> Queue]
    /\ loop \in [Objects -> Loop]
    /\ cons \in [Consumers -> {"new", "active", "removed"}]
    /\ byQueue \in ConsumerList
    /\ chan \in [Conns -> Channel]
    /\ handler \in [Conns -> Handler]
    /\ cleaner \in [Conns -> Cleaner]
    /\ conn \in [Conns -> {"up", "dead", "gone"}]
    /\ cancels \subseteq Consumers /\ told \subseteq Consumers
    /\ home \in [Messages -> {0} \cup Objects] /\ settled \subseteq Messages

Resting(pc) == [pc |-> pc, msg |-> CHOOSE m \in Messages : TRUE, list |-> Nobody,
                left |-> {}, at |-> NoConsumer, tag |-> 0, epoch |-> 0, rounds |-> 0]

NewQueue == [buf |-> <<>>, stopped |-> FALSE, done |-> FALSE, mirror |-> 0, wake |-> FALSE]

(* The queue is declared, and each client has set its prefetch, which      *)
(* creates the channel's delivery state.                                   *)
Init ==
    /\ current = 1 /\ made = 1
    /\ queue = [o \in Objects |-> NewQueue]
    /\ loop = [o \in Objects |-> Resting("off")]
    /\ cons = [c \in Consumers |-> "new"]
    /\ byQueue = Nobody
    /\ chan = [k \in Conns |-> [open |-> Prefetch > 0, epoch |-> 0,
                                st |-> [NewChannelState EXCEPT !.nextPf = Prefetch]]]
    /\ handler = [k \in Conns |-> [pc |-> "ready", obj |-> 0, todo |-> {}, wait |-> {},
                                   ops |-> 0, late |-> FALSE]]
    /\ cleaner = [k \in Conns |-> [obj |-> 0, todo |-> {}]]
    /\ conn = [k \in Conns |-> "up"]
    /\ cancels = {} /\ told = {}
    /\ home = [m \in Messages |-> 0]
    /\ settled = {}

-----------------------------------------------------------------------------
(***************************************************************************)
(* Helpers shared by the actions.                                          *)
(***************************************************************************)
(* Push, for a queue below its buffer and length limits: a stopped queue   *)
(* discards the message.                                                   *)
Pushed(o, m) ==
    IF queue[o].stopped THEN queue ELSE [queue EXCEPT ![o].buf = Append(@, m)]

(* GetActiveConsumersForQueue *)
ActiveConsumers == [c \in Consumers |-> IF cons[c] = "active" THEN byQueue[c] ELSE 0]

Trying(o) == loop[o].at

(* The loop that is checking or writing a delivery to c holds its sendMu. *)
SendMuHeld(c) ==
    \E o \in Objects : loop[o].pc \in {"create", "track", "send"} /\ Trying(o) = c

(* detachConsumerDeliveries, for each of the consumers in C. *)
DetachConsumers(s, C) ==
    LET T == UNION {s.byConsumer[c] : c \in C}
    IN  [s EXCEPT !.unacked    = {IF r.tag \in T THEN MarkCancelled(r) ELSE r : r \in s.unacked},
                  !.byConsumer = [c \in Consumers |-> IF c \in C THEN {} ELSE s.byConsumer[c]]]

(* cancelConsumerLocked, for a set C of registered consumers: out of every *)
(* index, their deliveries detached, the queue's count brought up to date  *)
(* and its loop woken.                                                     *)
CancelLocked(C) ==
    /\ cons' = [c \in Consumers |-> IF c \in C THEN "removed" ELSE cons[c]]
    /\ byQueue' = [c \in Consumers |-> IF c \in C THEN 0 ELSE byQueue[c]]
    /\ queue' = IF current = 0 \/ C = {} THEN queue
                ELSE [queue EXCEPT ![current].mirror = Cardinality(Members(byQueue')),
                                     ![current].wake = TRUE]

Detached(C) == [k \in Conns |-> [chan[k] EXCEPT !.st = DetachConsumers(@, C)]]

(* takeChannelDeliveriesLocked leaves no delivery state for the channel. *)
NoState(k) == [open |-> FALSE, epoch |-> chan[k].epoch, st |-> NewChannelState]

Registered(k) == {c \in ConsumersOf(k) : cons[c] = "active"}

-----------------------------------------------------------------------------
(***************************************************************************)
(* The delivery goroutine of queue object o.                               *)
(***************************************************************************)
Goto(o, pc) == loop' = [loop EXCEPT ![o].pc = pc]
LoopOnly == UNCHANGED <<current, made, cons, byQueue, chan, handler, cleaner, conn, cancels,
                        told, home, settled>>

LoopTop(o) ==
    /\ loop[o].pc = "top"
    /\ loop' = [loop EXCEPT ![o] = Resting(IF queue[o].done THEN "exited"
                                           ELSE IF queue[o].mirror = 0 THEN "idle"
                                           ELSE "select")]
    /\ UNCHANGED queue /\ LoopOnly

(* The wait for consumersChanged or the end of the context, with no        *)
(* consumers or beside the wait for a message.                             *)
LoopWoken(o) ==
    /\ loop[o].pc \in {"idle", "select"}
    /\ queue[o].done \/ queue[o].wake
    /\ queue' = [queue EXCEPT ![o].wake = @ /\ queue[o].done]
    /\ Goto(o, "top") /\ LoopOnly

TakeMessage(o) ==
    /\ loop[o].pc = "select"
    /\ queue[o].buf # <<>>
    /\ loop' = [loop EXCEPT ![o].pc = "lookup", ![o].msg = Head(queue[o].buf)]
    /\ queue' = [queue EXCEPT ![o].buf = Tail(@)]
    /\ LoopOnly

(* Mutant: with no consumer left, the message is dropped. *)
LookupDrops(o) ==
    /\ loop[o].pc \in {"lookup", "refresh"}
    /\ loop' = [loop EXCEPT ![o].list = ActiveConsumers,
                            ![o].pc = IF ActiveConsumers = Nobody THEN "top" ELSE "round"]
    /\ UNCHANGED queue /\ LoopOnly

(* The list is looked up by name, first and after a failed delivery.  With *)
(* no consumer left, the message goes back.                                *)
Lookup(o) ==
    /\ loop[o].pc \in {"lookup", "refresh"}
    /\ loop' = [loop EXCEPT ![o].list = ActiveConsumers,
                            ![o].pc = IF ActiveConsumers = Nobody THEN "push" ELSE "round"]
    /\ UNCHANGED queue /\ LoopOnly

(* A round of deliverMessage's retry loop. *)
Round(o) ==
    /\ loop[o].pc = "round"
    /\ loop' = IF loop[o].rounds >= MaxRounds \/ queue[o].done
               THEN [loop EXCEPT ![o].pc = "push"]
               ELSE [loop EXCEPT ![o].pc = "try", ![o].left = Members(loop[o].list),
                                 ![o].rounds = @ + 1]
    /\ UNCHANGED queue /\ LoopOnly

(* One consumer of the round: getChannelDeliveryState and shouldThrottle. *)
Throttled(c) ==
    chan[ConnOf[c]].open /\ ShouldThrottle(chan[ConnOf[c]].st, c, Prefetch)

Try(o) ==
    /\ loop[o].pc = "try"
    /\ IF loop[o].left = {} THEN Goto(o, "wait")
       ELSE LET c == Earliest(loop[o].list, loop[o].left)
            IN  loop' = [loop EXCEPT ![o].pc = IF Throttled(c) THEN "try" ELSE "lock",
                                     ![o].at = c, ![o].left = @ \ {c}]
    /\ UNCHANGED queue /\ LoopOnly

(* Every consumer is throttled: another round after a second, after an ack *)
(* on the first consumer's channel, or, with the list looked up again,     *)
(* when a consumer came or went.                                           *)
FirstState(o) ==
    LET S == {c \in Members(loop[o].list) : chan[ConnOf[c]].open}
    IN  IF S = {} THEN {} ELSE {ConnOf[Earliest(loop[o].list, S)]}

WaitThrottled(o) ==
    /\ loop[o].pc = "wait"
    /\ \/ Goto(o, "round") /\ UNCHANGED <<queue, chan>>
       \/ \E k \in FirstState(o) :
            /\ chan[k].st.signal
            /\ chan' = [chan EXCEPT ![k].st.signal = FALSE]
            /\ Goto(o, "round") /\ UNCHANGED queue
       \/ /\ queue[o].wake /\ FirstState(o) # {}
          /\ queue' = [queue EXCEPT ![o].wake = FALSE]
          /\ Goto(o, "refresh") /\ UNCHANGED chan
       \/ queue[o].done /\ Goto(o, "push") /\ UNCHANGED <<queue, chan>>
    /\ UNCHANGED <<current, made, cons, byQueue, handler, cleaner, conn, cancels, told,
                   home, settled>>

(* sendMu, and the first Active check. *)
LockSend(o) ==
    /\ loop[o].pc = "lock"
    /\ ~SendMuHeld(Trying(o))
    /\ Goto(o, IF cons[Trying(o)] = "active" THEN "create" ELSE "failed")
    /\ UNCHANGED queue /\ LoopOnly

(* GetOrCreateChannelDelivery: a state created anew is told apart by its   *)
(* epoch from one another goroutine still holds.                           *)
Created(k) ==
    IF chan[k].open THEN chan[k]
    ELSE [open |-> TRUE, epoch |-> chan[k].epoch + 1, st |-> NewChannelState]

CreateState(o) ==
    LET k == ConnOf[Trying(o)]
    IN  /\ loop[o].pc = "create"
        /\ chan' = [chan EXCEPT ![k] = Created(k)]
        /\ loop' = [loop EXCEPT ![o].pc = "track", ![o].epoch = Created(k).epoch]
        /\ UNCHANGED <<current, made, queue, cons, byQueue, handler, cleaner, conn, cancels,
                       told, home, settled>>

(* The loop's channel state is still the channel's. *)
HoldsState(o) ==
    LET k == ConnOf[Trying(o)] IN chan[k].open /\ chan[k].epoch = loop[o].epoch

(* Mutant: the Active check under mu is left out. *)
TrackUnchecked(o) ==
    LET c == Trying(o)  k == ConnOf[c]
    IN  /\ loop[o].pc = "track"
        /\ chan' = IF HoldsState(o)
                   THEN [chan EXCEPT ![k].st = TrackConsumer(@, c, Name, loop[o].msg)]
                   ELSE chan
        /\ loop' = [loop EXCEPT ![o].pc = "send", ![o].tag = chan[k].st.last + 1]
        /\ UNCHANGED <<current, made, queue, cons, byQueue, handler, cleaner, conn, cancels,
                       told, home, settled>>

(* The second Active check, the delivery tag and the record. *)
Track(o) ==
    LET c == Trying(o)  k == ConnOf[c]
    IN  /\ loop[o].pc = "track"
        /\ IF cons[c] = "active"
           THEN /\ chan' = IF ~HoldsState(o) THEN chan
                           ELSE [chan EXCEPT ![k].st = IF c \in NoAck THEN TakeTag(@)
                                   ELSE TrackConsumer(@, c, Name, loop[o].msg)]
                /\ loop' = [loop EXCEPT ![o].pc = "send", ![o].tag = chan[k].st.last + 1]
           ELSE Goto(o, "failed") /\ UNCHANGED chan
        /\ UNCHANGED <<current, made, queue, cons, byQueue, handler, cleaner, conn, cancels,
                       told, home, settled>>

(* The frame write.  Writing to a socket that died may still succeed.  The *)
(* message in hand is given up: a record, or no-ack, stands for it.        *)
Send(o) ==
    LET c == Trying(o)  k == ConnOf[c]
    IN  /\ loop[o].pc = "send"
        /\ \/ /\ conn[k] # "gone"
              /\ Goto(o, "top")
              /\ settled' = IF c \in NoAck THEN settled \cup {loop[o].msg} ELSE settled
           \/ /\ conn[k] # "up"
              /\ Goto(o, IF c \in NoAck THEN "failed" ELSE "untrack")
              /\ UNCHANGED settled
        /\ UNCHANGED <<current, made, queue, cons, byQueue, chan, handler, cleaner, conn,
                       cancels, told, home>>

(* The record of a failed write is removed, if it is still there. *)
Untrack(o) ==
    LET k == ConnOf[Trying(o)]
    IN  /\ loop[o].pc = "untrack"
        /\ chan' = IF HoldsState(o)
                   THEN [chan EXCEPT ![k].st = DeleteUnacked(@, {loop[o].tag})] ELSE chan
        /\ Goto(o, "failed")
        /\ UNCHANGED <<current, made, queue, cons, byQueue, handler, cleaner, conn, cancels,
                       told, home, settled>>

(* A failed delivery: a loop that is stopping gives up. *)
Failed(o) ==
    /\ loop[o].pc = "failed"
    /\ Goto(o, IF queue[o].done THEN "push" ELSE "remove")
    /\ UNCHANGED queue /\ LoopOnly

(* removeFailedConsumer: only while o has the name and the consumer its key. *)
RemoveFailedConsumer(o) ==
    LET C == IF current = o /\ cons[Trying(o)] = "active" THEN {Trying(o)} ELSE {}
    IN  /\ loop[o].pc = "remove"
        /\ CancelLocked(C) /\ chan' = Detached(C)
        /\ Goto(o, "refresh")
        /\ UNCHANGED <<current, made, handler, cleaner, conn, cancels, told, home, settled>>

(* The message in hand goes back: no consumer, too many rounds, or         *)
(* requeueOnShutdown.                                                      *)
PushBack(o) ==
    /\ loop[o].pc = "push"
    /\ queue' = Pushed(o, loop[o].msg)
    /\ Goto(o, "top") /\ LoopOnly

LoopStep(o) ==
    \/ LoopTop(o) \/ LoopWoken(o) \/ TakeMessage(o) \/ Lookup(o) \/ Round(o) \/ Try(o)
    \/ WaitThrottled(o) \/ LockSend(o) \/ CreateState(o) \/ Track(o) \/ Send(o)
    \/ Untrack(o) \/ Failed(o) \/ RemoveFailedConsumer(o) \/ PushBack(o)

-----------------------------------------------------------------------------
(***************************************************************************)
(* The methods of connection k's client, each begun by its goroutine when  *)
(* the one before is done.  A method that was received before the          *)
(* connection's cleanup may run after it (late).                           *)
(***************************************************************************)
Begin(k, op, h) ==
    /\ op \in Ops[k]
    /\ handler[k].pc = "ready" /\ handler[k].ops < MaxOps[k]
    /\ conn[k] # "gone" \/ handler[k].late
    /\ handler' = [handler EXCEPT ![k] = [h EXCEPT !.ops = @ + 1, !.late = FALSE]]

(* basic.publish through a binding to the queue. *)
Publish(k, m) ==
    /\ Begin(k, "publish", handler[k])
    /\ current # 0 /\ home[m] = 0
    /\ home' = [home EXCEPT ![m] = current]
    /\ queue' = Pushed(current, m)
    /\ UNCHANGED <<current, made, loop, cons, byQueue, chan, cleaner, conn, cancels, told,
                   settled>>

Declare(k) ==
    /\ Begin(k, "declare", handler[k])
    /\ current = 0 /\ made < MaxQueues
    /\ made' = made + 1 /\ current' = made + 1
    /\ UNCHANGED <<queue, loop, cons, byQueue, chan, cleaner, conn, cancels, told, home,
                   settled>>

(* deleteQueuebyNameUnlocked: the loop, if it was started, is told to      *)
(* stop; consumers and deliveries of the name leave their indexes.  The    *)
(* consumers are sent basic.cancel by goroutines of their own, which the   *)
(* handler waits for at most cancelNotifyWait.                             *)
Delete(k) ==
    /\ Begin(k, "delete", handler[k])
    /\ current # 0
    /\ queue' = [queue EXCEPT ![current].stopped = TRUE,
                              ![current].done = loop[current].pc # "off"]
    /\ current' = 0
    /\ cons' = [c \in Consumers |-> IF c \in Members(byQueue) THEN "removed" ELSE cons[c]]
    /\ byQueue' = Nobody
    /\ cancels' = cancels \cup Members(byQueue)
    /\ chan' = [x \in Conns |-> [chan[x] EXCEPT !.st = DetachQueue(@, Name)]]
    /\ UNCHANGED <<made, loop, cleaner, conn, told, home, settled>>

(* consumerCancels.send, for one consumer. *)
NotifyCancel(c) ==
    /\ c \in cancels
    /\ ~SendMuHeld(c)
    /\ cancels' = cancels \ {c}
    /\ told' = IF conn[ConnOf[c]] = "up" THEN told \cup {c} ELSE told
    /\ UNCHANGED <<current, made, queue, loop, cons, byQueue, chan, handler, cleaner, conn,
                   home, settled>>

(* RegisterConsumer releases vh.mu before it starts or wakes the loop. *)
Consume(k, c) ==
    /\ Begin(k, "consume", [handler[k] EXCEPT !.pc = "start", !.obj = current])
    /\ current # 0 /\ ConnOf[c] = k /\ cons[c] = "new"
    /\ cons' = [cons EXCEPT ![c] = "active"]
    /\ byQueue' = [byQueue EXCEPT ![c] = Cardinality({x \in Consumers : cons[x] # "new"}) + 1]
    /\ queue' = [queue EXCEPT ![current].mirror = Cardinality(Members(byQueue'))]
    /\ UNCHANGED <<current, made, loop, chan, cleaner, conn, cancels, told, home, settled>>

(* Mutant: a loop that is running already is not woken. *)
StartWithoutWake(k) ==
    LET o == handler[k].obj
    IN  /\ handler[k].pc = "start"
        /\ loop' = IF loop[o].pc = "off" THEN [loop EXCEPT ![o].pc = "top"] ELSE loop
        /\ handler' = [handler EXCEPT ![k].pc = "ready", ![k].obj = 0]
        /\ UNCHANGED <<current, made, queue, cons, byQueue, chan, cleaner, conn, cancels,
                       told, home, settled>>

(* startDeliveryLoop and notifyConsumersChanged. *)
StartLoop(k) ==
    LET o == handler[k].obj
    IN  /\ handler[k].pc = "start"
        /\ loop' = IF loop[o].pc = "off" THEN [loop EXCEPT ![o].pc = "top"] ELSE loop
        /\ queue' = [queue EXCEPT ![o].wake = TRUE]
        /\ handler' = [handler EXCEPT ![k].pc = "ready", ![k].obj = 0]
        /\ UNCHANGED <<current, made, cons, byQueue, chan, cleaner, conn, cancels, told,
                       home, settled>>

(* basic.cancel; it does not wait for a delivery in flight. *)
Cancel(k, c) ==
    /\ Begin(k, "cancel", handler[k])
    /\ ConnOf[c] = k /\ cons[c] = "active"
    /\ CancelLocked({c}) /\ chan' = Detached({c})
    /\ UNCHANGED <<current, made, loop, cleaner, conn, cancels, told, home, settled>>

(* popUnackedRecords, for basic.ack and basic.nack(requeue=true). *)
Pop(k, t, multiple) ==
    /\ chan[k].open /\ ValidAck(chan[k].st, t, multiple)
    /\ chan' = [chan EXCEPT ![k].st = PopUnacked(@, t, multiple)]
    /\ UNCHANGED <<current, made, queue, loop, cons, byQueue, cleaner, conn, cancels, told,
                   home>>

Ack(k, t, multiple) ==
    /\ Begin(k, "ack", handler[k])
    /\ Pop(k, t, multiple)
    /\ settled' = settled \cup {r.msg : r \in AckedRecords(chan[k].st, t, multiple)}

(* What the client takes back of R; a record of a deleted queue is dropped. *)
Requeue(k, R) ==
    [handler[k] EXCEPT !.pc = "requeue", !.todo = {r \in R : ~r.deleted}]

Nack(k, t, multiple) ==
    /\ Begin(k, "nack", Requeue(k, AckedRecords(chan[k].st, t, multiple)))
    /\ Pop(k, t, multiple)
    /\ UNCHANGED settled

(* basic.recover(requeue=true) *)
Recover(k) ==
    /\ Begin(k, "recover", Requeue(k, FetchUnacked(chan[k].st)))
    /\ chan[k].open
    /\ chan' = [chan EXCEPT ![k].st = ClearIndexes(@)]
    /\ UNCHANGED <<current, made, queue, loop, cons, byQueue, cleaner, conn, cancels, told,
                   home, settled>>

(* One record goes back to the queue that has the name now. *)
RequeueOne(k) ==
    /\ handler[k].pc = "requeue" /\ handler[k].todo # {}
    /\ \E r \in handler[k].todo :
         /\ queue' = IF current = 0 THEN queue ELSE Pushed(current, r.msg)
         /\ handler' = [handler EXCEPT ![k].todo = @ \ {r}]
    /\ UNCHANGED <<current, made, loop, cons, byQueue, chan, cleaner, conn, cancels, told,
                   home, settled>>

RequeueDone(k) ==
    /\ handler[k].pc = "requeue" /\ handler[k].todo = {}
    /\ handler' = [handler EXCEPT ![k].pc = "ready"]
    /\ UNCHANGED <<current, made, queue, loop, cons, byQueue, chan, cleaner, conn, cancels,
                   told, home, settled>>

(* basic.get: GetMessage pops, and the delivery is tracked afterwards. *)
Get(k) ==
    /\ current # 0 /\ queue[current].buf # <<>>
    /\ Begin(k, "get", [handler[k] EXCEPT !.pc = "got",
            !.todo = {NewRecord(0, NoConsumer, Name, Head(queue[current].buf))}])
    /\ queue' = [queue EXCEPT ![current].buf = Tail(@)]
    /\ UNCHANGED <<current, made, loop, cons, byQueue, chan, cleaner, conn, cancels, told,
                   home, settled>>

TrackGot(k) ==
    /\ handler[k].pc = "got"
    /\ \E r \in handler[k].todo :
         chan' = [chan EXCEPT ![k] = [Created(k) EXCEPT !.st = TrackGet(@, Name, r.msg)]]
    /\ handler' = [handler EXCEPT ![k].pc = "ready", ![k].todo = {}]
    /\ UNCHANGED <<current, made, queue, loop, cons, byQueue, cleaner, conn, cancels, told,
                   home, settled>>

(***************************************************************************)
(* channel.close: ReleaseChannelDeliveries cancels the channel's           *)
(* consumers, waits for their deliveries in flight, takes the delivery     *)
(* state, and requeues in delivery order; then close-ok is written.  The   *)
(* client may open the channel number again.                               *)
(***************************************************************************)
Close(k) ==
    /\ Begin(k, "close", [handler[k] EXCEPT !.pc = "barrier", !.wait = Registered(k)])
    /\ CancelLocked(Registered(k)) /\ chan' = Detached(Registered(k))
    /\ UNCHANGED <<current, made, loop, cleaner, conn, cancels, told, home, settled>>

(* Mutant: the deliveries in flight are not waited for. *)
TakeAtOnce(k) ==
    /\ handler[k].pc = "barrier"
    /\ handler' = [handler EXCEPT ![k].pc = "release", ![k].wait = {}, ![k].obj = current,
                     ![k].todo = IF current = 0 THEN {} ELSE FetchUnacked(chan[k].st)]
    /\ chan' = [chan EXCEPT ![k] = NoState(k)]
    /\ UNCHANGED <<current, made, queue, loop, cons, byQueue, cleaner, conn, cancels, told,
                   home, settled>>

TakeState(k) ==
    /\ handler[k].pc = "barrier"
    /\ \A c \in handler[k].wait : ~SendMuHeld(c)
    /\ handler' = [handler EXCEPT ![k].pc = "release", ![k].wait = {}, ![k].obj = current,
                     ![k].todo = IF current = 0 THEN {} ELSE FetchUnacked(chan[k].st)]
    /\ chan' = [chan EXCEPT ![k] = NoState(k)]
    /\ UNCHANGED <<current, made, queue, loop, cons, byQueue, cleaner, conn, cancels, told,
                   home, settled>>

(* inDeliveryOrder: the lowest delivery tag first. *)
First(R) == CHOOSE r \in R : \A x \in R : r.tag <= x.tag

Release(k) ==
    LET r == First(handler[k].todo)
    IN  /\ handler[k].pc = "release" /\ handler[k].todo # {}
        /\ queue' = Pushed(handler[k].obj, r.msg)
        /\ handler' = [handler EXCEPT ![k].todo = @ \ {r}]
        /\ UNCHANGED <<current, made, loop, cons, byQueue, chan, cleaner, conn, cancels,
                       told, home, settled>>

CloseOk(k) ==
    /\ handler[k].pc = "release" /\ handler[k].todo = {}
    /\ told' = told \cup {c \in ConsumersOf(k) : conn[k] = "up" /\ cons[c] = "removed"}
    /\ handler' = [handler EXCEPT ![k].pc = "ready", ![k].obj = 0]
    /\ UNCHANGED <<current, made, queue, loop, cons, byQueue, chan, cleaner, conn, cancels,
                   home, settled>>

-----------------------------------------------------------------------------
(***************************************************************************)
(* The end of a connection.  The socket dies; a reader, a failed heartbeat *)
(* or the shutdown then runs cleanupConnection, once, whatever the         *)
(* handler and the delivery loops are doing.                               *)
(***************************************************************************)
SocketDies(k) ==
    /\ k \in Mortal /\ conn[k] = "up"
    /\ conn' = [conn EXCEPT ![k] = "dead"]
    /\ UNCHANGED <<current, made, queue, loop, cons, byQueue, chan, handler, cleaner,
                   cancels, told, home, settled>>

CleanupConnection(k) ==
    /\ conn[k] = "dead"
    /\ conn' = [conn EXCEPT ![k] = "gone"]
    /\ CancelLocked(Registered(k))
    /\ chan' = [Detached(Registered(k)) EXCEPT ![k] = NoState(k)]
    /\ cleaner' = [cleaner EXCEPT ![k].obj = current,
                     ![k].todo = IF current = 0 THEN {} ELSE FetchUnacked(chan[k].st)]
    /\ handler' = [handler EXCEPT ![k].late = "late" \in Ops[k]]
    /\ UNCHANGED <<current, made, loop, cancels, told, home, settled>>

CleanerRequeue(k) ==
    LET r == First(cleaner[k].todo)
    IN  /\ cleaner[k].todo # {}
        /\ queue' = Pushed(cleaner[k].obj, r.msg)
        /\ cleaner' = [cleaner EXCEPT ![k].todo = @ \ {r}]
        /\ UNCHANGED <<current, made, loop, cons, byQueue, chan, handler, conn, cancels,
                       told, home, settled>>

-----------------------------------------------------------------------------
(* The steps that continue a method that was begun. *)
HandlerStep(k) ==
    \/ StartLoop(k) \/ RequeueOne(k) \/ RequeueDone(k) \/ TrackGot(k) \/ TakeState(k)
    \/ Release(k) \/ CloseOk(k)

TagsOn(k) == {0} \cup Tags(chan[k].st.unacked)

Method(k) ==
    \/ \E m \in Messages : Publish(k, m)
    \/ Declare(k) \/ Delete(k) \/ Recover(k) \/ Get(k) \/ Close(k)
    \/ \E c \in Consumers : Consume(k, c) \/ Cancel(k, c)
    \/ \E t \in TagsOn(k), multiple \in BOOLEAN : Ack(k, t, multiple) \/ Nack(k, t, multiple)

Next ==
    \/ \E o \in Objects : LoopStep(o)
    \/ \E k \in Conns : Method(k) \/ HandlerStep(k) \/ SocketDies(k)
                          \/ CleanupConnection(k) \/ CleanerRequeue(k)
    \/ \E c \in Consumers : NotifyCancel(c)

Spec == Init /\ [][Next]_vars

(* Goroutines keep running; clients need not send anything more. *)
Fairness ==
    /\ \A o \in Objects : WF_vars(LoopStep(o))
    /\ \A k \in Conns : WF_vars(HandlerStep(k)) /\ WF_vars(CleanupConnection(k))
                          /\ WF_vars(CleanerRequeue(k))
    /\ \A c \in Consumers : WF_vars(NotifyCancel(c))

FairSpec == Spec /\ Fairness

-----------------------------------------------------------------------------
(***************************************************************************)
(* Where a message is.  A loop has it in hand until its record is tracked, *)
(* and again once the record of a failed write is removed.                 *)
(***************************************************************************)
InHand(o, m) ==
    /\ loop[o].msg = m /\ ~queue[o].stopped
    /\ \/ loop[o].pc \in {"lookup", "round", "try", "wait", "lock", "create", "track",
                          "failed", "remove", "refresh", "push"}
       \/ loop[o].pc = "send" /\ Trying(o) \in NoAck

Buffered(m) ==
    UNION {{o} \X {n \in DOMAIN queue[o].buf : queue[o].buf[n] = m} :
              o \in {x \in Objects : ~queue[x].stopped}}
Of(m, R) == {r \in R : r.msg = m}

Copies(m) ==
    Cardinality(Buffered(m)) + Cardinality({o \in Objects : InHand(o, m)})
  + Cardinality(UNION {{k} \X Of(m, FetchUnacked(chan[k].st)) : k \in Conns})
  + Cardinality(UNION {{k} \X Of(m, handler[k].todo) : k \in Conns})
  + Cardinality(UNION {{k} \X Of(m, cleaner[k].todo) : k \in Conns})

(***************************************************************************)
(* A message is never in two places: as long as no socket dies, no         *)
(* interleaving of loops, acks, nacks, closes and deletions queues it or   *)
(* hands it out twice, or brings back one that was acked.  (A dead socket  *)
(* may fail a write after CleanupConnection took its record: then both     *)
(* put the message back.)                                                  *)
(***************************************************************************)
NoDuplicate ==
    (\A k \in Conns : conn[k] = "up") =>
        \A m \in Messages : Copies(m) + (IF m \in settled THEN 1 ELSE 0) <= 1

(***************************************************************************)
(* A message published to a queue that still exists is settled, or is      *)
(* somewhere it will be delivered from: in a buffer, in a goroutine's      *)
(* hands, or unacked on a connection whose cleanup is still to come.       *)
(* Holds as long as no connection that dies uses basic.get (in no run does *)
(* one): a get that outlives its connection's cleanup tracks the message   *)
(* in a channel state nobody cleans up any more (broker/basic.go:93).      *)
(***************************************************************************)
Recoverable(m) ==
    \/ \E o \in Objects : \/ m \in Range(queue[o].buf)
                          \/ loop[o].msg = m /\ loop[o].pc \notin {"off", "top", "idle",
                                                                   "select", "exited"}
    \/ \E k \in Conns : \E r \in handler[k].todo \cup cleaner[k].todo : r.msg = m
    \/ \E k \in Conns : conn[k] # "gone" /\ \E r \in chan[k].st.unacked : r.msg = m

NoLoss ==
    \A m \in Messages : (home[m] # 0 /\ home[m] = current) => m \in settled \/ Recoverable(m)

(***************************************************************************)
(* Once the client has been told that a consumer is gone, by basic.cancel  *)
(* or by channel.close-ok, no delivery to it is written any more           *)
(* (consumerCancels.send, ReleaseChannelDeliveries).  Holds for clients    *)
(* that do not cancel a consumer before they close its channel, and while  *)
(* nobody deletes the queue (in the run neither happens): the close waits  *)
(* for the deliveries to the consumers it removes itself, and one in       *)
(* flight to a consumer removed before is not among them.                  *)
(***************************************************************************)
NoDeliveryAfterTold == \A o \in Objects : loop[o].pc = "send" => Trying(o) \notin told

(***************************************************************************)
(* A queue declared under the name of a deleted one starts empty and gets  *)
(* none of its messages: what is buffered in a queue, or unacked and not   *)
(* marked QueueDeleted, was published to it (detachQueueDeliveriesLocked,  *)
(* requeueOnShutdown).  Holds if the connection that deletes is the only   *)
(* one that consumes, gets, nacks or recovers (in the run there is only    *)
(* one): these look the queue up by name, or start its loop, after they    *)
(* released vh.mu (ack.go:152, consumer.go:189).                           *)
(***************************************************************************)
NoCrossQueue ==
    /\ \A o \in Objects : \A m \in Range(queue[o].buf) : home[m] = o
    /\ \A k \in Conns : \A r \in chan[k].st.unacked : r.deleted \/ home[r.msg] = current

(***************************************************************************)
(* A message in the queue, with a consumer that is not at its prefetch, is *)
(* delivered, or the consumers go away or fill up.                         *)
(***************************************************************************)
CanTake(c) == cons[c] = "active" /\ ~Throttled(c)
Outstanding(m) == \E k \in Conns : \E r \in chan[k].st.unacked : r.msg = m

QueuedIsDelivered ==
    \A m \in Messages :
        (current # 0 /\ m \in Range(queue[current].buf) /\ \E c \in Consumers : CanTake(c))
          ~> (m \in settled \/ Outstanding(m) \/ ~\E c \in Consumers : CanTake(c))
=============================================================================
