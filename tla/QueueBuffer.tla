---------------------------- MODULE QueueBuffer ----------------------------
(***************************************************************************)
(* The buffer of one queue (vhost/queue.go) with its length limit          *)
(* (vhost/qll.go), its count of messages, and the wake-ups of its delivery *)
(* goroutine, for a FIFO queue and for a priority queue.                   *)
(*                                                                         *)
(* The buffer is a Go channel, or one per priority.  buf is the messages   *)
(* in order of arrival, and the channel of a priority the subsequence with *)
(* that priority.  The delivery loop of a FIFO queue receives without      *)
(* q.mu and brings count up to date afterwards; a push makes room in one   *)
(* critical section of q.mu and sends in another.                          *)
(***************************************************************************)
EXTENDS Integers, Sequences, FiniteSets

CONSTANTS Pushers,      \* goroutines that publish or requeue
          Loop,         \* the delivery goroutine, which may push back
          Messages,     \* message identities
          Prio,         \* Properties.Priority of each message
          MaxPriority,  \* x-max-priority; 0 is a FIFO queue
          MaxLength,    \* x-max-length; 0 is no limit
          Capacity,     \* the size of a channel
          MaxChanges,   \* bound on the consumers that come and go
          MaxBacks      \* bound on deliveries given up with a consumer there

ASSUME BufferAssumption ==
    /\ Loop \notin Pushers
    /\ IsFiniteSet(Pushers)
    /\ Messages # {}
    /\ Prio \in [Messages -> Nat]
    /\ MaxPriority \in Nat /\ MaxLength \in Nat /\ Capacity \in Nat \ {0}
    /\ MaxChanges \in Nat /\ MaxBacks \in Nat

Threads == Pushers \cup {Loop}

VARIABLES buf,        \* the messages in the channels
          count,      \* q.count
          signal,     \* a token in messageSignal
          wake,       \* a token in consumersChanged
          consumers,  \* q.consumers is not 0
          at,         \* where each goroutine is
          hand,       \* the message it has
          fresh,      \* messages not published yet
          evicted,    \* messages dropped for x-max-length
          changes,    \* consumers that came or went
          backs       \* deliveries given up so far

vars == <<buf, count, signal, wake, consumers, at, hand, fresh, evicted, changes, backs>>

(* The phases of a push and of the delivery loop. *)
PC == {"idle", "push", "top", "wait", "select", "took", "drain", "pop", "have"}

(* The one type invariant. *)
TypeOK ==
    /\ buf \in Seq(Messages)
    /\ count \in Nat
    /\ signal \in BOOLEAN /\ wake \in BOOLEAN /\ consumers \in BOOLEAN
    /\ at \in [Threads -> PC]
    /\ hand \in [Threads -> Messages]
    /\ fresh \subseteq Messages /\ evicted \subseteq Messages
    /\ changes \in Nat /\ backs \in Nat

Init ==
    /\ buf = <<>> /\ count = 0
    /\ signal = FALSE /\ wake = FALSE /\ consumers = FALSE
    /\ at = [t \in Threads |-> IF t = Loop THEN "top" ELSE "idle"]
    /\ hand \in [Threads -> {CHOOSE m \in Messages : TRUE}]
    /\ fresh = Messages /\ evicted = {}
    /\ changes = 0 /\ backs = 0

-----------------------------------------------------------------------------
Fifo == MaxPriority = 0

(* pushPriority clamps the priority to x-max-priority. *)
Level(m) == IF Fifo THEN 0 ELSE IF Prio[m] < MaxPriority THEN Prio[m] ELSE MaxPriority

InLevel(l) == {n \in DOMAIN buf : Level(buf[n]) = l}

DropFirst(s, k) == [n \in 1..(Len(s) - k) |-> s[n + k]]
Without(s, i) == [n \in 1..(Len(s) - 1) |-> IF n < i THEN s[n] ELSE s[n + 1]]

(* popPriorityUnlocked: the oldest message of the highest level there is. *)
(* For a FIFO queue, whose levels are all 0, it is the oldest one.        *)
IsNext(i) ==
    /\ i \in DOMAIN buf
    /\ \A n \in DOMAIN buf : \/ Level(buf[n]) < Level(buf[i])
                             \/ Level(buf[n]) = Level(buf[i]) /\ n >= i

(***************************************************************************)
(* Push: EnforceMaxLength, then push or pushPriority.                      *)
(*                                                                         *)
(* EnforceMaxLength evicts with popUnlocked, which receives from the FIFO  *)
(* channel: a priority queue keeps nothing there.                          *)
(***************************************************************************)
(* Mutant: one message too many, for a queue that is over its limit. *)
ExcessByOne == IF MaxLength = 0 \/ count < MaxLength THEN 0
               ELSE IF count = MaxLength THEN 1 ELSE count - MaxLength + 2

Excess == IF MaxLength = 0 \/ count < MaxLength THEN 0 ELSE count - MaxLength + 1

Evicting == IF ~Fifo THEN 0 ELSE IF Excess < Len(buf) THEN Excess ELSE Len(buf)

(* Mutant: makes room down to the limit, and not for one more. *)
EnforceToLimit(t) ==
    LET k == IF Evicting = 0 THEN 0 ELSE Evicting - 1
    IN  /\ buf' = DropFirst(buf, k)
        /\ count' = count - k
        /\ evicted' = evicted \cup {buf[n] : n \in 1..k}
        /\ at' = [at EXCEPT ![t] = "push"]
        /\ UNCHANGED <<signal, wake, consumers, changes>>

(* Goroutine t is past EnforceMaxLength. *)
Enforce(t) ==
    /\ buf' = DropFirst(buf, Evicting)
    /\ count' = count - Evicting
    /\ evicted' = evicted \cup {buf[n] : n \in 1..Evicting}
    /\ at' = [at EXCEPT ![t] = "push"]
    /\ UNCHANGED <<signal, wake, consumers, changes>>

Publish(p, m) ==
    /\ at[p] = "idle" /\ m \in fresh
    /\ fresh' = fresh \ {m}
    /\ hand' = [hand EXCEPT ![p] = m]
    /\ Enforce(p) /\ UNCHANGED backs

(* push and pushPriority: a full channel drops the message.  The loop goes *)
(* on where deliverMessage was called.                                     *)
Push(t) ==
    /\ at[t] = "push"
    /\ IF Cardinality(InLevel(Level(hand[t]))) < Capacity
       THEN /\ buf' = Append(buf, hand[t])
            /\ count' = count + 1
            /\ signal' = (signal \/ ~Fifo)
       ELSE UNCHANGED <<buf, count, signal>>
    /\ at' = [at EXCEPT ![t] = IF t # Loop THEN "idle" ELSE IF Fifo THEN "top" ELSE "drain"]
    /\ UNCHANGED <<wake, consumers, hand, fresh, evicted, changes, backs>>

(* Mutant: the count is left to the caller. *)
PopUncounted(i) ==
    /\ IsNext(i)
    /\ buf' = Without(buf, i)
    /\ count' = count

(* Pop under q.mu, for basic.get: with q.mu, so the count is exact. *)
PopNext(i) ==
    /\ IsNext(i)
    /\ buf' = Without(buf, i)
    /\ count' = count - 1

Get ==
    /\ \E i \in DOMAIN buf : PopNext(i)
    /\ UNCHANGED <<signal, wake, consumers, at, hand, fresh, evicted, changes, backs>>

(* Mutant: the count goes down with each pop and again for each message. *)
PurgeCountsTwice ==
    /\ buf # <<>>
    /\ buf' = <<>> /\ count' = count - 2 * Len(buf)
    /\ UNCHANGED <<signal, wake, consumers, at, hand, fresh, evicted, changes, backs>>

(* StreamPurge. *)
Purge ==
    /\ buf # <<>>
    /\ buf' = <<>> /\ count' = count - Len(buf)
    /\ UNCHANGED <<signal, wake, consumers, at, hand, fresh, evicted, changes, backs>>

(* A consumer comes or goes: consumers.Store and notifyConsumersChanged. *)
ConsumersChange ==
    /\ changes < MaxChanges
    /\ changes' = changes + 1
    /\ consumers' = ~consumers
    /\ wake' = TRUE
    /\ UNCHANGED <<buf, count, signal, at, hand, fresh, evicted, backs>>

-----------------------------------------------------------------------------
(***************************************************************************)
(* The delivery loop.                                                      *)
(***************************************************************************)
LoopTo(pc) == at' = [at EXCEPT ![Loop] = pc]

LoopTop ==
    /\ at[Loop] = "top"
    /\ LoopTo(IF consumers THEN "select" ELSE "wait")
    /\ UNCHANGED <<buf, count, signal, wake, consumers, hand, fresh, evicted, changes, backs>>

(* consumersChanged, while idle without consumers or waiting for messages. *)
LoopWoken ==
    /\ at[Loop] \in {"wait", "select"}
    /\ wake /\ wake' = FALSE
    /\ LoopTo("top")
    /\ UNCHANGED <<buf, count, signal, consumers, hand, fresh, evicted, changes, backs>>

(* deliverFromFIFOQueue: the receive, then the count. *)
Receive ==
    /\ Fifo /\ at[Loop] = "select" /\ buf # <<>>
    /\ buf' = DropFirst(buf, 1)
    /\ hand' = [hand EXCEPT ![Loop] = buf[1]]
    /\ LoopTo("took")
    /\ UNCHANGED <<count, signal, wake, consumers, fresh, evicted, changes, backs>>

CountDown ==
    /\ at[Loop] = "took"
    /\ count' = count - 1
    /\ LoopTo("have")
    /\ UNCHANGED <<buf, signal, wake, consumers, hand, fresh, evicted, changes, backs>>

(* deliverFromPriorityQueue: the signal, then as long as there are messages. *)
TakeSignal ==
    /\ ~Fifo /\ at[Loop] = "select" /\ signal
    /\ signal' = FALSE
    /\ LoopTo("drain")
    /\ UNCHANGED <<buf, count, wake, consumers, hand, fresh, evicted, changes, backs>>

Drain ==
    /\ at[Loop] = "drain"
    /\ LoopTo(IF count > 0 THEN "pop" ELSE "top")
    /\ UNCHANGED <<buf, count, signal, wake, consumers, hand, fresh, evicted, changes, backs>>

(* Mutant: the signal is not given back. *)
LeaveQuietly ==
    /\ at[Loop] = "pop" /\ ~consumers
    /\ LoopTo("top")
    /\ UNCHANGED <<buf, count, signal, wake, consumers, hand, fresh, evicted, changes, backs>>

(* The last consumer left mid-drain: the signal is given back. *)
LeaveDrain ==
    /\ at[Loop] = "pop" /\ ~consumers
    /\ signal' = TRUE
    /\ LoopTo("top")
    /\ UNCHANGED <<buf, count, wake, consumers, hand, fresh, evicted, changes, backs>>

DrainOne ==
    /\ at[Loop] = "pop" /\ consumers
    /\ IF buf = <<>>
       THEN LoopTo("top") /\ UNCHANGED <<buf, count, hand>>
       ELSE \E i \in DOMAIN buf : /\ PopNext(i)
                                  /\ hand' = [hand EXCEPT ![Loop] = buf[i]]
                                  /\ LoopTo("have")
    /\ UNCHANGED <<signal, wake, consumers, fresh, evicted, changes, backs>>

(* deliverMessage delivers, or gives up: the consumers left, or were       *)
(* throttled for all its rounds.                                           *)
Delivered ==
    /\ at[Loop] = "have" /\ consumers
    /\ LoopTo(IF Fifo THEN "top" ELSE "drain")
    /\ UNCHANGED <<buf, count, signal, wake, consumers, hand, fresh, evicted, changes, backs>>

GiveBack ==
    /\ at[Loop] = "have"
    /\ ~consumers \/ backs < MaxBacks
    /\ backs' = IF consumers THEN backs + 1 ELSE backs
    /\ Enforce(Loop) /\ UNCHANGED <<hand, fresh>>

LoopStep ==
    \/ LoopTop \/ LoopWoken \/ Receive \/ CountDown \/ TakeSignal \/ Drain \/ LeaveDrain
    \/ DrainOne \/ Delivered \/ GiveBack \/ Push(Loop)

Next ==
    \/ \E p \in Pushers : (\E m \in Messages : Publish(p, m)) \/ Push(p)
    \/ Get \/ Purge \/ ConsumersChange
    \/ LoopStep

Spec == Init /\ [][Next]_vars
FairSpec == Spec /\ WF_vars(LoopStep)

-----------------------------------------------------------------------------
(***************************************************************************)
(* q.count, which the limiter and the drain of a priority queue rely on,   *)
(* is off by exactly the message the loop received and did not count yet.  *)
(***************************************************************************)
CountExact == count = Len(buf) + (IF at[Loop] = "took" THEN 1 ELSE 0)

(***************************************************************************)
(* x-max-length bounds the queue: pushes that passed EnforceMaxLength      *)
(* together exceed it by at most one message for each goroutine but one.   *)
(***************************************************************************)
LengthBounded == MaxLength > 0 => Len(buf) <= MaxLength - 1 + Cardinality(Threads)

(***************************************************************************)
(* EnforceMaxLength evicts to make room for one message and no further,    *)
(* except that it goes one further while the loop has received a message   *)
(* it has not counted yet.                                                 *)
(***************************************************************************)
EvictsForOne ==
    [][evicted' # evicted =>
         Len(buf') >= MaxLength - 1 - (IF at[Loop] = "took" THEN 1 ELSE 0)]_vars

(***************************************************************************)
(* Messages of a queue that has a consumer are taken, whatever wake-ups    *)
(* were merged or consumed before (messageSignal, consumersChanged).       *)
(***************************************************************************)
Drained == (consumers /\ buf # <<>>) ~> (~consumers \/ buf = <<>>)
=============================================================================
