--------------------------- MODULE DeliveryProofs ---------------------------
(***************************************************************************)
(* Proofs about Delivery, for any connections, consumers and messages, any *)
(* methods the clients use and any number of queues declared one after the *)
(* other.                                                                  *)
(***************************************************************************)
EXTENDS Delivery, ChannelStateProofs, WellFoundedInduction

(* The queue objects: one of those declared so far may have the name, the  *)
(* others are stopped.                                                     *)
ObjectsInv ==
    /\ current \in {0, made}
    /\ \A o \in Objects :
          /\ queue[o].stopped <=> (o <= made /\ o # current)
          /\ o > made => queue[o].buf = <<>> /\ loop[o].pc = "off"

(* A delivery loop has a message in hand from TakeMessage on. *)
Idling == {"off", "top", "idle", "select", "exited"}
Aiming == {"lock", "create", "track", "send", "untrack", "failed", "remove"}
LoopOf(l) ==
    /\ l.pc \in Aiming => l.at \in Consumers /\ cons[l.at] # "new"
    /\ \A c \in Members(l.list) \cup l.left : cons[c] # "new"
    /\ l.pc = "untrack" => l.at \notin NoAck
LoopsInv == \A o \in Objects : LoopOf(loop[o])

(* Consumers: those of the list are the active ones, and whoever was told  *)
(* of the end of a consumer, or will be, is right.                         *)
ConsumersInv ==
    /\ \A c \in Consumers : byQueue[c] > 0 <=> cons[c] = "active"
    /\ \A c \in cancels \cup told : cons[c] = "removed"

(* What the goroutines of a connection hold. *)
HandlerOf(k) ==
    LET h == handler[k]
    IN  /\ h.pc \notin {"requeue", "got", "release"} => h.todo = {}
        /\ h.pc = "got" => "get" \in Ops[k] /\ \E r \in h.todo : h.todo = {r}
        /\ h.pc = "start" => h.obj \in 1..made
        /\ h.pc \in {"barrier", "release"} =>
              /\ "close" \in Ops[k]
              /\ \A c \in ConsumersOf(k) : cons[c] # "active"
        /\ h.pc = "release" /\ h.todo # {} => h.obj \in 1..made
CleanerOf(k) ==
    /\ cleaner[k].todo # {} => conn[k] = "gone" /\ cleaner[k].obj \in 1..made
    /\ conn[k] # "up" => k \in Mortal
HandlersInv == \A k \in Conns : HandlerOf(k) /\ CleanerOf(k)

(* Where messages are, they were published, and to this queue object or an *)
(* earlier one.                                                            *)
BufferHomes(o) == \A m \in Range(queue[o].buf) : home[m] \in 1..o
LoopHome(o) == loop[o].pc \notin Idling => home[loop[o].msg] \in 1..o
HandlerHomes(k) ==
    \A r \in handler[k].todo :
        home[r.msg] # 0 /\ (handler[k].pc = "release" => home[r.msg] <= handler[k].obj)
CleanerHomes(k) == \A r \in cleaner[k].todo : home[r.msg] \in 1..cleaner[k].obj
HomesInv ==
    /\ \A m \in Messages : home[m] <= made
    /\ \A o \in Objects : BufferHomes(o) /\ LoopHome(o)
    /\ \A k \in Conns : HandlerHomes(k) /\ CleanerHomes(k)

(* The records of a channel state.  Those of deleted queues are of earlier *)
(* ones.                                                                   *)
RecordsOf(k) ==
    /\ \A r \in chan[k].st.unacked :
          r.tag <= chan[k].st.last /\ home[r.msg] # 0 /\ (r.deleted => home[r.msg] # current)
    /\ ~chan[k].open => chan[k].st.unacked = {}
RecordsInv == \A k \in Conns : RecordsOf(k)

(* The channel state a loop got is still the channel's while its consumer  *)
(* is active, and in it the tag of the delivery stands for its message.    *)
OwnTag(o) ==
    LET s == chan[ConnOf[loop[o].at]].st
    IN  /\ loop[o].tag <= s.last
        /\ \A r \in s.unacked : r.tag = loop[o].tag => r.msg = loop[o].msg
DeliveryOf(o) ==
    loop[o].pc \in {"track", "send", "untrack"} =>
        /\ loop[o].epoch <= chan[ConnOf[loop[o].at]].epoch
        /\ loop[o].pc = "track" /\ cons[loop[o].at] = "active" => HoldsState(o)
        /\ loop[o].pc # "track" /\ loop[o].at \notin NoAck /\ HoldsState(o) => OwnTag(o)
DeliveriesInv == \A o \in Objects : DeliveryOf(o)

BaseInv ==
    TypeOK /\ ObjectsInv /\ LoopsInv /\ ConsumersInv /\ HandlersInv /\ HomesInv /\ RecordsInv
      /\ DeliveriesInv

(* A message that is certain to be settled or put back.  A loop that is    *)
(* writing a delivery has given its message to a record already, unless    *)
(* the consumer is no-ack or the write will fail.                          *)
Carried(o, m) ==
    /\ loop[o].msg = m /\ loop[o].pc \notin Idling
    /\ loop[o].pc = "send" => loop[o].at \in NoAck \/ conn[ConnOf[loop[o].at]] = "gone"
Tracked(k, m) == conn[k] # "gone" /\ \E r \in chan[k].st.unacked : r.msg = m
Kept(m) ==
    \/ m \in settled
    \/ \E o \in Objects : m \in Range(queue[o].buf) \/ Carried(o, m)
    \/ \E k \in Conns : Tracked(k, m) \/ \E r \in handler[k].todo \cup cleaner[k].todo : r.msg = m
LossInv == \A m \in Messages : home[m] # 0 /\ home[m] = current => Kept(m)

-----------------------------------------------------------------------------
(* Sequences and minima. *)
LEMMA LessIsWellFounded ==
    \E R : IsWellFoundedOn(R, Nat) /\ \A x, y \in Nat : <<x, y>> \in R <=> x < y
<1> DEFINE R == OpToRel(<, Nat)
<1>1. \A x, y \in Nat : <<x, y>> \in R <=> x < y
  BY DEF OpToRel
<1>2. IsWellFoundedOn(R, Nat)
  BY NatLessThanWellFounded
<1> HIDE DEF R
<1> QED
  BY <1>1, <1>2

LEMMA Smallest ==
    ASSUME NEW T \in SUBSET Nat, T # {}
    PROVE  \E n \in T : \A x \in T : n <= x
<1>1. PICK R : IsWellFoundedOn(R, Nat) /\ \A x, y \in Nat : <<x, y>> \in R <=> x < y
  BY LessIsWellFounded
<1>2. IsWellFoundedOn(R, Nat) /\ T \subseteq Nat
  BY <1>1
<1>3. PICK n \in T : \A y \in T : ~ (<<y, n>> \in R)
  BY <1>2, WFMin, Zenon
<1>4. \A y \in T : ~ (y < n)
  BY <1>1, <1>3
<1> QED
  BY <1>4

LEMMA FirstIsIn ==
    ASSUME NEW R \in SUBSET DeliveryRecord, R # {}
    PROVE  First(R) \in R
<1> DEFINE T == {r.tag : r \in R}
<1>1. T \in SUBSET Nat /\ T # {}
  BY DEF DeliveryRecord
<1> HIDE DEF T
<1>2. PICK n \in T : \A x \in T : n <= x
  BY <1>1, Smallest
<1>3. \E r \in R : \A x \in R : r.tag <= x.tag
  BY <1>2 DEF T
<1> QED
  BY <1>3 DEF First

LEMMA EarliestIsIn ==
    ASSUME NEW list \in ConsumerList, NEW C \in SUBSET Consumers, C # {}
    PROVE  Earliest(list, C) \in C
<1> DEFINE T == {list[c] : c \in C}
<1>1. T \in SUBSET Nat /\ T # {}
  BY DEF ConsumerList
<1> HIDE DEF T
<1>2. PICK n \in T : \A x \in T : n <= x
  BY <1>1, Smallest
<1>3. \E c \in C : \A x \in C : list[c] <= list[x]
  BY <1>2 DEF T
<1> QED
  BY <1>3 DEF Earliest

LEMMA AppendRange ==
    ASSUME NEW s \in Seq(Messages), NEW m \in Messages
    PROVE  Append(s, m) \in Seq(Messages) /\ Range(Append(s, m)) = Range(s) \cup {m}
<1>1. Append(s, m) \in Seq(Messages) /\ Len(Append(s, m)) = Len(s) + 1
      /\ \A i \in 1..Len(s) : Append(s, m)[i] = s[i]
      /\ Append(s, m)[Len(s) + 1] = m
      /\ DOMAIN s = 1..Len(s) /\ DOMAIN Append(s, m) = 1..(Len(s) + 1) /\ Len(s) \in Nat
  OBVIOUS
<1> QED
  BY <1>1 DEF Range

LEMMA TailRange ==
    ASSUME NEW s \in Seq(Messages), s # <<>>
    PROVE  /\ Head(s) \in Messages /\ Tail(s) \in Seq(Messages)
           /\ Range(s) = Range(Tail(s)) \cup {Head(s)}
<1>1. /\ Head(s) = s[1] /\ Len(s) \in Nat \ {0} /\ DOMAIN s = 1..Len(s)
      /\ Tail(s) \in Seq(Messages) /\ DOMAIN Tail(s) = 1..(Len(s) - 1)
      /\ \A i \in 1..(Len(s) - 1) : Tail(s)[i] = s[i + 1]
  OBVIOUS
<1>2. ASSUME NEW i \in 1..Len(s)
      PROVE  s[i] \in Range(Tail(s)) \cup {Head(s)}
  <2>1. CASE i = 1
    BY <2>1, <1>1
  <2>2. CASE i # 1
    <3>1. i - 1 \in 1..(Len(s) - 1) /\ (i - 1) + 1 = i
      BY <2>2, <1>1
    <3> QED
      BY <3>1, <1>1 DEF Range
  <2> QED
    BY <2>1, <2>2
<1>3. ASSUME NEW i \in 1..(Len(s) - 1)
      PROVE  Tail(s)[i] \in Range(s)
  BY <1>1 DEF Range
<1>4. Range(s) \subseteq Range(Tail(s)) \cup {Head(s)}
  BY <1>1, <1>2 DEF Range
<1>5. Range(Tail(s)) \subseteq Range(s)
  BY <1>1, <1>3 DEF Range
<1>6. Head(s) \in Range(s) /\ Head(s) \in Messages
  BY <1>1 DEF Range
<1> QED
  BY <1>1, <1>4, <1>5, <1>6

LEMMA RangeType ==
    ASSUME NEW s \in Seq(Messages)
    PROVE  Range(s) \subseteq Messages
BY DEF Range

-----------------------------------------------------------------------------
(***************************************************************************)
(* Steps of a loop that touch neither messages nor records: its place in   *)
(* deliverMessage changes, and tokens and signals are taken.               *)
(***************************************************************************)
LoopMoved(o) == loop' \in [Objects -> Loop] /\ \A x \in Objects \ {o} : loop'[x] = loop[x]
QuietQueues ==
    /\ queue' \in [Objects -> Queue]
    /\ \A x \in Objects : /\ queue'[x].buf = queue[x].buf
                          /\ queue'[x].stopped = queue[x].stopped
                          /\ queue'[x].done = queue[x].done
QuietChannels ==
    /\ chan' \in [Conns -> Channel]
    /\ \A k \in Conns : /\ chan'[k].open = chan[k].open /\ chan'[k].epoch = chan[k].epoch
                        /\ chan'[k].st.last = chan[k].st.last
                        /\ chan'[k].st.unacked = chan[k].st.unacked
Rest == UNCHANGED <<current, made, cons, byQueue, handler, cleaner, conn, cancels, told, home, settled>>

MovesOnly(o) ==
    /\ QuietQueues /\ QuietChannels /\ Rest /\ LoopMoved(o)
    /\ loop[o].pc \notin {"off", "send"}
    /\ loop'[o].pc \notin {"off", "track", "send", "untrack"}
    /\ loop[o].pc \in Idling <=> loop'[o].pc \in Idling
    /\ loop[o].pc \notin Idling => loop'[o].msg = loop[o].msg
    /\ LoopOf(loop[o])'

LEMMA MovesOnlyBase ==
    ASSUME BaseInv, NEW o \in Objects, MovesOnly(o)
    PROVE  BaseInv'
<1>1. TypeOK'
  BY DEF BaseInv, TypeOK, MovesOnly, QuietQueues, QuietChannels, Rest, LoopMoved
<1>2. ObjectsInv'
  <2>1. current' = current /\ made' = made /\ current \in {0, made}
    BY DEF BaseInv, ObjectsInv, MovesOnly, Rest
  <2>2. ASSUME NEW x \in Objects
        PROVE  /\ queue'[x].stopped <=> (x <= made /\ x # current)
               /\ x > made => queue'[x].buf = <<>> /\ loop'[x].pc = "off"
    BY DEF BaseInv, ObjectsInv, MovesOnly, QuietQueues, LoopMoved
  <2> QED
    BY <2>1, <2>2 DEF ObjectsInv
<1>3. LoopsInv'
  BY DEF BaseInv, LoopsInv, MovesOnly, LoopMoved, Rest, LoopOf
<1>4. ConsumersInv' /\ HandlersInv'
  BY DEF BaseInv, ConsumersInv, HandlersInv, HandlerOf, CleanerOf, MovesOnly, Rest
<1>5. HomesInv'
  <2>1. home' = home /\ made' = made /\ handler' = handler /\ cleaner' = cleaner
    BY DEF MovesOnly, Rest
  <2>2. ASSUME NEW x \in Objects
        PROVE  BufferHomes(x)' /\ LoopHome(x)'
    BY <2>1 DEF BaseInv, HomesInv, BufferHomes, LoopHome, MovesOnly, QuietQueues, LoopMoved
  <2> QED
    BY <2>1, <2>2 DEF BaseInv, HomesInv, HandlerHomes, CleanerHomes
<1>6. RecordsInv'
  BY DEF BaseInv, RecordsInv, RecordsOf, MovesOnly, QuietChannels, Rest
<1>7. DeliveriesInv'
  <2> SUFFICES ASSUME NEW x \in Objects, loop'[x].pc \in {"track", "send", "untrack"}
               PROVE  DeliveryOf(x)'
    BY DEF DeliveriesInv, DeliveryOf
  <2>1. x # o /\ loop'[x] = loop[x] /\ DeliveryOf(x)
    BY DEF MovesOnly, LoopMoved, BaseInv, DeliveriesInv
  <2>2. loop[x].at \in Consumers
    BY <2>1 DEF BaseInv, LoopsInv, LoopOf, Aiming
  <2>3. ConnOf[loop[x].at] \in Conns
    BY <2>2, DeliveryAssumption
  <2> QED
    BY <2>1, <2>3 DEF DeliveryOf, OwnTag, HoldsState, Trying, MovesOnly, QuietChannels, Rest
<1> QED
  BY <1>1, <1>2, <1>3, <1>4, <1>5, <1>6, <1>7 DEF BaseInv

LEMMA MovesOnlyLoss ==
    ASSUME BaseInv, LossInv, NEW o \in Objects, MovesOnly(o)
    PROVE  LossInv'
<1> SUFFICES ASSUME NEW m \in Messages, home[m] # 0 /\ home[m] = current
             PROVE  Kept(m)'
  BY DEF LossInv, MovesOnly, Rest
<1>1. Kept(m)
  BY DEF LossInv
<1>2. CASE m \in settled
  BY <1>2 DEF Kept, MovesOnly, Rest
<1>3. ASSUME NEW x \in Objects, m \in Range(queue[x].buf) PROVE Kept(m)'
  BY <1>3 DEF Kept, MovesOnly, QuietQueues
<1>4. ASSUME NEW x \in Objects, Carried(x, m) PROVE Kept(m)'
  <2>1. CASE x = o
    <3>1. loop'[o].msg = m /\ loop'[o].pc \notin Idling /\ loop'[o].pc # "send"
      BY <1>4, <2>1 DEF Carried, MovesOnly
    <3>2. Carried(x, m)'
      BY <3>1, <2>1 DEF Carried
    <3> QED
      BY <3>2 DEF Kept
  <2>2. CASE x # o
    <3>1. Carried(x, m)'
      BY <1>4, <2>2 DEF Carried, MovesOnly, LoopMoved, Rest
    <3> QED
      BY <3>1 DEF Kept
  <2> QED
    BY <2>1, <2>2
<1>5. ASSUME NEW k \in Conns, Tracked(k, m) PROVE Kept(m)'
  <2>1. Tracked(k, m)'
    BY <1>5 DEF Tracked, MovesOnly, QuietChannels, Rest
  <2> QED
    BY <2>1 DEF Kept
<1>6. ASSUME NEW k \in Conns, NEW r \in handler[k].todo \cup cleaner[k].todo, r.msg = m
      PROVE  Kept(m)'
  BY <1>6 DEF Kept, MovesOnly, Rest
<1> QED
  BY <1>1, <1>2, <1>3, <1>4, <1>5, <1>6 DEF Kept

LEMMA RestingType ==
    ASSUME NEW pc \in LoopPC
    PROVE  /\ Resting(pc) \in Loop /\ Resting(pc).pc = pc
           /\ Members(Resting(pc).list) = {} /\ Resting(pc).left = {}
<1>1. (CHOOSE m \in Messages : TRUE) \in Messages
  BY DeliveryAssumption
<1>2. Nobody \in ConsumerList /\ Members(Nobody) = {}
  BY DEF Nobody, ConsumerList, Members
<1> QED
  BY <1>1, <1>2 DEF Resting, Loop

LEMMA GotoFields ==
    ASSUME TypeOK, NEW o \in Objects, NEW pc \in LoopPC, Goto(o, pc)
    PROVE  /\ LoopMoved(o) /\ loop'[o].pc = pc
           /\ loop'[o].msg = loop[o].msg /\ loop'[o].list = loop[o].list
           /\ loop'[o].left = loop[o].left /\ loop'[o].at = loop[o].at
           /\ loop'[o].tag = loop[o].tag /\ loop'[o].epoch = loop[o].epoch
<1>1. loop \in [Objects -> Loop] /\ loop[o] \in Loop
  BY DEF TypeOK
<1> QED
  BY <1>1 DEF Goto, Loop, LoopMoved

LEMMA NothingElse ==
    ASSUME TypeOK, UNCHANGED queue, LoopOnly
    PROVE  QuietQueues /\ QuietChannels /\ Rest
BY DEF TypeOK, LoopOnly, QuietQueues, QuietChannels, Rest

LEMMA LoopTopMoves ==
    ASSUME BaseInv, NEW o \in Objects, LoopTop(o)
    PROVE  MovesOnly(o)
<1>1. PICK pc \in {"exited", "idle", "select"} : loop' = [loop EXCEPT ![o] = Resting(pc)]
  BY DEF LoopTop
<1>2. pc \in LoopPC
  BY DEF LoopPC
<1>3. loop \in [Objects -> Loop]
  BY DEF BaseInv, TypeOK
<1>4. LoopMoved(o) /\ loop'[o] = Resting(pc)
  BY <1>1, <1>2, <1>3, RestingType DEF LoopMoved
<1>5. LoopOf(loop[o])'
  BY <1>2, <1>4, RestingType DEF LoopOf, Aiming
<1> QED
  BY <1>2, <1>4, <1>5, RestingType, NothingElse DEF LoopTop, MovesOnly, Idling, BaseInv

LEMMA LoopWokenMoves ==
    ASSUME BaseInv, NEW o \in Objects, LoopWoken(o)
    PROVE  MovesOnly(o)
<1>1. TypeOK /\ LoopOf(loop[o]) /\ "top" \in LoopPC
  BY DEF BaseInv, LoopsInv, LoopPC
<1>2. LoopMoved(o) /\ loop'[o].pc = "top" /\ loop'[o].list = loop[o].list /\ loop'[o].left = loop[o].left
  BY <1>1, GotoFields DEF LoopWoken
<1>3. LoopOf(loop[o])'
  BY <1>1, <1>2 DEF LoopOf, Aiming, LoopWoken, LoopOnly
<1>4. QuietQueues
  <2>1. queue[o] \in Queue /\ queue \in [Objects -> Queue]
    BY <1>1 DEF TypeOK
  <2>2. (queue[o].wake /\ queue[o].done) \in BOOLEAN
    BY <2>1 DEF Queue
  <2>3. queue' = [queue EXCEPT ![o].wake = (queue[o].wake /\ queue[o].done)]
    BY DEF LoopWoken
  <2> DEFINE w == queue[o].wake /\ queue[o].done
  <2> HIDE DEF w
  <2>4. w \in BOOLEAN /\ queue' = [queue EXCEPT ![o].wake = w]
    BY <2>2, <2>3 DEF w
  <2> QED
    BY <2>1, <2>4 DEF QuietQueues, Queue
<1>5. QuietChannels /\ Rest
  BY <1>1 DEF LoopWoken, LoopOnly, QuietChannels, Rest, TypeOK
<1> QED
  BY <1>2, <1>3, <1>4, <1>5 DEF LoopWoken, MovesOnly, Idling

LEMMA ActiveType ==
    ASSUME TypeOK
    PROVE  /\ ActiveConsumers \in ConsumerList
           /\ \A c \in Members(ActiveConsumers) : cons[c] = "active"
BY DEF TypeOK, ActiveConsumers, ConsumerList, Members

LEMMA LookupMoves ==
    ASSUME BaseInv, NEW o \in Objects, Lookup(o)
    PROVE  MovesOnly(o)
<1>1. TypeOK /\ LoopOf(loop[o])
  BY DEF BaseInv, LoopsInv
<1> DEFINE list == ActiveConsumers
<1>2. PICK pc \in {"push", "round"} : loop' = [loop EXCEPT ![o].list = list, ![o].pc = pc]
  BY DEF Lookup
<1>3. pc \in LoopPC
  BY DEF LoopPC
<1>4. list \in ConsumerList /\ \A c \in Members(list) : cons[c] = "active"
  BY <1>1, ActiveType
<1> HIDE DEF list
<1>5. LoopMoved(o) /\ loop'[o].pc = pc /\ loop'[o].list = list /\ loop'[o].left = loop[o].left
      /\ loop'[o].msg = loop[o].msg
  <2>1. loop \in [Objects -> Loop] /\ loop[o] \in Loop
    BY <1>1 DEF TypeOK
  <2> DEFINE l == [loop[o] EXCEPT !.list = list, !.pc = pc]
  <2>2. l \in Loop /\ l.pc = pc /\ l.list = list /\ l.left = loop[o].left /\ l.msg = loop[o].msg
    BY <1>3, <1>4, <2>1 DEF Loop
  <2>3. loop' = [loop EXCEPT ![o] = l]
    BY <1>2, <2>1
  <2> HIDE DEF l
  <2> QED
    BY <2>1, <2>2, <2>3 DEF LoopMoved
<1>6. LoopOf(loop[o])'
  BY <1>1, <1>4, <1>5 DEF LoopOf, Aiming, Lookup, LoopOnly
<1> QED
  BY <1>1, <1>5, <1>6, NothingElse DEF Lookup, MovesOnly, Idling

LEMMA RoundMoves ==
    ASSUME BaseInv, NEW o \in Objects, Round(o)
    PROVE  MovesOnly(o)
<1>1. TypeOK /\ LoopOf(loop[o]) /\ "push" \in LoopPC /\ "try" \in LoopPC
  BY DEF BaseInv, LoopsInv, LoopPC
<1>2. CASE loop' = [loop EXCEPT ![o].pc = "push"]
  <2>1. LoopMoved(o) /\ loop'[o].pc = "push" /\ loop'[o].list = loop[o].list
        /\ loop'[o].left = loop[o].left /\ loop'[o].msg = loop[o].msg
    BY <1>1, <1>2, GotoFields DEF Goto
  <2>2. LoopOf(loop[o])'
    BY <1>1, <2>1 DEF LoopOf, Aiming, Round, LoopOnly
  <2> QED
    BY <1>1, <2>1, <2>2, NothingElse DEF Round, MovesOnly, Idling
<1>3. CASE loop' = [loop EXCEPT ![o].pc = "try", ![o].left = Members(loop[o].list),
                                ![o].rounds = @ + 1]
  <2> DEFINE left == Members(loop[o].list)
             n == loop[o].rounds + 1
  <2>1. left \subseteq Consumers /\ n \in Nat
    BY <1>1 DEF Members, TypeOK, Loop
  <2>2. loop' = [loop EXCEPT ![o].pc = "try", ![o].left = left, ![o].rounds = n]
    BY <1>3
  <2>3. left = Members(loop[o].list)
    OBVIOUS
  <2> HIDE DEF left, n
  <2>4. LoopMoved(o) /\ loop'[o].pc = "try" /\ loop'[o].list = loop[o].list
        /\ loop'[o].left = left /\ loop'[o].msg = loop[o].msg
    <3>1. loop \in [Objects -> Loop] /\ loop[o] \in Loop
      BY <1>1 DEF TypeOK
    <3> DEFINE l == [loop[o] EXCEPT !.pc = "try", !.left = left, !.rounds = n]
    <3>2. l \in Loop /\ l.pc = "try" /\ l.list = loop[o].list /\ l.left = left /\ l.msg = loop[o].msg
      BY <1>1, <2>1, <3>1 DEF Loop
    <3>3. loop' = [loop EXCEPT ![o] = l]
      BY <2>2, <3>1
    <3> HIDE DEF l
    <3> QED
      BY <3>1, <3>2, <3>3 DEF LoopMoved
  <2>5. LoopOf(loop[o])'
    BY <1>1, <2>3, <2>4 DEF LoopOf, Aiming, Round, LoopOnly
  <2> QED
    BY <1>1, <2>4, <2>5, NothingElse DEF Round, MovesOnly, Idling
<1> QED
  BY <1>2, <1>3 DEF Round

LEMMA TryMoves ==
    ASSUME BaseInv, NEW o \in Objects, Try(o)
    PROVE  MovesOnly(o)
<1>1. TypeOK /\ LoopOf(loop[o]) /\ "wait" \in LoopPC /\ loop[o] \in Loop
  BY DEF BaseInv, LoopsInv, LoopPC, TypeOK
<1>2. CASE loop[o].left = {}
  <2>1. LoopMoved(o) /\ loop'[o].pc = "wait" /\ loop'[o].list = loop[o].list
        /\ loop'[o].left = loop[o].left /\ loop'[o].msg = loop[o].msg
    BY <1>1, <1>2, GotoFields DEF Try
  <2>2. LoopOf(loop[o])'
    BY <1>1, <2>1 DEF LoopOf, Aiming, Try, LoopOnly
  <2> QED
    BY <1>1, <2>1, <2>2, NothingElse DEF Try, MovesOnly, Idling
<1>3. CASE loop[o].left # {}
  <2> DEFINE c == Earliest(loop[o].list, loop[o].left)
             left == loop[o].left \ {c}
  <2>1. PICK pc \in {"try", "lock"} : loop' = [loop EXCEPT ![o].pc = pc, ![o].at = c, ![o].left = left]
    BY <1>3 DEF Try
  <2>2. c \in loop[o].left
    BY <1>1, <1>3, EarliestIsIn DEF Loop
  <2>3. left \subseteq loop[o].left
    OBVIOUS
  <2> HIDE DEF c, left
  <2>4. c \in Consumers /\ left \subseteq Consumers /\ pc \in LoopPC
    BY <1>1, <2>2, <2>3 DEF Loop, LoopPC
  <2>5. LoopMoved(o) /\ loop'[o].pc = pc /\ loop'[o].list = loop[o].list /\ loop'[o].at = c
        /\ loop'[o].left = left /\ loop'[o].msg = loop[o].msg
    BY <1>1, <2>1, <2>4 DEF LoopMoved, Loop, TypeOK
  <2>6. LoopOf(loop[o])'
    BY <1>1, <2>2, <2>3, <2>4, <2>5 DEF LoopOf, Try, LoopOnly
  <2> QED
    BY <1>1, <2>5, <2>6, NothingElse DEF Try, MovesOnly, Idling
<1> QED
  BY <1>2, <1>3

LEMMA FirstStateType ==
    ASSUME TypeOK, NEW o \in Objects
    PROVE  FirstState(o) \subseteq Conns
<1> DEFINE S == {c \in Members(loop[o].list) : chan[ConnOf[c]].open}
<1>1. S \in SUBSET Consumers /\ loop[o].list \in ConsumerList
  BY DEF Members, TypeOK, Loop
<1> HIDE DEF S
<1>2. CASE S # {}
  <2>1. Earliest(loop[o].list, S) \in Consumers
    BY <1>1, <1>2, EarliestIsIn
  <2> QED
    BY <2>1, DeliveryAssumption DEF FirstState, S
<1>3. CASE S = {}
  BY <1>3 DEF FirstState, S
<1> QED
  BY <1>2, <1>3

LEMMA WaitMoves ==
    ASSUME BaseInv, NEW o \in Objects, WaitThrottled(o)
    PROVE  MovesOnly(o)
<1>1. TypeOK /\ LoopOf(loop[o])
  BY DEF BaseInv, LoopsInv
<1>2. PICK pc \in {"round", "refresh", "push"} : Goto(o, pc)
  BY DEF WaitThrottled
<1>3. LoopMoved(o) /\ loop'[o].pc = pc /\ loop'[o].list = loop[o].list
      /\ loop'[o].left = loop[o].left /\ loop'[o].msg = loop[o].msg
  <2>1. pc \in LoopPC
    BY DEF LoopPC
  <2> QED
    BY <1>1, <1>2, <2>1, GotoFields
<1>4. LoopOf(loop[o])'
  BY <1>1, <1>3 DEF LoopOf, Aiming, WaitThrottled
<1>5. Rest
  BY DEF WaitThrottled, Rest
<1>6. QuietQueues
  <2>1. queue' = queue \/ queue' = [queue EXCEPT ![o].wake = FALSE]
    BY DEF WaitThrottled
  <2>2. queue \in [Objects -> Queue] /\ queue[o] \in Queue
    BY <1>1 DEF TypeOK
  <2>3. CASE queue' = queue
    BY <2>2, <2>3 DEF QuietQueues
  <2>4. CASE queue' = [queue EXCEPT ![o].wake = FALSE]
    BY <2>2, <2>4 DEF QuietQueues, Queue
  <2> QED
    BY <2>1, <2>3, <2>4
<1>7. QuietChannels
  <2>1. chan' = chan \/ \E k \in Conns : chan' = [chan EXCEPT ![k].st.signal = FALSE]
    BY <1>1, FirstStateType DEF WaitThrottled
  <2>2. CASE chan' = chan
    BY <1>1, <2>2 DEF QuietChannels, TypeOK
  <2>3. ASSUME NEW k \in Conns, chan' = [chan EXCEPT ![k].st.signal = FALSE]
        PROVE  QuietChannels
    <3>1. chan[k] \in Channel /\ chan[k].st \in ChannelDeliveryState /\ chan \in [Conns -> Channel]
      BY <1>1 DEF TypeOK, Channel
    <3> DEFINE s == [chan[k].st EXCEPT !.signal = FALSE]
    <3>2. s \in ChannelDeliveryState /\ s.last = chan[k].st.last /\ s.unacked = chan[k].st.unacked
      BY <3>1 DEF ChannelDeliveryState
    <3>3. chan' = [chan EXCEPT ![k].st = s]
      BY <2>3
    <3> HIDE DEF s
    <3> QED
      BY <3>1, <3>2, <3>3 DEF QuietChannels, Channel
  <2> QED
    BY <2>1, <2>2, <2>3
<1> QED
  BY <1>3, <1>4, <1>5, <1>6, <1>7 DEF MovesOnly, Idling, WaitThrottled

LEMMA LockSendMoves ==
    ASSUME BaseInv, NEW o \in Objects, LockSend(o)
    PROVE  MovesOnly(o)
<1>1. TypeOK /\ LoopOf(loop[o])
  BY DEF BaseInv, LoopsInv
<1>2. PICK pc \in {"create", "failed"} : Goto(o, pc)
  BY DEF LockSend
<1>3. pc \in LoopPC
  BY DEF LoopPC
<1>4. LoopMoved(o) /\ loop'[o].pc = pc /\ loop'[o].list = loop[o].list /\ loop'[o].at = loop[o].at
      /\ loop'[o].left = loop[o].left /\ loop'[o].msg = loop[o].msg
  BY <1>1, <1>2, <1>3, GotoFields
<1>5. LoopOf(loop[o])'
  BY <1>1, <1>4 DEF LoopOf, Aiming, LockSend, LoopOnly
<1> QED
  BY <1>1, <1>4, <1>5, NothingElse DEF LockSend, MovesOnly, Idling

LEMMA FailedMoves ==
    ASSUME BaseInv, NEW o \in Objects, Failed(o)
    PROVE  MovesOnly(o)
<1>1. TypeOK /\ LoopOf(loop[o])
  BY DEF BaseInv, LoopsInv
<1>2. PICK pc \in {"push", "remove"} : Goto(o, pc)
  BY DEF Failed
<1>3. pc \in LoopPC
  BY DEF LoopPC
<1>4. LoopMoved(o) /\ loop'[o].pc = pc /\ loop'[o].list = loop[o].list /\ loop'[o].at = loop[o].at
      /\ loop'[o].left = loop[o].left /\ loop'[o].msg = loop[o].msg
  BY <1>1, <1>2, <1>3, GotoFields
<1>5. LoopOf(loop[o])'
  BY <1>1, <1>4 DEF LoopOf, Aiming, Failed, LoopOnly
<1> QED
  BY <1>1, <1>4, <1>5, NothingElse DEF Failed, MovesOnly, Idling

-----------------------------------------------------------------------------
(***************************************************************************)
(* What a step may do to the other parts of the state.                     *)
(***************************************************************************)
(* A consumer that is gone does not come back. *)
ConsumersOnlyGo ==
    \A c \in Consumers : cons[c] # "new" =>
        cons'[c] # "new" /\ (cons'[c] = "active" => cons[c] = "active")

(* d is s with some of its records gone or marked cancelled; or, more      *)
(* generally, with new deliveries and marks of any kind as well.           *)
Derives(s, d) ==
    /\ d.last = s.last
    /\ \A r \in d.unacked : \E x \in s.unacked :
          x.tag = r.tag /\ x.msg = r.msg /\ x.deleted = r.deleted
Follows(s, d) ==
    /\ s.last <= d.last
    /\ \A r \in d.unacked : r.tag > s.last \/ \E x \in s.unacked : x.tag = r.tag /\ x.msg = r.msg

SameState(k) == chan'[k].open = chan[k].open /\ chan'[k].epoch = chan[k].epoch
Derived(k) == SameState(k) /\ Derives(chan[k].st, chan'[k].st)

(* A channel's state lives on, is taken with no consumer left, or is made. *)
Evolves(k) ==
    \/ SameState(k) /\ Follows(chan[k].st, chan'[k].st)
    \/ ~chan'[k].open /\ chan'[k].epoch = chan[k].epoch
         /\ \A c \in ConsumersOf(k) : cons'[c] # "active"
    \/ ~chan[k].open /\ chan'[k].epoch = chan[k].epoch + 1

LEMMA SameEvolves ==
    ASSUME TypeOK, NEW k \in Conns, chan'[k] = chan[k]
    PROVE  Evolves(k) /\ Derived(k)
<1>1. chan[k].st.last \in Nat
  BY DEF TypeOK, Channel, ChannelDeliveryState
<1> QED
  BY <1>1 DEF Evolves, SameState, Follows, Derived, Derives

LEMMA DerivedEvolves ==
    ASSUME TypeOK, NEW k \in Conns, Derived(k)
    PROVE  Evolves(k)
<1>1. chan[k].st.last \in Nat
  BY DEF TypeOK, Channel, ChannelDeliveryState
<1> QED
  BY <1>1 DEF Evolves, SameState, Follows, Derived, Derives

LEMMA DeliveryKept ==
    ASSUME BaseInv, chan' \in [Conns -> Channel], \A k \in Conns : Evolves(k), ConsumersOnlyGo,
           NEW o \in Objects, loop'[o] = loop[o]
    PROVE  DeliveryOf(o)'
<1> SUFFICES ASSUME loop[o].pc \in {"track", "send", "untrack"}
             PROVE  DeliveryOf(o)'
  BY DEF DeliveryOf
<1> DEFINE l == loop[o]
           k == ConnOf[l.at]
<1>1. l.at \in Consumers /\ cons[l.at] # "new" /\ DeliveryOf(o) /\ l \in Loop
  BY DEF BaseInv, LoopsInv, LoopOf, Aiming, DeliveriesInv, TypeOK
<1>2. k \in Conns
  BY <1>1, DeliveryAssumption
<1>3. Evolves(k) /\ chan[k] \in Channel /\ chan'[k] \in Channel
  BY <1>2 DEF BaseInv, TypeOK
<1>4. l.epoch \in Nat /\ l.tag \in Nat /\ chan[k].epoch \in Nat /\ chan'[k].epoch \in Nat
      /\ chan[k].st.last \in Nat /\ chan'[k].st.last \in Nat
      /\ (\A r \in chan'[k].st.unacked : r.tag \in Nat)
  BY <1>1, <1>3 DEF Loop, Channel, ChannelDeliveryState, DeliveryRecord
<1>5. /\ l.epoch <= chan[k].epoch
      /\ l.pc = "track" /\ cons[l.at] = "active" => HoldsState(o)
      /\ l.pc # "track" /\ l.at \notin NoAck /\ HoldsState(o) => OwnTag(o)
      /\ HoldsState(o) <=> chan[k].open /\ chan[k].epoch = l.epoch
      /\ HoldsState(o)' <=> chan'[k].open /\ chan'[k].epoch = l.epoch
  BY <1>1 DEF DeliveryOf, HoldsState, Trying
<1>6. cons'[l.at] = "active" => cons[l.at] = "active"
  BY <1>1 DEF ConsumersOnlyGo
<1>7. l.at \in ConsumersOf(k)
  BY <1>1 DEF ConsumersOf
<1>8. OwnTag(o) <=> /\ l.tag <= chan[k].st.last
                    /\ \A r \in chan[k].st.unacked : r.tag = l.tag => r.msg = l.msg
  BY DEF OwnTag
<1>9. OwnTag(o)' <=> /\ l.tag <= chan'[k].st.last
                     /\ \A r \in chan'[k].st.unacked : r.tag = l.tag => r.msg = l.msg
  BY DEF OwnTag
<1> HIDE DEF l, k
<1>10. /\ l.epoch <= chan'[k].epoch
       /\ l.pc = "track" /\ cons'[l.at] = "active" => HoldsState(o)'
       /\ l.pc # "track" /\ l.at \notin NoAck /\ HoldsState(o)' => OwnTag(o)'
  <2>1. CASE SameState(k) /\ Follows(chan[k].st, chan'[k].st)
    <3>1. (HoldsState(o)' <=> HoldsState(o)) /\ chan'[k].epoch = chan[k].epoch
      BY <2>1, <1>5 DEF SameState
    <3>2. OwnTag(o) => OwnTag(o)'
      BY <2>1, <1>4, <1>8, <1>9 DEF Follows
    <3> QED
      BY <3>1, <3>2, <1>5, <1>6
  <2>2. CASE ~chan'[k].open /\ chan'[k].epoch = chan[k].epoch
               /\ \A c \in ConsumersOf(k) : cons'[c] # "active"
    BY <2>2, <1>5, <1>7
  <2>3. CASE ~chan[k].open /\ chan'[k].epoch = chan[k].epoch + 1
    BY <2>3, <1>4, <1>5, <1>6
  <2> QED
    BY <1>3, <2>1, <2>2, <2>3 DEF Evolves
<1>11. l = loop'[o] /\ k = ConnOf[loop'[o].at]
  BY DEF l, k
<1> QED
  BY <1>10, <1>11 DEF DeliveryOf

LEMMA LoopKept ==
    ASSUME BaseInv, ConsumersOnlyGo, NEW o \in Objects, loop'[o] = loop[o]
    PROVE  LoopOf(loop[o])'
<1>1. LoopOf(loop[o]) /\ loop[o] \in Loop
  BY DEF BaseInv, LoopsInv, TypeOK
<1>2. Members(loop[o].list) \cup loop[o].left \subseteq Consumers
  BY <1>1 DEF Members, Loop
<1> QED
  BY <1>1, <1>2 DEF LoopOf, ConsumersOnlyGo

LEMMA ObjectsKept ==
    ASSUME ObjectsInv, UNCHANGED <<current, made>>,
           \A o \in Objects : /\ queue'[o].stopped = queue[o].stopped
                              /\ o > made => queue'[o].buf = queue[o].buf /\ loop'[o].pc = loop[o].pc
    PROVE  ObjectsInv'
BY DEF ObjectsInv

(* The buffer of a queue that was not declared yet is not touched. *)
LEMMA DeclaredObject ==
    ASSUME BaseInv
    PROVE  /\ made \in Nat /\ current \in Nat
           /\ \A o \in Objects : loop[o].pc # "off" \/ queue[o].buf # <<>> => o \in 1..made
           /\ current # 0 => current \in 1..made /\ current \in Objects
<1>1. MaxQueues \in Nat /\ made \in 1..MaxQueues
  BY DeliveryAssumption DEF BaseInv, TypeOK, Objects
<1>2. \A o \in Objects : o \in Nat /\ o >= 1
  BY <1>1 DEF Objects
<1>3. \A o \in Objects : ~ (o > made) => o <= made
  BY <1>1, <1>2
<1> QED
  BY <1>1, <1>2, <1>3 DEF BaseInv, ObjectsInv, Objects

(***************************************************************************)
(* A step keeps BaseInv when it does in each of its parts.                 *)
(***************************************************************************)
NobodyNew(k) == \A c \in ConsumersOf(k) : cons'[c] = "active" => cons[c] = "active"
HomesStay ==
    /\ \A m \in Messages : home[m] # 0 => home'[m] = home[m]
    /\ \A m \in Messages : home'[m] <= made'

LoopFine(o) == loop'[o] = loop[o] \/ (LoopOf(loop[o])' /\ DeliveryOf(o)' /\ LoopHome(o)')
BufferFine(o) == queue'[o].buf = queue[o].buf \/ BufferHomes(o)'
HandlerFine(k) ==
    \/ handler'[k] = handler[k] /\ NobodyNew(k)
    \/ HandlerOf(k)' /\ HandlerHomes(k)'
CleanerFine(k) ==
    \/ cleaner'[k] = cleaner[k] /\ conn'[k] = conn[k]
    \/ CleanerOf(k)' /\ CleanerHomes(k)'
ChannelFine(k) == Evolves(k) /\ ((Derived(k) /\ current' = current) \/ RecordsOf(k)')

StepFine ==
    /\ \A o \in Objects : LoopFine(o) /\ BufferFine(o)
    /\ \A k \in Conns : HandlerFine(k) /\ CleanerFine(k) /\ ChannelFine(k)

LEMMA LoopFineKept ==
    ASSUME BaseInv, ConsumersOnlyGo, HomesStay, chan' \in [Conns -> Channel],
           \A k \in Conns : Evolves(k), NEW o \in Objects, LoopFine(o)
    PROVE  LoopOf(loop[o])' /\ DeliveryOf(o)' /\ LoopHome(o)'
<1> SUFFICES ASSUME loop'[o] = loop[o]
             PROVE  LoopOf(loop[o])' /\ DeliveryOf(o)' /\ LoopHome(o)'
  BY DEF LoopFine
<1>1. LoopOf(loop[o])'
  BY LoopKept
<1>2. DeliveryOf(o)'
  BY DeliveryKept
<1>3. LoopHome(o)'
  <2>1. LoopHome(o) /\ loop[o].msg \in Messages
    BY DEF BaseInv, HomesInv, TypeOK, Loop
  <2> QED
    BY <2>1 DEF LoopHome, HomesStay
<1> QED
  BY <1>1, <1>2, <1>3

LEMMA BufferFineKept ==
    ASSUME BaseInv, HomesStay, NEW o \in Objects, BufferFine(o)
    PROVE  BufferHomes(o)'
<1> SUFFICES ASSUME queue'[o].buf = queue[o].buf
             PROVE  BufferHomes(o)'
  BY DEF BufferFine
<1>1. BufferHomes(o) /\ queue[o].buf \in Seq(Messages)
  BY DEF BaseInv, HomesInv, TypeOK, Queue
<1>2. Range(queue[o].buf) \subseteq Messages
  BY <1>1, RangeType
<1> QED
  BY <1>1, <1>2 DEF BufferHomes, HomesStay

LEMMA HandlerFineKept ==
    ASSUME BaseInv, HomesStay, made <= made', made \in Nat, made' \in Nat,
           NEW k \in Conns, HandlerFine(k)
    PROVE  HandlerOf(k)' /\ HandlerHomes(k)'
<1> SUFFICES ASSUME handler'[k] = handler[k], NobodyNew(k)
             PROVE  HandlerOf(k)' /\ HandlerHomes(k)'
  BY DEF HandlerFine
<1>1. HandlerOf(k) /\ HandlerHomes(k) /\ handler[k] \in Handler
  BY DEF BaseInv, HandlersInv, HomesInv, TypeOK
<1>2. handler[k].obj \in 1..made => handler[k].obj \in 1..made'
  OBVIOUS
<1>3. HandlerOf(k)'
  BY <1>1, <1>2 DEF HandlerOf, NobodyNew
<1>4. \A r \in handler[k].todo : r.msg \in Messages
  BY <1>1 DEF Handler, DeliveryRecord
<1>5. HandlerHomes(k)'
  BY <1>1, <1>4 DEF HandlerHomes, HomesStay
<1> QED
  BY <1>3, <1>5

LEMMA CleanerFineKept ==
    ASSUME BaseInv, HomesStay, made <= made', made \in Nat, made' \in Nat,
           NEW k \in Conns, CleanerFine(k)
    PROVE  CleanerOf(k)' /\ CleanerHomes(k)'
<1> SUFFICES ASSUME cleaner'[k] = cleaner[k], conn'[k] = conn[k]
             PROVE  CleanerOf(k)' /\ CleanerHomes(k)'
  BY DEF CleanerFine
<1>1. CleanerOf(k) /\ CleanerHomes(k) /\ cleaner[k] \in Cleaner
  BY DEF BaseInv, HandlersInv, HomesInv, TypeOK
<1>2. cleaner[k].obj \in 1..made => cleaner[k].obj \in 1..made'
  OBVIOUS
<1>3. CleanerOf(k)'
  BY <1>1, <1>2 DEF CleanerOf
<1>4. \A r \in cleaner[k].todo : r.msg \in Messages
  BY <1>1 DEF Cleaner, DeliveryRecord
<1>5. CleanerHomes(k)'
  <2>1. \A r \in cleaner[k].todo : home[r.msg] \in 1..cleaner[k].obj /\ home'[r.msg] = home[r.msg]
    BY <1>1, <1>4 DEF CleanerHomes, HomesStay
  <2> QED
    BY <2>1 DEF CleanerHomes
<1> QED
  BY <1>3, <1>5

LEMMA ChannelFineKept ==
    ASSUME BaseInv, HomesStay, NEW k \in Conns, ChannelFine(k)
    PROVE  RecordsOf(k)'
<1> SUFFICES ASSUME Derived(k), current' = current
             PROVE  RecordsOf(k)'
  BY DEF ChannelFine
<1>1. RecordsOf(k) /\ chan[k] \in Channel
  BY DEF BaseInv, RecordsInv, TypeOK
<1>2. \A x \in chan[k].st.unacked :
        /\ x.tag <= chan[k].st.last /\ home[x.msg] # 0 /\ (x.deleted => home[x.msg] # current)
        /\ x.msg \in Messages
  BY <1>1 DEF RecordsOf, Channel, ChannelDeliveryState, DeliveryRecord
<1>3. \A x \in chan[k].st.unacked :
        /\ x.tag <= chan[k].st.last /\ home'[x.msg] # 0 /\ (x.deleted => home'[x.msg] # current)
  BY <1>2 DEF HomesStay
<1>4. ~chan'[k].open => chan'[k].st.unacked = {}
  BY <1>1 DEF RecordsOf, Derived, Derives, SameState
<1> QED
  BY <1>3, <1>4 DEF RecordsOf, Derived, Derives

LEMMA StepFineBase ==
    ASSUME BaseInv, TypeOK', ObjectsInv', ConsumersInv', ConsumersOnlyGo, HomesStay, StepFine,
           made <= made', made \in Nat, made' \in Nat
    PROVE  BaseInv'
<1>1. chan' \in [Conns -> Channel] /\ \A k \in Conns : Evolves(k)
  BY DEF StepFine, ChannelFine, TypeOK
<1>2. \A o \in Objects : LoopOf(loop[o])' /\ DeliveryOf(o)' /\ LoopHome(o)'
  BY <1>1, LoopFineKept DEF StepFine
<1>3. \A o \in Objects : BufferHomes(o)'
  BY BufferFineKept DEF StepFine
<1>4. \A k \in Conns : HandlerOf(k)' /\ HandlerHomes(k)'
  BY HandlerFineKept DEF StepFine
<1>5. \A k \in Conns : CleanerOf(k)' /\ CleanerHomes(k)'
  BY CleanerFineKept DEF StepFine
<1>6. \A k \in Conns : RecordsOf(k)'
  BY ChannelFineKept DEF StepFine
<1>7. \A m \in Messages : home'[m] <= made'
  BY DEF HomesStay
<1> QED
  BY <1>2, <1>3, <1>4, <1>5, <1>6, <1>7
  DEF BaseInv, LoopsInv, HandlersInv, HomesInv, RecordsInv, DeliveriesInv

(***************************************************************************)
(* No message is lost in a step that keeps each of its places.             *)
(***************************************************************************)
Says(R, m) == \E r \in R : r.msg = m
RecordsStay(k) ==
    conn'[k] = conn[k] /\ \A r \in chan[k].st.unacked : Says(chan'[k].st.unacked, r.msg)
LossFine(m) ==
    /\ settled \subseteq settled'
    /\ \A k \in Conns : conn[k] = "gone" => conn'[k] = "gone"
    /\ \A o \in Objects :
          /\ Range(queue[o].buf) \subseteq Range(queue'[o].buf)
               \/ (m \in Range(queue[o].buf) => Kept(m)')
          /\ loop'[o] = loop[o] \/ (Carried(o, m) => Kept(m)')
    /\ \A k \in Conns :
          /\ RecordsStay(k) \/ (Tracked(k, m) => Kept(m)')
          /\ handler[k].todo \subseteq handler'[k].todo \/ (Says(handler[k].todo, m) => Kept(m)')
          /\ cleaner[k].todo \subseteq cleaner'[k].todo \/ (Says(cleaner[k].todo, m) => Kept(m)')

LEMMA LossFineKept ==
    ASSUME BaseInv, NEW m \in Messages, Kept(m), LossFine(m)
    PROVE  Kept(m)'
<1>1. CASE m \in settled
  BY <1>1 DEF Kept, LossFine
<1>2. ASSUME NEW o \in Objects, m \in Range(queue[o].buf) PROVE Kept(m)'
  BY <1>2 DEF Kept, LossFine
<1>3. ASSUME NEW o \in Objects, Carried(o, m) PROVE Kept(m)'
  <2>1. CASE loop'[o] = loop[o]
    <3>1. loop[o].pc = "send" => loop[o].at \in Consumers
      BY DEF BaseInv, LoopsInv, LoopOf, Aiming
    <3>2. loop[o].pc = "send" => ConnOf[loop[o].at] \in Conns
      BY <3>1, DeliveryAssumption
    <3>3. Carried(o, m)'
      BY <1>3, <2>1, <3>2 DEF Carried, LossFine
    <3> QED
      BY <3>3 DEF Kept
  <2> QED
    BY <1>3, <2>1 DEF LossFine
<1>4. ASSUME NEW k \in Conns, Tracked(k, m) PROVE Kept(m)'
  <2>1. CASE RecordsStay(k)
    <3>1. Tracked(k, m)'
      BY <1>4, <2>1 DEF Tracked, RecordsStay, Says
    <3> QED
      BY <3>1 DEF Kept
  <2> QED
    BY <1>4, <2>1 DEF LossFine
<1>5. ASSUME NEW k \in Conns, NEW r \in handler[k].todo, r.msg = m PROVE Kept(m)'
  BY <1>5 DEF LossFine, Says, Kept
<1>6. ASSUME NEW k \in Conns, NEW r \in cleaner[k].todo, r.msg = m PROVE Kept(m)'
  BY <1>6 DEF LossFine, Says, Kept
<1> QED
  BY <1>1, <1>2, <1>3, <1>4, <1>5, <1>6 DEF Kept

(* The ways to keep a message. *)
LEMMA KeptIn ==
    ASSUME NEW m \in Messages
    PROVE  /\ m \in settled' => Kept(m)'
           /\ \A o \in Objects : m \in Range(queue'[o].buf) \/ Carried(o, m)' => Kept(m)'
           /\ \A k \in Conns : /\ Tracked(k, m)' => Kept(m)'
                               /\ Says(handler'[k].todo, m) => Kept(m)'
                               /\ Says(cleaner'[k].todo, m) => Kept(m)'
BY DEF Kept, Says

-----------------------------------------------------------------------------
(* What the helpers of the actions return. *)
LEMMA PushedFields ==
    ASSUME TypeOK, NEW o \in Objects, NEW m \in Messages, queue' = Pushed(o, m)
    PROVE  /\ queue' \in [Objects -> Queue]
           /\ \A x \in Objects : /\ queue'[x].stopped = queue[x].stopped
                                 /\ queue'[x].done = queue[x].done
                                 /\ x # o => queue'[x].buf = queue[x].buf
           /\ Range(queue'[o].buf) \subseteq Range(queue[o].buf) \cup {m}
           /\ Range(queue[o].buf) \subseteq Range(queue'[o].buf)
           /\ ~queue[o].stopped => m \in Range(queue'[o].buf)
<1>1. queue \in [Objects -> Queue] /\ queue[o] \in Queue /\ queue[o].buf \in Seq(Messages)
  BY DEF TypeOK, Queue
<1>2. CASE queue[o].stopped
  BY <1>1, <1>2 DEF Pushed
<1>3. CASE ~queue[o].stopped
  <2> DEFINE b == Append(queue[o].buf, m)
             q == [queue[o] EXCEPT !.buf = b]
  <2>1. b \in Seq(Messages) /\ Range(b) = Range(queue[o].buf) \cup {m}
    BY <1>1, AppendRange
  <2>2. queue' = [queue EXCEPT ![o] = q]
    BY <1>1, <1>3 DEF Pushed
  <2> HIDE DEF b
  <2>3. q \in Queue /\ q.buf = b /\ q.stopped = queue[o].stopped /\ q.done = queue[o].done
    BY <1>1, <2>1 DEF Queue
  <2> HIDE DEF q
  <2>4. queue' \in [Objects -> Queue] /\ queue'[o] = q /\ \A x \in Objects : x # o => queue'[x] = queue[x]
    BY <1>1, <2>2, <2>3
  <2> QED
    BY <2>1, <2>3, <2>4
<1> QED
  BY <1>2, <1>3

LEMMA TailFields ==
    ASSUME TypeOK, NEW o \in Objects, queue[o].buf # <<>>,
           queue' = [queue EXCEPT ![o].buf = Tail(@)]
    PROVE  /\ queue' \in [Objects -> Queue]
           /\ \A x \in Objects : /\ queue'[x].stopped = queue[x].stopped
                                 /\ queue'[x].done = queue[x].done
                                 /\ x # o => queue'[x].buf = queue[x].buf
           /\ Range(queue[o].buf) = Range(queue'[o].buf) \cup {Head(queue[o].buf)}
           /\ Head(queue[o].buf) \in Messages
<1>1. queue \in [Objects -> Queue] /\ queue[o] \in Queue /\ queue[o].buf \in Seq(Messages)
  BY DEF TypeOK, Queue
<1> DEFINE b == Tail(queue[o].buf)
           q == [queue[o] EXCEPT !.buf = b]
<1>2. /\ Head(queue[o].buf) \in Messages /\ b \in Seq(Messages)
      /\ Range(queue[o].buf) = Range(b) \cup {Head(queue[o].buf)}
  BY <1>1, TailRange
<1>3. queue' = [queue EXCEPT ![o] = q]
  BY <1>1
<1> HIDE DEF b
<1>4. q \in Queue /\ q.buf = b /\ q.stopped = queue[o].stopped /\ q.done = queue[o].done
  BY <1>1, <1>2 DEF Queue
<1> HIDE DEF q
<1>5. queue' \in [Objects -> Queue] /\ queue'[o] = q /\ \A x \in Objects : x # o => queue'[x] = queue[x]
  BY <1>1, <1>3, <1>4
<1> QED
  BY <1>2, <1>4, <1>5

HandlerMoved(k) ==
    handler' \in [Conns -> Handler] /\ \A x \in Conns \ {k} : handler'[x] = handler[x]

LEMMA BeginFields ==
    ASSUME TypeOK, NEW k \in Conns, NEW op, NEW h \in Handler, Begin(k, op, h)
    PROVE  /\ HandlerMoved(k) /\ op \in Ops[k] /\ handler[k].pc = "ready"
           /\ handler'[k].pc = h.pc /\ handler'[k].obj = h.obj
           /\ handler'[k].todo = h.todo /\ handler'[k].wait = h.wait
<1>1. handler \in [Conns -> Handler] /\ handler[k] \in Handler
  BY DEF TypeOK
<1> DEFINE n == h.ops + 1
           g == [h EXCEPT !.ops = n, !.late = FALSE]
<1>2. handler' = [handler EXCEPT ![k] = g] /\ op \in Ops[k] /\ handler[k].pc = "ready"
  BY DEF Begin
<1>3. n \in Nat
  BY DEF Handler
<1> HIDE DEF n
<1>4. g \in Handler /\ g.pc = h.pc /\ g.obj = h.obj /\ g.todo = h.todo /\ g.wait = h.wait
  BY <1>3 DEF Handler
<1> HIDE DEF g
<1> QED
  BY <1>1, <1>2, <1>4 DEF HandlerMoved

LEMMA MirrorIsQuiet ==
    ASSUME TypeOK, NEW o \in Objects, NEW n \in Nat, NEW b \in BOOLEAN,
           queue' = [queue EXCEPT ![o].mirror = n, ![o].wake = b]
    PROVE  QuietQueues
<1>1. queue \in [Objects -> Queue] /\ queue[o] \in Queue
  BY DEF TypeOK
<1> DEFINE q == [queue[o] EXCEPT !.mirror = n, !.wake = b]
<1>2. q \in Queue /\ q.buf = queue[o].buf /\ q.stopped = queue[o].stopped /\ q.done = queue[o].done
  BY <1>1 DEF Queue
<1>3. queue' = [queue EXCEPT ![o] = q]
  BY <1>1
<1> HIDE DEF q
<1> QED
  BY <1>1, <1>2, <1>3 DEF QuietQueues

LEMMA MembersCount ==
    ASSUME NEW list \in ConsumerList
    PROVE  Cardinality(Members(list)) \in Nat
<1>1. Members(list) \subseteq Consumers
  BY DEF Members
<1> QED
  BY <1>1, DeliveryAssumption, FS_Subset, FS_CardinalityType

(* cancelConsumerLocked *)
LEMMA CancelFields ==
    ASSUME BaseInv, NEW C \in SUBSET Consumers, \A c \in C : cons[c] = "active", CancelLocked(C)
    PROVE  /\ cons' \in [Consumers -> {"new", "active", "removed"}] /\ byQueue' \in ConsumerList
           /\ QuietQueues /\ ConsumersOnlyGo
           /\ \A c \in Consumers : cons'[c] = IF c \in C THEN "removed" ELSE cons[c]
           /\ \A k \in Conns : NobodyNew(k)
           /\ \A c \in Consumers : byQueue'[c] > 0 <=> cons'[c] = "active"
<1>1. TypeOK /\ cons \in [Consumers -> {"new", "active", "removed"}] /\ byQueue \in ConsumerList
      /\ current \in {0} \cup Objects
  BY DEF BaseInv, TypeOK
<1>2. cons' \in [Consumers -> {"new", "active", "removed"}]
      /\ \A c \in Consumers : cons'[c] = IF c \in C THEN "removed" ELSE cons[c]
  BY <1>1 DEF CancelLocked
<1>3. byQueue' \in ConsumerList
      /\ \A c \in Consumers : byQueue'[c] = IF c \in C THEN 0 ELSE byQueue[c]
  BY <1>1 DEF CancelLocked, ConsumerList
<1>4. \A c \in Consumers : byQueue'[c] > 0 <=> cons'[c] = "active"
  BY <1>2, <1>3 DEF BaseInv, ConsumersInv
<1>5. ConsumersOnlyGo
  BY <1>2 DEF ConsumersOnlyGo
<1>6. \A k \in Conns : NobodyNew(k)
  BY <1>2 DEF NobodyNew, ConsumersOf
<1>7. QuietQueues
  <2>1. CASE current = 0 \/ C = {}
    BY <1>1, <2>1 DEF CancelLocked, QuietQueues, TypeOK
  <2>2. CASE ~(current = 0 \/ C = {})
    <3> DEFINE n == Cardinality(Members(byQueue'))
    <3>1. n \in Nat
      BY <1>3, MembersCount
    <3>2. current \in Objects /\ queue' = [queue EXCEPT ![current].mirror = n, ![current].wake = TRUE]
      BY <1>1, <2>2 DEF CancelLocked
    <3> HIDE DEF n
    <3> QED
      BY <1>1, <3>1, <3>2, MirrorIsQuiet
  <2> QED
    BY <2>1, <2>2
<1> QED
  BY <1>2, <1>3, <1>4, <1>5, <1>6, <1>7

LEMMA MarkMsg ==
    ASSUME NEW r \in DeliveryRecord
    PROVE  MarkCancelled(r).msg = r.msg /\ MarkDeleted(r).msg = r.msg
BY DEF MarkDeleted, MarkCancelled, DeliveryRecord

LEMMA DetachConsumersFields ==
    ASSUME NEW s \in ChannelDeliveryState, NEW C
    PROVE  LET d == DetachConsumers(s, C)
           IN  /\ d \in ChannelDeliveryState /\ d.last = s.last
               /\ \A r \in d.unacked : \E x \in s.unacked :
                    x.tag = r.tag /\ x.msg = r.msg /\ x.deleted = r.deleted
               /\ \A x \in s.unacked : \E r \in d.unacked :
                    x.tag = r.tag /\ x.msg = r.msg /\ x.deleted = r.deleted
<1> DEFINE T == UNION {s.byConsumer[c] : c \in C}
           f(r) == IF r.tag \in T THEN MarkCancelled(r) ELSE r
           U == {f(r) : r \in s.unacked}
           B == [c \in Consumers |-> IF c \in C THEN {} ELSE s.byConsumer[c]]
           d == [s EXCEPT !.unacked = U, !.byConsumer = B]
<1>1. d = DetachConsumers(s, C)
  BY DEF DetachConsumers
<1>2. \A x \in s.unacked : f(x) \in DeliveryRecord /\ x.tag = f(x).tag /\ x.msg = f(x).msg
                           /\ x.deleted = f(x).deleted
  BY MarkFields, MarkMsg DEF ChannelDeliveryState
<1>3. U \subseteq DeliveryRecord
  BY <1>2
<1>4. B \in [ConsumerTags -> SUBSET Nat]
  BY DEF ChannelDeliveryState, Consumers
<1>5. /\ \A r \in U : \E x \in s.unacked : x.tag = r.tag /\ x.msg = r.msg /\ x.deleted = r.deleted
      /\ \A x \in s.unacked : \E r \in U : x.tag = r.tag /\ x.msg = r.msg /\ x.deleted = r.deleted
  BY <1>2
<1> HIDE DEF U, B
<1>6. d \in ChannelDeliveryState /\ d.last = s.last /\ d.unacked = U
  BY <1>3, <1>4 DEF ChannelDeliveryState
<1> HIDE DEF d
<1> QED
  BY <1>1, <1>5, <1>6

LEMMA DetachedFields ==
    ASSUME TypeOK, NEW C, NEW k \in Conns
    PROVE  LET e == Detached(C)[k]
           IN  /\ e \in Channel /\ e.open = chan[k].open /\ e.epoch = chan[k].epoch
               /\ Derives(chan[k].st, e.st)
               /\ \A r \in chan[k].st.unacked : Says(e.st.unacked, r.msg)
<1> DEFINE d == DetachConsumers(chan[k].st, C)
           e == [chan[k] EXCEPT !.st = d]
<1>1. chan[k] \in Channel /\ chan[k].st \in ChannelDeliveryState
  BY DEF TypeOK, Channel
<1>2. Detached(C)[k] = e
  BY DEF Detached
<1>3. /\ d \in ChannelDeliveryState /\ Derives(chan[k].st, d)
      /\ \A r \in chan[k].st.unacked : Says(d.unacked, r.msg)
  BY <1>1, DetachConsumersFields DEF Derives, Says
<1> HIDE DEF d
<1>4. e \in Channel /\ e.open = chan[k].open /\ e.epoch = chan[k].epoch /\ e.st = d
  BY <1>1, <1>3 DEF Channel
<1> HIDE DEF e
<1> QED
  BY <1>2, <1>3, <1>4

LEMMA DetachedFine ==
    ASSUME TypeOK, NEW C, chan' = Detached(C)
    PROVE  /\ chan' \in [Conns -> Channel]
           /\ \A k \in Conns : Derived(k) /\ Evolves(k)
           /\ \A k \in Conns : \A r \in chan[k].st.unacked : Says(chan'[k].st.unacked, r.msg)
<1>1. ASSUME NEW k \in Conns
      PROVE  /\ chan'[k] \in Channel /\ Derived(k) /\ Evolves(k)
             /\ \A r \in chan[k].st.unacked : Says(chan'[k].st.unacked, r.msg)
  BY DetachedFields, DerivedEvolves DEF Derived, SameState
<1>2. DOMAIN chan' = Conns /\ chan' = [k \in Conns |-> chan'[k]]
  BY DEF Detached
<1> QED
  BY <1>1, <1>2

-----------------------------------------------------------------------------
(* Parts of the state that a step leaves alone. *)
LEMMA ChannelsSame ==
    ASSUME BaseInv, chan' = chan, current' = current
    PROVE  chan' \in [Conns -> Channel] /\ \A k \in Conns : ChannelFine(k)
BY SameEvolves DEF BaseInv, TypeOK, ChannelFine

LEMMA ConsumersSame ==
    ASSUME BaseInv, UNCHANGED <<cons, byQueue, cancels, told>>
    PROVE  ConsumersInv' /\ ConsumersOnlyGo /\ \A k \in Conns : NobodyNew(k)
BY DEF BaseInv, ConsumersInv, ConsumersOnlyGo, NobodyNew

LEMMA HomesSame ==
    ASSUME BaseInv, UNCHANGED <<made, home>>
    PROVE  HomesStay /\ made <= made' /\ made \in Nat /\ made' \in Nat
<1>1. made \in Nat
  BY DeclaredObject
<1> QED
  BY <1>1 DEF BaseInv, HomesInv, HomesStay

LEMMA LoopsSame ==
    ASSUME BaseInv, NEW o \in Objects, LoopMoved(o), LoopFine(o)
    PROVE  \A x \in Objects : LoopFine(x)
BY DEF LoopMoved, LoopFine

(* A queue object that has a message of the current queue is that queue. *)
LEMMA CurrentObject ==
    ASSUME BaseInv, NEW o \in 1..made, current # 0, current <= o
    PROVE  o = current /\ o \in Objects /\ ~queue[o].stopped
<1>1. made \in Nat /\ made \in Objects /\ MaxQueues \in Nat
  BY DeclaredObject, DeliveryAssumption DEF BaseInv, TypeOK
<1>2. o = current /\ o \in Objects
  BY <1>1 DEF BaseInv, ObjectsInv, Objects
<1> QED
  BY <1>2 DEF BaseInv, ObjectsInv

LEMMA TakeMessageFields ==
    ASSUME BaseInv, NEW o \in Objects, TakeMessage(o)
    PROVE  /\ LoopMoved(o) /\ loop'[o].pc = "lookup" /\ loop'[o].msg = Head(queue[o].buf)
           /\ loop'[o].list = loop[o].list /\ loop'[o].left = loop[o].left
           /\ queue[o].buf # <<>> /\ queue' = [queue EXCEPT ![o].buf = Tail(@)]
<1>1. loop \in [Objects -> Loop] /\ loop[o] \in Loop /\ "lookup" \in LoopPC
  BY DEF BaseInv, TypeOK, LoopPC
<1> DEFINE m == Head(queue[o].buf)
           l == [loop[o] EXCEPT !.pc = "lookup", !.msg = m]
<1>2. queue[o].buf # <<>> /\ queue' = [queue EXCEPT ![o].buf = Tail(@)]
  BY DEF TakeMessage
<1>3. m \in Messages
  BY <1>2, TailFields DEF BaseInv
<1>4. loop' = [loop EXCEPT ![o] = l]
  BY <1>1 DEF TakeMessage
<1> HIDE DEF m
<1>5. l \in Loop /\ l.pc = "lookup" /\ l.msg = m /\ l.list = loop[o].list /\ l.left = loop[o].left
  BY <1>1, <1>3 DEF Loop
<1> HIDE DEF l
<1>6. LoopMoved(o) /\ loop'[o] = l
  BY <1>1, <1>4, <1>5 DEF LoopMoved
<1> QED
  BY <1>2, <1>5, <1>6 DEF m

LEMMA TakeMessageBase ==
    ASSUME BaseInv, NEW o \in Objects, TakeMessage(o)
    PROVE  BaseInv'
<1>1. UNCHANGED <<current, made, cons, byQueue, chan, handler, cleaner, conn, cancels, told, home, settled>>
  BY DEF TakeMessage, LoopOnly
<1>2. /\ queue' \in [Objects -> Queue]
      /\ \A x \in Objects : queue'[x].stopped = queue[x].stopped
                            /\ (x # o => queue'[x].buf = queue[x].buf)
      /\ Range(queue[o].buf) = Range(queue'[o].buf) \cup {Head(queue[o].buf)}
  BY TakeMessageFields, TailFields DEF BaseInv
<1>3. LoopMoved(o) /\ loop'[o].pc = "lookup" /\ loop'[o].msg = Head(queue[o].buf)
      /\ loop'[o].list = loop[o].list /\ loop'[o].left = loop[o].left /\ queue[o].buf # <<>>
  BY TakeMessageFields
<1>4. TypeOK'
  BY <1>1, <1>2, <1>3 DEF BaseInv, TypeOK, LoopMoved
<1>5. ObjectsInv'
  <2>1. o \in 1..made /\ made \in Nat
    BY <1>3, DeclaredObject
  <2>2. ~(o > made)
    BY <2>1
  <2> QED
    BY <1>1, <1>2, <1>3, <2>2, ObjectsKept DEF BaseInv, LoopMoved
<1>6. LoopFine(o)
  <2>1. LoopOf(loop[o])'
    BY <1>1, <1>3 DEF BaseInv, LoopsInv, LoopOf, Aiming
  <2>2. DeliveryOf(o)'
    BY <1>3 DEF DeliveryOf
  <2>3. LoopHome(o)'
    BY <1>1, <1>2, <1>3 DEF LoopHome, BaseInv, HomesInv, BufferHomes
  <2> QED
    BY <2>1, <2>2, <2>3 DEF LoopFine
<1>7. \A x \in Objects : BufferFine(x)
  BY <1>1, <1>2 DEF BufferFine, BufferHomes, BaseInv, HomesInv
<1>8. StepFine
  BY <1>1, <1>3, <1>6, <1>7, LoopsSame, ChannelsSame, ConsumersSame
  DEF StepFine, HandlerFine, CleanerFine
<1> QED
  BY <1>1, <1>4, <1>5, <1>8, ConsumersSame, HomesSame, StepFineBase

LEMMA TakeMessageLoss ==
    ASSUME BaseInv, LossInv, NEW o \in Objects, TakeMessage(o)
    PROVE  LossInv'
<1>1. UNCHANGED <<current, made, cons, byQueue, chan, handler, cleaner, conn, cancels, told, home, settled>>
  BY DEF TakeMessage, LoopOnly
<1> SUFFICES ASSUME NEW m \in Messages, home[m] # 0 /\ home[m] = current
             PROVE  Kept(m)'
  BY <1>1 DEF LossInv
<1>2. /\ \A x \in Objects : x # o => queue'[x].buf = queue[x].buf
      /\ Range(queue[o].buf) = Range(queue'[o].buf) \cup {Head(queue[o].buf)}
  BY TakeMessageFields, TailFields DEF BaseInv
<1>3. LoopMoved(o) /\ loop'[o].pc = "lookup" /\ loop'[o].msg = Head(queue[o].buf)
  BY TakeMessageFields
<1>4. m \in Range(queue[o].buf) => Kept(m)'
  <2>1. m = Head(queue[o].buf) => Carried(o, m)'
    BY <1>3 DEF Carried, Idling
  <2> QED
    BY <1>2, <2>1, KeptIn
<1>5. ~Carried(o, m)
  BY DEF TakeMessage, Carried, Idling
<1>6. LossFine(m)
  BY <1>1, <1>2, <1>3, <1>4, <1>5 DEF LossFine, LoopMoved, RecordsStay, Says
<1> QED
  BY <1>6, LossFineKept DEF LossInv

LEMMA PushBackBase ==
    ASSUME BaseInv, NEW o \in Objects, PushBack(o)
    PROVE  BaseInv'
<1>1. UNCHANGED <<current, made, cons, byQueue, chan, handler, cleaner, conn, cancels, told, home, settled>>
  BY DEF PushBack, LoopOnly
<1> DEFINE m == loop[o].msg
<1>2. m \in Messages /\ home[m] \in 1..o /\ TypeOK /\ "top" \in LoopPC
  BY DEF BaseInv, TypeOK, Loop, HomesInv, LoopHome, PushBack, Idling, LoopPC
<1>3. /\ queue' \in [Objects -> Queue]
      /\ \A x \in Objects : queue'[x].stopped = queue[x].stopped
                            /\ (x # o => queue'[x].buf = queue[x].buf)
      /\ Range(queue'[o].buf) \subseteq Range(queue[o].buf) \cup {m}
  BY <1>2, PushedFields DEF PushBack
<1>4. LoopMoved(o) /\ loop'[o].pc = "top" /\ loop'[o].list = loop[o].list /\ loop'[o].left = loop[o].left
  BY <1>2, GotoFields DEF PushBack
<1> HIDE DEF m
<1>5. TypeOK'
  BY <1>1, <1>3, <1>4 DEF BaseInv, TypeOK, LoopMoved
<1>6. ObjectsInv'
  <2>1. o \in 1..made /\ made \in Nat
    BY DeclaredObject DEF PushBack
  <2>2. ~(o > made)
    BY <2>1
  <2> QED
    BY <1>1, <1>3, <1>4, <2>2, ObjectsKept DEF BaseInv, LoopMoved
<1>7. LoopFine(o)
  BY <1>1, <1>4 DEF BaseInv, LoopsInv, LoopOf, Aiming, DeliveryOf, LoopHome, Idling, LoopFine
<1>8. \A x \in Objects : BufferFine(x)
  BY <1>1, <1>2, <1>3 DEF BufferFine, BufferHomes, BaseInv, HomesInv
<1>9. StepFine
  BY <1>1, <1>4, <1>7, <1>8, LoopsSame, ChannelsSame, ConsumersSame
  DEF StepFine, HandlerFine, CleanerFine
<1> QED
  BY <1>1, <1>5, <1>6, <1>9, ConsumersSame, HomesSame, StepFineBase

LEMMA PushBackLoss ==
    ASSUME BaseInv, LossInv, NEW o \in Objects, PushBack(o)
    PROVE  LossInv'
<1>1. UNCHANGED <<current, made, cons, byQueue, chan, handler, cleaner, conn, cancels, told, home, settled>>
  BY DEF PushBack, LoopOnly
<1> SUFFICES ASSUME NEW m \in Messages, home[m] # 0 /\ home[m] = current
             PROVE  Kept(m)'
  BY <1>1 DEF LossInv
<1>2. loop[o].msg \in Messages /\ home[loop[o].msg] \in 1..o /\ TypeOK /\ "top" \in LoopPC
  BY DEF BaseInv, TypeOK, Loop, HomesInv, LoopHome, PushBack, Idling, LoopPC
<1>3. /\ \A x \in Objects : Range(queue[x].buf) \subseteq Range(queue'[x].buf)
      /\ ~queue[o].stopped => loop[o].msg \in Range(queue'[o].buf)
  BY <1>2, PushedFields DEF PushBack
<1>4. LoopMoved(o)
  BY <1>2, GotoFields DEF PushBack
<1>5. Carried(o, m) => Kept(m)'
  <2> SUFFICES ASSUME loop[o].msg = m PROVE Kept(m)'
    BY DEF Carried
  <2>1. o \in 1..made
    BY DeclaredObject DEF PushBack
  <2>2. current # 0 /\ current <= o
    BY <1>2
  <2>3. ~queue[o].stopped
    BY <2>1, <2>2, CurrentObject
  <2> QED
    BY <1>3, <2>3, KeptIn
<1>6. LossFine(m)
  BY <1>1, <1>3, <1>4, <1>5 DEF LossFine, LoopMoved, RecordsStay, Says
<1> QED
  BY <1>6, LossFineKept DEF LossInv

-----------------------------------------------------------------------------
(* GetOrCreateChannelDelivery *)
LEMMA NewStateType ==
    NewChannelState \in ChannelDeliveryState /\ NewChannelState.unacked = {} /\ NewChannelState.last = 0
BY DEF NewChannelState, ChannelDeliveryState

LEMMA CreatedFields ==
    ASSUME BaseInv, NEW k \in Conns
    PROVE  /\ Created(k) \in Channel /\ Created(k).open
           /\ Created(k).st.unacked = chan[k].st.unacked
           /\ chan[k].open => Created(k) = chan[k]
           /\ ~chan[k].open => Created(k).epoch = chan[k].epoch + 1 /\ Created(k).st.last = 0
<1>1. chan[k] \in Channel /\ RecordsOf(k)
  BY DEF BaseInv, TypeOK, RecordsInv
<1>2. CASE chan[k].open
  BY <1>1, <1>2 DEF Created
<1>3. CASE ~chan[k].open
  <2>1. chan[k].epoch + 1 \in Nat /\ chan[k].st.unacked = {}
    BY <1>1, <1>3 DEF Channel, RecordsOf
  <2>2. Created(k) = [open |-> TRUE, epoch |-> chan[k].epoch + 1, st |-> NewChannelState]
    BY <1>3 DEF Created
  <2> QED
    BY <1>3, <2>1, <2>2, NewStateType DEF Channel
<1> QED
  BY <1>2, <1>3

LEMMA CreateStateFields ==
    ASSUME BaseInv, NEW o \in Objects, CreateState(o)
    PROVE  LET k == ConnOf[loop[o].at]
           IN  /\ loop[o].pc = "create" /\ loop[o].at \in Consumers /\ k \in Conns
               /\ chan' \in [Conns -> Channel] /\ chan' = [chan EXCEPT ![k] = Created(k)]
               /\ LoopMoved(o) /\ loop'[o].pc = "track" /\ loop'[o].epoch = Created(k).epoch
               /\ loop'[o].at = loop[o].at /\ loop'[o].msg = loop[o].msg
               /\ loop'[o].list = loop[o].list /\ loop'[o].left = loop[o].left
<1> DEFINE k == ConnOf[loop[o].at]
           n == Created(k).epoch
           l == [loop[o] EXCEPT !.pc = "track", !.epoch = n]
<1>1. loop \in [Objects -> Loop] /\ loop[o] \in Loop /\ "track" \in LoopPC /\ chan \in [Conns -> Channel]
  BY DEF BaseInv, TypeOK, LoopPC
<1>2. loop[o].pc = "create" /\ loop[o].at \in Consumers
  BY DEF CreateState, BaseInv, LoopsInv, LoopOf, Aiming
<1>3. k \in Conns
  BY <1>2, DeliveryAssumption
<1>4. Created(k) \in Channel
  BY <1>3, CreatedFields
<1>5. chan' = [chan EXCEPT ![k] = Created(k)]
  BY DEF CreateState, Trying
<1>6. loop' = [loop EXCEPT ![o] = l]
  BY <1>1 DEF CreateState, Trying
<1>7. n \in Nat
  BY <1>4 DEF Channel
<1>8. chan' \in [Conns -> Channel]
  BY <1>1, <1>3, <1>4, <1>5
<1> HIDE DEF n, k
<1>9. l \in Loop /\ l.pc = "track" /\ l.epoch = n /\ l.at = loop[o].at /\ l.msg = loop[o].msg
      /\ l.list = loop[o].list /\ l.left = loop[o].left
  BY <1>1, <1>7 DEF Loop
<1> HIDE DEF l
<1>10. LoopMoved(o) /\ loop'[o] = l
  BY <1>1, <1>6, <1>9 DEF LoopMoved
<1> QED
  BY <1>2, <1>3, <1>5, <1>8, <1>9, <1>10 DEF n, k

LEMMA CreatedEvolves ==
    ASSUME BaseInv, NEW k \in Conns, chan' = [chan EXCEPT ![k] = Created(k)],
           UNCHANGED <<current, home>>
    PROVE  \A x \in Conns : ChannelFine(x)
<1>1. chan \in [Conns -> Channel] /\ TypeOK
  BY DEF BaseInv, TypeOK
<1>2. ASSUME NEW x \in Conns, x # k \/ chan[k].open
      PROVE  ChannelFine(x)
  <2>1. chan'[x] = chan[x]
    BY <1>1, <1>2, CreatedFields
  <2> QED
    BY <1>1, <2>1, SameEvolves DEF ChannelFine
<1>3. CASE ~chan[k].open
  <2>1. chan'[k] = Created(k) /\ Created(k).epoch = chan[k].epoch + 1
        /\ Created(k).open /\ Created(k).st.unacked = chan[k].st.unacked
    BY <1>1, <1>3, CreatedFields
  <2>2. Evolves(k)
    BY <1>3, <2>1 DEF Evolves
  <2>3. chan[k].st.unacked = {}
    BY <1>3 DEF BaseInv, RecordsInv, RecordsOf
  <2>4. RecordsOf(k)'
    BY <2>1, <2>3 DEF RecordsOf
  <2>5. ChannelFine(k)
    BY <2>2, <2>4 DEF ChannelFine
  <2> QED
    BY <1>2, <2>5
<1> QED
  BY <1>2, <1>3

LEMMA CreateStateBase ==
    ASSUME BaseInv, NEW o \in Objects, CreateState(o)
    PROVE  BaseInv'
<1>1. UNCHANGED <<current, made, queue, cons, byQueue, handler, cleaner, conn, cancels, told, home, settled>>
  BY DEF CreateState
<1> DEFINE k == ConnOf[loop[o].at]
<1>2. /\ k \in Conns /\ chan' \in [Conns -> Channel] /\ chan' = [chan EXCEPT ![k] = Created(k)]
      /\ LoopMoved(o) /\ loop'[o].pc = "track" /\ loop'[o].epoch = Created(k).epoch
      /\ loop'[o].at = loop[o].at /\ loop'[o].msg = loop[o].msg
      /\ loop'[o].list = loop[o].list /\ loop'[o].left = loop[o].left
      /\ loop[o].pc = "create"
  BY CreateStateFields
<1>3. TypeOK'
  BY <1>1, <1>2 DEF BaseInv, TypeOK, LoopMoved
<1>4. ObjectsInv'
  <2>1. o \in 1..made /\ made \in Nat
    BY <1>2, DeclaredObject
  <2>2. ~(o > made)
    BY <2>1
  <2> QED
    BY <1>1, <1>2, <2>2, ObjectsKept DEF BaseInv, LoopMoved
<1>5. LoopFine(o)
  <2>1. LoopOf(loop[o])'
    BY <1>1, <1>2 DEF BaseInv, LoopsInv, LoopOf, Aiming
  <2>2. DeliveryOf(o)'
    <3>1. chan'[k] = Created(k) /\ Created(k) \in Channel /\ Created(k).open /\ k = ConnOf[loop'[o].at]
      BY <1>2, CreatedFields DEF BaseInv, TypeOK
    <3>2. Created(k).epoch \in Nat
      BY <3>1 DEF Channel
    <3> HIDE DEF k
    <3> QED
      BY <1>2, <3>1, <3>2 DEF DeliveryOf, HoldsState, Trying
  <2>3. LoopHome(o)'
    BY <1>1, <1>2 DEF LoopHome, BaseInv, HomesInv, Idling
  <2> QED
    BY <2>1, <2>2, <2>3 DEF LoopFine
<1>6. \A x \in Conns : ChannelFine(x)
  BY <1>1, <1>2, CreatedEvolves
<1>7. StepFine
  BY <1>1, <1>2, <1>5, <1>6, LoopsSame, ConsumersSame
  DEF StepFine, HandlerFine, CleanerFine, BufferFine
<1> QED
  BY <1>1, <1>3, <1>4, <1>7, ConsumersSame, HomesSame, StepFineBase

LEMMA CreateStateLoss ==
    ASSUME BaseInv, LossInv, NEW o \in Objects, CreateState(o)
    PROVE  LossInv'
<1>1. UNCHANGED <<current, made, queue, cons, byQueue, handler, cleaner, conn, cancels, told, home, settled>>
  BY DEF CreateState
<1> SUFFICES ASSUME NEW m \in Messages, home[m] # 0 /\ home[m] = current
             PROVE  Kept(m)'
  BY <1>1 DEF LossInv
<1> DEFINE k == ConnOf[loop[o].at]
<1>2. /\ k \in Conns /\ chan' = [chan EXCEPT ![k] = Created(k)] /\ chan \in [Conns -> Channel]
      /\ LoopMoved(o) /\ loop'[o].pc = "track" /\ loop'[o].msg = loop[o].msg
  BY CreateStateFields DEF BaseInv, TypeOK
<1> HIDE DEF k
<1>3. \A x \in Conns : chan'[x].st.unacked = chan[x].st.unacked
  BY <1>2, CreatedFields
<1>4. Carried(o, m) => Kept(m)'
  <2>1. Carried(o, m) => Carried(o, m)'
    BY <1>2 DEF Carried, Idling
  <2> QED
    BY <2>1, KeptIn
<1>5. LossFine(m)
  BY <1>1, <1>2, <1>3, <1>4 DEF LossFine, LoopMoved, RecordsStay, Says
<1> QED
  BY <1>5, LossFineKept DEF LossInv

-----------------------------------------------------------------------------
(* TrackDelivery, for a consumer that is still active. *)
LEMMA TrackFailMoves ==
    ASSUME BaseInv, NEW o \in Objects, Track(o), cons[loop[o].at] # "active"
    PROVE  MovesOnly(o)
<1>1. TypeOK /\ LoopOf(loop[o]) /\ "failed" \in LoopPC
  BY DEF BaseInv, LoopsInv, LoopPC
<1>2. Goto(o, "failed") /\ UNCHANGED <<chan, queue>> /\ Rest /\ loop[o].pc = "track"
  BY DEF Track, Trying, Rest
<1>3. LoopMoved(o) /\ loop'[o].pc = "failed" /\ loop'[o].list = loop[o].list /\ loop'[o].at = loop[o].at
      /\ loop'[o].left = loop[o].left /\ loop'[o].msg = loop[o].msg
  BY <1>1, <1>2, GotoFields
<1>4. LoopOf(loop[o])'
  BY <1>1, <1>2, <1>3 DEF LoopOf, Aiming, Rest
<1>5. QuietQueues /\ QuietChannels
  BY <1>1, <1>2 DEF QuietQueues, QuietChannels, TypeOK
<1> QED
  BY <1>2, <1>3, <1>4, <1>5 DEF MovesOnly, Idling

LEMMA NameType == Name \in Queues
BY DeliveryAssumption DEF Name

(* The state of the channel with the delivery of m to c added to it. *)
TrackedState(s, c, m) == IF c \in NoAck THEN TakeTag(s) ELSE TrackConsumer(s, c, Name, m)

LEMMA TrackedStateFields ==
    ASSUME NEW s \in ChannelDeliveryState, NEW c \in Consumers, NEW m \in Messages
    PROVE  LET d == TrackedState(s, c, m)
               n == NewRecord(s.last + 1, c, Name, m)
           IN  /\ d \in ChannelDeliveryState /\ d.last = s.last + 1
               /\ n \in DeliveryRecord /\ n.tag = s.last + 1 /\ n.msg = m /\ ~n.deleted
               /\ d.unacked = IF c \in NoAck THEN s.unacked ELSE s.unacked \cup {n}
<1> DEFINE n == NewRecord(s.last + 1, c, Name, m)
<1>1. s.last + 1 \in Nat
  BY DEF ChannelDeliveryState
<1>2. n \in DeliveryRecord
  BY <1>1, NameType, NewRecordType DEF Consumers
<1>3. n.tag = s.last + 1 /\ n.msg = m /\ ~n.deleted
  BY DEF NewRecord
<1> HIDE DEF n
<1>4. CASE c \in NoAck
  <2>1. TakeTag(s) \in ChannelDeliveryState /\ TakeTag(s).last = s.last + 1 /\ TakeTag(s).unacked = s.unacked
    BY TakeTagType DEF TakeTag, ChannelDeliveryState
  <2>2. TrackedState(s, c, m) = TakeTag(s)
    BY <1>4 DEF TrackedState
  <2> QED
    BY <1>2, <1>3, <1>4, <2>1, <2>2 DEF n
<1>5. CASE c \notin NoAck
  <2> DEFINE d == TrackConsumer(s, c, Name, m)
  <2>1. d \in ChannelDeliveryState
    BY NameType, TrackConsumerType DEF Consumers
  <2>2. d.last = s.last + 1 /\ d.unacked = s.unacked \cup {n}
    BY DEF TrackConsumer, ChannelDeliveryState, n
  <2> HIDE DEF d
  <2>3. TrackedState(s, c, m) = d
    BY <1>5 DEF TrackedState, d
  <2> QED
    BY <1>2, <1>3, <1>5, <2>1, <2>2, <2>3 DEF n
<1> QED
  BY <1>4, <1>5

(* The delivery of m to c on k's channel s. *)
TrackedAs(o, c, k, m, s) ==
    /\ c = loop[o].at /\ k = ConnOf[c] /\ m = loop[o].msg /\ s = chan[k].st
    /\ loop[o].pc = "track" /\ chan[k].open /\ loop[o].epoch = chan[k].epoch
    /\ chan' \in [Conns -> Channel] /\ \A x \in Conns \ {k} : chan'[x] = chan[x]
    /\ chan'[k].open = chan[k].open /\ chan'[k].epoch = chan[k].epoch
    /\ chan'[k].st = TrackedState(s, c, m)
    /\ LoopMoved(o) /\ loop'[o].pc = "send" /\ loop'[o].tag = s.last + 1
    /\ loop'[o].epoch = loop[o].epoch /\ loop'[o].at = c /\ loop'[o].msg = m
    /\ loop'[o].list = loop[o].list /\ loop'[o].left = loop[o].left

LEMMA TrackFields ==
    ASSUME BaseInv, NEW o \in Objects, Track(o), cons[loop[o].at] = "active"
    PROVE  \E c \in Consumers, k \in Conns, m \in Messages, s \in ChannelDeliveryState :
              TrackedAs(o, c, k, m, s)
<1>1. loop \in [Objects -> Loop] /\ loop[o] \in Loop /\ "send" \in LoopPC /\ chan \in [Conns -> Channel]
  BY DEF BaseInv, TypeOK, LoopPC
<1>2. loop[o].pc = "track" /\ loop[o].at \in Consumers /\ loop[o].msg \in Messages
  BY <1>1 DEF Track, BaseInv, LoopsInv, LoopOf, Aiming, Loop
<1>3. PICK c \in Consumers, m \in Messages : c = loop[o].at /\ m = loop[o].msg
  BY <1>2
<1>4. PICK k \in Conns : k = ConnOf[c]
  BY DeliveryAssumption
<1>5. PICK s \in ChannelDeliveryState : s = chan[k].st /\ chan[k] \in Channel
  BY <1>1 DEF Channel
<1>6. HoldsState(o)
  BY <1>2, <1>3 DEF BaseInv, DeliveriesInv, DeliveryOf
<1>7. chan[k].open /\ chan[k].epoch = loop[o].epoch
  BY <1>3, <1>4, <1>6 DEF HoldsState, Trying
<1> DEFINE d == TrackedState(s, c, m)
           n == s.last + 1
           l == [loop[o] EXCEPT !.pc = "send", !.tag = n]
           e == [chan[k] EXCEPT !.st = d]
<1>8. chan' = [chan EXCEPT ![k] = e]
  BY <1>1, <1>3, <1>4, <1>5, <1>6 DEF Track, Trying, TrackedState
<1>9. loop' = [loop EXCEPT ![o] = l]
  BY <1>1, <1>3, <1>4, <1>5 DEF Track, Trying
<1>10. d \in ChannelDeliveryState
  BY TrackedStateFields
<1>11. n \in Nat
  BY DEF ChannelDeliveryState
<1>12. n = s.last + 1 /\ d = TrackedState(s, c, m)
  OBVIOUS
<1> HIDE DEF n, d
<1>13. e \in Channel /\ e.st = d /\ e.open = chan[k].open /\ e.epoch = chan[k].epoch
  BY <1>5, <1>10 DEF Channel
<1>14. l \in Loop /\ l.pc = "send" /\ l.tag = n /\ l.epoch = loop[o].epoch /\ l.at = loop[o].at
       /\ l.msg = loop[o].msg /\ l.list = loop[o].list /\ l.left = loop[o].left
  BY <1>1, <1>11 DEF Loop
<1> HIDE DEF l, e
<1>15. LoopMoved(o) /\ loop'[o] = l
  BY <1>1, <1>9, <1>14 DEF LoopMoved
<1>16. chan' \in [Conns -> Channel] /\ chan'[k] = e /\ \A x \in Conns \ {k} : chan'[x] = chan[x]
  BY <1>1, <1>8, <1>13
<1>17. TrackedAs(o, c, k, m, s)
  BY <1>2, <1>3, <1>4, <1>5, <1>7, <1>12, <1>13, <1>14, <1>15, <1>16 DEF TrackedAs
<1> QED
  BY <1>17

LEMMA TrackBase ==
    ASSUME BaseInv, NEW o \in Objects, Track(o), cons[loop[o].at] = "active"
    PROVE  BaseInv'
<1>1. UNCHANGED <<current, made, queue, cons, byQueue, handler, cleaner, conn, cancels, told, home, settled>>
  BY DEF Track
<1>2. PICK c \in Consumers, k \in Conns, m \in Messages, s \in ChannelDeliveryState :
        TrackedAs(o, c, k, m, s)
  BY TrackFields
<1> DEFINE d == TrackedState(s, c, m)
           n == NewRecord(s.last + 1, c, Name, m)
<1>3. /\ d.last = s.last + 1 /\ s.last \in Nat
      /\ n.tag = s.last + 1 /\ n.msg = m /\ ~n.deleted
      /\ d.unacked \subseteq s.unacked \cup {n}
  <2>1. s.last \in Nat
    BY DEF ChannelDeliveryState
  <2>2. d.unacked = IF c \in NoAck THEN s.unacked ELSE s.unacked \cup {n}
    BY TrackedStateFields
  <2> QED
    BY <2>1, <2>2, TrackedStateFields
<1>4. chan'[k].st = d /\ s = chan[k].st
  BY <1>2 DEF TrackedAs
<1> HIDE DEF d, n
<1>5. home[m] # 0 /\ LoopHome(o)' /\ LoopOf(loop[o])'
  BY <1>1, <1>2 DEF TrackedAs, BaseInv, HomesInv, LoopHome, Idling, LoopsInv, LoopOf, Aiming
<1>6. \A r \in s.unacked :
        r.tag <= s.last /\ r.tag \in Nat /\ home[r.msg] # 0 /\ (r.deleted => home[r.msg] # current)
  BY <1>4 DEF BaseInv, RecordsInv, RecordsOf, ChannelDeliveryState, DeliveryRecord
<1>7. TypeOK'
  BY <1>1, <1>2 DEF BaseInv, TypeOK, LoopMoved, TrackedAs
<1>8. ObjectsInv'
  <2>1. o \in 1..made /\ made \in Nat
    BY <1>2, DeclaredObject DEF TrackedAs
  <2>2. ~(o > made)
    BY <2>1
  <2> QED
    BY <1>1, <1>2, <2>2, ObjectsKept DEF BaseInv, LoopMoved, TrackedAs
<1>9. LoopFine(o)
  <2>1. OwnTag(o)'
    <3>1. loop'[o].tag <= d.last
      BY <1>2, <1>3 DEF TrackedAs
    <3>2. \A r \in d.unacked : r.tag = loop'[o].tag => r.msg = loop'[o].msg
      <4>1. loop'[o].tag = s.last + 1 /\ loop'[o].msg = m
        BY <1>2 DEF TrackedAs
      <4>2. \A r \in s.unacked : r.tag # s.last + 1
        BY <1>3, <1>6
      <4> QED
        BY <1>3, <4>1, <4>2
    <3>3. k = ConnOf[loop'[o].at]
      BY <1>2 DEF TrackedAs
    <3> QED
      BY <1>4, <3>1, <3>2, <3>3 DEF OwnTag
  <2>2. chan[k].epoch \in Nat
    BY DEF BaseInv, TypeOK, Channel
  <2>3. DeliveryOf(o)'
    BY <1>2, <2>1, <2>2 DEF DeliveryOf, TrackedAs
  <2> QED
    BY <1>5, <2>3 DEF LoopFine
<1>10. ChannelFine(k)
  <2>1. Follows(chan[k].st, chan'[k].st)
    BY <1>3, <1>4, <1>6 DEF Follows
  <2>2. Evolves(k)
    BY <1>2, <2>1 DEF Evolves, SameState, TrackedAs
  <2>3. \A r \in d.unacked : r.tag <= d.last /\ home[r.msg] # 0 /\ (r.deleted => home[r.msg] # current)
    BY <1>3, <1>5, <1>6
  <2>4. chan'[k].open /\ home' = home /\ current' = current
    BY <1>1, <1>2 DEF TrackedAs
  <2>5. RecordsOf(k)'
    BY <1>4, <2>3, <2>4 DEF RecordsOf
  <2> QED
    BY <2>2, <2>5 DEF ChannelFine
<1>11. \A x \in Conns : ChannelFine(x)
  <2>1. ASSUME NEW x \in Conns \ {k} PROVE ChannelFine(x)
    BY <1>1, <1>2, SameEvolves DEF ChannelFine, BaseInv, TrackedAs
  <2> QED
    BY <1>10, <2>1
<1>12. StepFine
  BY <1>1, <1>2, <1>9, <1>11, LoopsSame, ConsumersSame
  DEF StepFine, HandlerFine, CleanerFine, BufferFine, TrackedAs
<1> QED
  BY <1>1, <1>7, <1>8, <1>12, ConsumersSame, HomesSame, StepFineBase

LEMMA TrackLoss ==
    ASSUME BaseInv, LossInv, NEW o \in Objects, Track(o), cons[loop[o].at] = "active"
    PROVE  LossInv'
<1>1. UNCHANGED <<current, made, queue, cons, byQueue, handler, cleaner, conn, cancels, told, home, settled>>
  BY DEF Track
<1> SUFFICES ASSUME NEW m \in Messages, home[m] # 0 /\ home[m] = current
             PROVE  Kept(m)'
  BY <1>1 DEF LossInv
<1>2. PICK c \in Consumers, k \in Conns, g \in Messages, s \in ChannelDeliveryState :
        TrackedAs(o, c, k, g, s)
  BY TrackFields
<1> DEFINE d == TrackedState(s, c, g)
           n == NewRecord(s.last + 1, c, Name, g)
<1>3. (d.unacked = IF c \in NoAck THEN s.unacked ELSE s.unacked \cup {n}) /\ n.msg = g
  BY TrackedStateFields
<1>4. chan'[k].st = d /\ s = chan[k].st
  BY <1>2 DEF TrackedAs
<1> HIDE DEF d, n
<1>5. \A x \in Conns : RecordsStay(x)
  BY <1>1, <1>2, <1>3, <1>4 DEF RecordsStay, Says, TrackedAs
<1>6. Carried(o, m) => Kept(m)'
  <2> SUFFICES ASSUME g = m PROVE Kept(m)'
    BY <1>2 DEF Carried, TrackedAs
  <2>1. CASE c \in NoAck \/ conn[k] = "gone"
    <3>1. Carried(o, m)'
      BY <1>1, <1>2, <2>1 DEF Carried, Idling, TrackedAs
    <3> QED
      BY <3>1, KeptIn
  <2>2. CASE c \notin NoAck /\ conn[k] # "gone"
    <3>1. n \in chan'[k].st.unacked /\ n.msg = m
      BY <1>3, <1>4, <2>2
    <3>2. Tracked(k, m)'
      BY <1>1, <2>2, <3>1 DEF Tracked
    <3> QED
      BY <3>2, KeptIn
  <2> QED
    BY <2>1, <2>2
<1>7. LossFine(m)
  BY <1>1, <1>2, <1>5, <1>6 DEF LossFine, LoopMoved, TrackedAs
<1> QED
  BY <1>7, LossFineKept DEF LossInv

-----------------------------------------------------------------------------
(* The frame write and what follows a failed one. *)
LEMMA SendBase ==
    ASSUME BaseInv, NEW o \in Objects, Send(o)
    PROVE  BaseInv'
<1>1. UNCHANGED <<current, made, queue, cons, byQueue, chan, handler, cleaner, conn, cancels, told, home>>
  BY DEF Send
<1>2. PICK pc \in {"top", "failed", "untrack"} :
        Goto(o, pc) /\ (pc = "untrack" => loop[o].at \notin NoAck)
  BY DEF Send, Trying
<1>3. TypeOK /\ LoopOf(loop[o]) /\ pc \in LoopPC /\ loop[o].pc = "send" /\ loop[o].msg \in Messages
  BY DEF BaseInv, LoopsInv, LoopPC, Send, TypeOK, Loop
<1>4. LoopMoved(o) /\ loop'[o].pc = pc /\ loop'[o].list = loop[o].list /\ loop'[o].at = loop[o].at
      /\ loop'[o].left = loop[o].left /\ loop'[o].msg = loop[o].msg
      /\ loop'[o].tag = loop[o].tag /\ loop'[o].epoch = loop[o].epoch
  BY <1>2, <1>3, GotoFields
<1>5. settled' \subseteq Messages
  BY <1>3 DEF Send, TypeOK
<1>6. TypeOK'
  BY <1>1, <1>4, <1>5 DEF BaseInv, TypeOK, LoopMoved
<1>7. ObjectsInv'
  <2>1. o \in 1..made /\ made \in Nat
    BY <1>3, DeclaredObject
  <2>2. ~(o > made)
    BY <2>1
  <2> QED
    BY <1>1, <1>4, <2>2, ObjectsKept DEF BaseInv, LoopMoved
<1>8. LoopFine(o)
  <2>1. LoopOf(loop[o])'
    BY <1>1, <1>2, <1>3, <1>4 DEF LoopOf, Aiming
  <2>2. DeliveryOf(o)'
    <3>1. DeliveryOf(o)
      BY DEF BaseInv, DeliveriesInv
    <3> QED
      BY <1>1, <1>3, <1>4, <3>1 DEF DeliveryOf, HoldsState, Trying, OwnTag
  <2>3. LoopHome(o)'
    BY <1>1, <1>3, <1>4 DEF LoopHome, BaseInv, HomesInv, Idling
  <2> QED
    BY <2>1, <2>2, <2>3 DEF LoopFine
<1>9. StepFine
  BY <1>1, <1>4, <1>8, LoopsSame, ChannelsSame, ConsumersSame
  DEF StepFine, HandlerFine, CleanerFine, BufferFine
<1> QED
  BY <1>1, <1>6, <1>7, <1>9, ConsumersSame, HomesSame, StepFineBase

LEMMA SendLoss ==
    ASSUME BaseInv, LossInv, NEW o \in Objects, Send(o)
    PROVE  LossInv'
<1>1. UNCHANGED <<current, made, queue, cons, byQueue, chan, handler, cleaner, conn, cancels, told, home>>
      /\ settled \subseteq settled'
  BY DEF Send
<1> SUFFICES ASSUME NEW m \in Messages, home[m] # 0 /\ home[m] = current
             PROVE  Kept(m)'
  BY <1>1 DEF LossInv
<1>2. PICK pc \in {"top", "failed", "untrack"} : Goto(o, pc)
  BY DEF Send
<1>3. TypeOK /\ pc \in LoopPC
  BY DEF BaseInv, LoopPC
<1>4. LoopMoved(o) /\ loop'[o].pc = pc /\ loop'[o].at = loop[o].at /\ loop'[o].msg = loop[o].msg
  BY <1>2, <1>3, GotoFields
<1>5. Carried(o, m) => Kept(m)'
  <2> SUFFICES ASSUME Carried(o, m) PROVE Kept(m)'
    OBVIOUS
  <2>1. CASE pc = "top"
    <3>1. conn[ConnOf[loop[o].at]] # "gone"
      BY <1>2, <1>4, <2>1, GotoFields, <1>3 DEF Send, Trying, LoopPC
    <3>2. loop[o].at \in NoAck /\ loop[o].msg = m
      BY <3>1 DEF Carried, Send
    <3>3. m \in settled'
      BY <1>3, <1>4, <2>1, <3>2, GotoFields DEF Send, Trying, LoopPC
    <3> QED
      BY <3>3, KeptIn
  <2>2. CASE pc # "top"
    <3>1. Carried(o, m)'
      BY <1>4, <2>2 DEF Carried, Idling
    <3> QED
      BY <3>1, KeptIn
  <2> QED
    BY <2>1, <2>2
<1>6. LossFine(m)
  BY <1>1, <1>4, <1>5 DEF LossFine, LoopMoved, RecordsStay, Says
<1> QED
  BY <1>6, LossFineKept DEF LossInv

(* The record of a failed write is removed: it says the message in hand. *)
LEMMA UntrackBase ==
    ASSUME BaseInv, NEW o \in Objects, Untrack(o)
    PROVE  BaseInv' /\ (LossInv => LossInv')
<1>1. UNCHANGED <<current, made, queue, cons, byQueue, handler, cleaner, conn, cancels, told, home, settled>>
  BY DEF Untrack
<1>2. TypeOK /\ LoopOf(loop[o]) /\ "failed" \in LoopPC /\ loop[o].pc = "untrack" /\ chan \in [Conns -> Channel]
  BY DEF BaseInv, LoopsInv, LoopPC, Untrack, TypeOK
<1>3. LoopMoved(o) /\ loop'[o].pc = "failed" /\ loop'[o].list = loop[o].list /\ loop'[o].at = loop[o].at
      /\ loop'[o].left = loop[o].left /\ loop'[o].msg = loop[o].msg
  BY <1>2, GotoFields DEF Untrack
<1>4. loop[o].at \in Consumers /\ loop[o].at \notin NoAck
  BY <1>2 DEF LoopOf, Aiming
<1>5. PICK k \in Conns : k = ConnOf[loop[o].at]
  BY <1>4, DeliveryAssumption
<1>6. /\ chan' \in [Conns -> Channel] /\ \A x \in Conns \ {k} : chan'[x] = chan[x]
      /\ Derived(k)
      /\ \A r \in chan[k].st.unacked : r \in chan'[k].st.unacked \/ r.msg = loop[o].msg
  <2>1. CASE ~HoldsState(o)
    <3>1. chan' = chan
      BY <2>1 DEF Untrack
    <3> QED
      BY <1>2, <3>1, SameEvolves
  <2>2. CASE HoldsState(o)
    <3>1. OwnTag(o)
      BY <1>2, <1>4, <2>2 DEF BaseInv, DeliveriesInv, DeliveryOf
    <3>2. \A r \in chan[k].st.unacked : r.tag = loop[o].tag => r.msg = loop[o].msg
      BY <1>5, <3>1 DEF OwnTag
    <3>3. PICK s \in ChannelDeliveryState : s = chan[k].st /\ chan[k] \in Channel
      BY <1>2 DEF Channel
    <3> DEFINE T == {loop[o].tag}
               d == DeleteUnacked(s, T)
               e == [chan[k] EXCEPT !.st = d]
    <3>4. d \in ChannelDeliveryState /\ d.last = s.last /\ d.unacked = {r \in s.unacked : r.tag \notin T}
      BY DeleteUnackedType, DeleteUnackedFields
    <3>5. chan' = [chan EXCEPT ![k] = e]
      BY <1>2, <1>5, <2>2, <3>3 DEF Untrack, Trying
    <3> HIDE DEF d
    <3>6. e \in Channel /\ e.open = chan[k].open /\ e.epoch = chan[k].epoch /\ e.st = d
      BY <3>3, <3>4 DEF Channel
    <3> HIDE DEF e
    <3>7. chan' \in [Conns -> Channel] /\ chan'[k] = e /\ \A x \in Conns \ {k} : chan'[x] = chan[x]
      BY <1>2, <3>5, <3>6
    <3>8. Derived(k)
      BY <3>3, <3>4, <3>6, <3>7 DEF Derived, SameState, Derives
    <3>9. \A r \in chan[k].st.unacked : r \in chan'[k].st.unacked \/ r.msg = loop[o].msg
      BY <3>2, <3>3, <3>4, <3>6, <3>7
    <3> QED
      BY <3>7, <3>8, <3>9
  <2> QED
    BY <2>1, <2>2
<1>7. BaseInv'
  <2>1. TypeOK'
    BY <1>1, <1>3, <1>6 DEF BaseInv, TypeOK, LoopMoved
  <2>2. ObjectsInv'
    <3>1. o \in 1..made /\ made \in Nat
      BY <1>2, DeclaredObject
    <3>2. ~(o > made)
      BY <3>1
    <3> QED
      BY <1>1, <1>3, <3>2, ObjectsKept DEF BaseInv, LoopMoved
  <2>3. LoopFine(o)
    <3>1. LoopOf(loop[o])'
      BY <1>1, <1>2, <1>3 DEF LoopOf, Aiming
    <3>2. DeliveryOf(o)'
      BY <1>3 DEF DeliveryOf
    <3>3. LoopHome(o)'
      BY <1>1, <1>2, <1>3 DEF LoopHome, BaseInv, HomesInv, Idling
    <3> QED
      BY <3>1, <3>2, <3>3 DEF LoopFine
  <2>4. \A x \in Conns : ChannelFine(x)
    <3>1. ASSUME NEW x \in Conns PROVE Derived(x)
      BY <1>2, <1>6, SameEvolves
    <3> QED
      BY <1>1, <1>2, <3>1, DerivedEvolves DEF ChannelFine
  <2>5. StepFine
    BY <1>1, <1>3, <2>3, <2>4, LoopsSame, ConsumersSame
    DEF StepFine, HandlerFine, CleanerFine, BufferFine
  <2> QED
    BY <1>1, <2>1, <2>2, <2>5, ConsumersSame, HomesSame, StepFineBase
<1>8. ASSUME LossInv PROVE LossInv'
  <2> SUFFICES ASSUME NEW m \in Messages, home[m] # 0 /\ home[m] = current
               PROVE  Kept(m)'
    BY <1>1 DEF LossInv
  <2>1. Kept(m)
    BY <1>8 DEF LossInv
  <2>2. loop[o].msg = m => Kept(m)'
    <3>1. loop[o].msg = m => Carried(o, m)'
      BY <1>3 DEF Carried, Idling
    <3> QED
      BY <3>1, KeptIn
  <2>3. ASSUME NEW x \in Conns PROVE RecordsStay(x) \/ (Tracked(x, m) => Kept(m)')
    <3>1. CASE x # k
      BY <1>1, <1>6, <3>1 DEF RecordsStay, Says
    <3>2. CASE x = k
      <4> SUFFICES ASSUME Tracked(k, m) PROVE Kept(m)'
        BY <3>2
      <4>1. PICK r \in chan[k].st.unacked : r.msg = m /\ conn[k] # "gone"
        BY DEF Tracked
      <4>2. CASE r \in chan'[k].st.unacked
        <5>1. Tracked(k, m)'
          BY <1>1, <4>1, <4>2 DEF Tracked
        <5> QED
          BY <5>1, KeptIn
      <4> QED
        BY <1>6, <2>2, <4>1, <4>2
    <3> QED
      BY <3>1, <3>2
  <2>4. LossFine(m)
    BY <1>1, <1>3, <2>2, <2>3 DEF LossFine, LoopMoved, Carried
  <2> QED
    BY <2>1, <2>4, LossFineKept
<1> QED
  BY <1>7, <1>8

(* removeFailedConsumer *)
LEMMA RemoveFailedFields ==
    ASSUME BaseInv, NEW o \in Objects, RemoveFailedConsumer(o)
    PROVE  \E C \in SUBSET Consumers :
              (\A c \in C : cons[c] = "active") /\ CancelLocked(C) /\ chan' = Detached(C)
<1>1. loop[o].at \in Consumers
  BY DEF RemoveFailedConsumer, BaseInv, LoopsInv, LoopOf, Aiming
<1> DEFINE C == IF current = o /\ cons[Trying(o)] = "active" THEN {Trying(o)} ELSE {}
<1>2. C \in SUBSET Consumers /\ \A c \in C : cons[c] = "active"
  BY <1>1 DEF Trying
<1>3. CancelLocked(C) /\ chan' = Detached(C)
  BY DEF RemoveFailedConsumer
<1> HIDE DEF C
<1> QED
  BY <1>2, <1>3

LEMMA RemoveFailedBase ==
    ASSUME BaseInv, NEW o \in Objects, RemoveFailedConsumer(o)
    PROVE  BaseInv' /\ (LossInv => LossInv')
<1>1. UNCHANGED <<current, made, handler, cleaner, conn, cancels, told, home, settled>>
  BY DEF RemoveFailedConsumer
<1>2. TypeOK /\ LoopOf(loop[o]) /\ "refresh" \in LoopPC /\ loop[o].pc = "remove" /\ loop[o] \in Loop
  BY DEF BaseInv, LoopsInv, LoopPC, RemoveFailedConsumer, TypeOK
<1>3. LoopMoved(o) /\ loop'[o].pc = "refresh" /\ loop'[o].list = loop[o].list /\ loop'[o].at = loop[o].at
      /\ loop'[o].left = loop[o].left /\ loop'[o].msg = loop[o].msg
  BY <1>2, GotoFields DEF RemoveFailedConsumer
<1>4. PICK C \in SUBSET Consumers :
        (\A c \in C : cons[c] = "active") /\ CancelLocked(C) /\ chan' = Detached(C)
  BY RemoveFailedFields
<1>5. /\ cons' \in [Consumers -> {"new", "active", "removed"}] /\ byQueue' \in ConsumerList
      /\ QuietQueues /\ ConsumersOnlyGo
      /\ \A c \in Consumers : cons'[c] = IF c \in C THEN "removed" ELSE cons[c]
      /\ \A k \in Conns : NobodyNew(k)
      /\ \A c \in Consumers : byQueue'[c] > 0 <=> cons'[c] = "active"
  BY <1>4, CancelFields
<1>6. /\ chan' \in [Conns -> Channel]
      /\ \A k \in Conns : Derived(k) /\ Evolves(k)
      /\ \A k \in Conns : \A r \in chan[k].st.unacked : Says(chan'[k].st.unacked, r.msg)
  BY <1>2, <1>4, DetachedFine
<1>7. BaseInv'
  <2>1. TypeOK'
    BY <1>1, <1>3, <1>5, <1>6 DEF BaseInv, TypeOK, LoopMoved, QuietQueues
  <2>2. ObjectsInv'
    <3>1. o \in 1..made /\ made \in Nat
      BY <1>2, DeclaredObject
    <3>2. ~(o > made)
      BY <3>1
    <3> QED
      BY <1>1, <1>3, <1>5, <3>2, ObjectsKept DEF BaseInv, LoopMoved, QuietQueues
  <2>3. ConsumersInv'
    BY <1>1, <1>5 DEF BaseInv, ConsumersInv, TypeOK
  <2>4. LoopFine(o)
    <3>1. Members(loop[o].list) \cup loop[o].left \subseteq Consumers
      BY <1>2 DEF Members, Loop
    <3>2. LoopOf(loop[o])'
      BY <1>2, <1>3, <1>5, <3>1 DEF LoopOf, Aiming
    <3>3. DeliveryOf(o)'
      BY <1>3 DEF DeliveryOf
    <3>4. LoopHome(o)'
      BY <1>1, <1>2, <1>3 DEF LoopHome, BaseInv, HomesInv, Idling
    <3> QED
      BY <3>2, <3>3, <3>4 DEF LoopFine
  <2>5. StepFine
    BY <1>1, <1>3, <1>5, <1>6, <2>4, LoopsSame
    DEF StepFine, HandlerFine, CleanerFine, BufferFine, ChannelFine, QuietQueues
  <2> QED
    BY <1>1, <1>5, <2>1, <2>2, <2>3, <2>5, HomesSame, StepFineBase
<1>8. ASSUME LossInv PROVE LossInv'
  <2> SUFFICES ASSUME NEW m \in Messages, home[m] # 0 /\ home[m] = current
               PROVE  Kept(m)'
    BY <1>1 DEF LossInv
  <2>1. Kept(m)
    BY <1>8 DEF LossInv
  <2>2. Carried(o, m) => Kept(m)'
    <3>1. loop[o].msg = m => Carried(o, m)'
      BY <1>3 DEF Carried, Idling
    <3> QED
      BY <3>1, KeptIn DEF Carried
  <2>3. LossFine(m)
    BY <1>1, <1>3, <1>5, <1>6, <2>2 DEF LossFine, LoopMoved, RecordsStay, QuietQueues
  <2> QED
    BY <2>1, <2>3, LossFineKept
<1> QED
  BY <1>7, <1>8

-----------------------------------------------------------------------------
(* The goroutine of a connection. *)
LEMMA HandlersFine ==
    ASSUME BaseInv, NEW k \in Conns, HandlerMoved(k), HandlerFine(k),
           \A x \in Conns \ {k} : NobodyNew(x)
    PROVE  \A x \in Conns : HandlerFine(x)
BY DEF HandlerMoved, HandlerFine

LEMMA ReadyFine ==
    ASSUME NEW k \in Conns, handler'[k].pc = "ready", handler'[k].todo = {}
    PROVE  HandlerFine(k)
BY DEF HandlerFine, HandlerOf, HandlerHomes

LEMMA BeginReady ==
    ASSUME BaseInv, NEW k \in Conns, NEW op, Begin(k, op, handler[k])
    PROVE  /\ HandlerMoved(k) /\ op \in Ops[k] /\ HandlerFine(k)
           /\ \A x \in Conns : handler'[x].todo = handler[x].todo
<1>1. TypeOK /\ handler[k] \in Handler /\ HandlerOf(k)
  BY DEF BaseInv, TypeOK, HandlersInv
<1>2. /\ HandlerMoved(k) /\ op \in Ops[k] /\ handler[k].pc = "ready"
      /\ handler'[k].pc = handler[k].pc /\ handler'[k].todo = handler[k].todo
  BY <1>1, BeginFields
<1>3. handler[k].todo = {}
  BY <1>1, <1>2 DEF HandlerOf
<1> QED
  BY <1>2, <1>3, ReadyFine DEF HandlerMoved

(* A handler that goes on with the same method and what is left of todo. *)
LEMMA HandlerShrinks ==
    ASSUME BaseInv, NEW k \in Conns, UNCHANGED <<home, made>>, NobodyNew(k),
           handler'[k].pc = handler[k].pc, handler'[k].obj = handler[k].obj,
           handler'[k].todo \subseteq handler[k].todo,
           handler[k].pc = "got" => handler'[k].todo = handler[k].todo
    PROVE  HandlerFine(k)
<1>1. HandlerOf(k) /\ HandlerHomes(k)
  BY DEF BaseInv, HandlersInv, HomesInv
<1>2. HandlerOf(k)'
  BY <1>1 DEF HandlerOf, NobodyNew
<1>3. HandlerHomes(k)'
  BY <1>1 DEF HandlerHomes
<1> QED
  BY <1>2, <1>3 DEF HandlerFine

(* Any update of the fields of one handler. *)
LEMMA HandlerSet ==
    ASSUME TypeOK, NEW k \in Conns, NEW h \in Handler, handler' = [handler EXCEPT ![k] = h]
    PROVE  HandlerMoved(k) /\ handler'[k] = h
BY DEF TypeOK, HandlerMoved

LEMMA QuietOne ==
    ASSUME TypeOK, NEW o \in Objects, NEW q \in Queue, queue' = [queue EXCEPT ![o] = q],
           q.buf = queue[o].buf, q.stopped = queue[o].stopped, q.done = queue[o].done
    PROVE  QuietQueues
<1>1. queue \in [Objects -> Queue]
  BY DEF TypeOK
<1>2. queue' \in [Objects -> Queue] /\ queue'[o] = q /\ \A x \in Objects : x # o => queue'[x] = queue[x]
  BY <1>1
<1> QED
  BY <1>2 DEF QuietQueues

(* A step that moves no loop and puts no new message into a buffer. *)
LEMMA ObjectsQuiet ==
    ASSUME BaseInv, UNCHANGED <<current, made, loop>>, QuietQueues
    PROVE  /\ ObjectsInv'
           /\ \A o \in Objects : LoopFine(o) /\ BufferFine(o)
                                 /\ Range(queue[o].buf) \subseteq Range(queue'[o].buf)
<1>1. ObjectsInv'
  BY ObjectsKept DEF BaseInv, QuietQueues
<1> QED
  BY <1>1 DEF LoopFine, BufferFine, QuietQueues

(* A push to a queue object that was declared. *)
LEMMA PushFine ==
    ASSUME BaseInv, UNCHANGED <<current, made, home, loop>>, NEW o \in 1..made, NEW m \in Messages,
           home[m] \in 1..o, queue' = Pushed(o, m)
    PROVE  /\ queue' \in [Objects -> Queue] /\ ObjectsInv'
           /\ \A x \in Objects : LoopFine(x) /\ BufferFine(x)
                                 /\ Range(queue[x].buf) \subseteq Range(queue'[x].buf)
           /\ home[m] = current => Kept(m)'
<1>1. TypeOK /\ made \in Nat /\ made <= MaxQueues /\ MaxQueues \in Nat
  BY DeclaredObject, DeliveryAssumption DEF BaseInv, TypeOK, Objects
<1>2. o \in Objects /\ ~(o > made)
  BY <1>1 DEF Objects
<1>3. /\ queue' \in [Objects -> Queue]
      /\ \A x \in Objects : /\ queue'[x].stopped = queue[x].stopped
                            /\ x # o => queue'[x].buf = queue[x].buf
      /\ Range(queue'[o].buf) \subseteq Range(queue[o].buf) \cup {m}
      /\ Range(queue[o].buf) \subseteq Range(queue'[o].buf)
      /\ ~queue[o].stopped => m \in Range(queue'[o].buf)
  BY <1>1, <1>2, PushedFields
<1>4. ObjectsInv'
  BY <1>2, <1>3, ObjectsKept DEF BaseInv
<1>5. \A x \in Objects : LoopFine(x) /\ Range(queue[x].buf) \subseteq Range(queue'[x].buf)
  BY <1>3 DEF LoopFine
<1>6. \A x \in Objects : BufferFine(x)
  BY <1>3 DEF BufferFine, BufferHomes, BaseInv, HomesInv
<1>7. ASSUME home[m] = current PROVE Kept(m)'
  <2>1. current # 0 /\ current <= o
    BY <1>7
  <2>2. ~queue[o].stopped
    BY <2>1, CurrentObject
  <2> QED
    BY <1>2, <1>3, <2>2, KeptIn
<1> QED
  BY <1>3, <1>4, <1>5, <1>6, <1>7

LEMMA PublishStep ==
    ASSUME BaseInv, NEW k \in Conns, NEW g \in Messages, Publish(k, g)
    PROVE  BaseInv' /\ (LossInv => LossInv')
<1>1. UNCHANGED <<current, made, loop, cons, byQueue, chan, cleaner, conn, cancels, told, settled>>
  BY DEF Publish
<1>2. HandlerMoved(k) /\ HandlerFine(k) /\ \A x \in Conns : handler'[x].todo = handler[x].todo
  BY BeginReady DEF Publish
<1>3. TypeOK /\ made \in Nat /\ current \in 1..made /\ current \in Objects /\ current = made
  BY DeclaredObject DEF BaseInv, ObjectsInv, Publish
<1>4. /\ queue' \in [Objects -> Queue]
      /\ \A x \in Objects : /\ queue'[x].stopped = queue[x].stopped
                            /\ x # current => queue'[x].buf = queue[x].buf
      /\ Range(queue'[current].buf) \subseteq Range(queue[current].buf) \cup {g}
      /\ Range(queue[current].buf) \subseteq Range(queue'[current].buf)
      /\ ~queue[current].stopped => g \in Range(queue'[current].buf)
  BY <1>3, PushedFields DEF Publish
<1>5. /\ home \in [Messages -> {0} \cup Objects] /\ home' = [home EXCEPT ![g] = current] /\ home[g] = 0
      /\ home' \in [Messages -> {0} \cup Objects]
  BY <1>3 DEF Publish, TypeOK
<1>6. HomesStay
  BY <1>1, <1>3, <1>5 DEF HomesStay, BaseInv, HomesInv
<1>7. BaseInv'
  <2>1. TypeOK'
    BY <1>1, <1>2, <1>4, <1>5 DEF BaseInv, TypeOK, HandlerMoved
  <2>2. ObjectsInv'
    <3>1. \A x \in Objects : x > made => x # current
      BY <1>3
    <3> QED
      BY <1>1, <1>4, <3>1, ObjectsKept DEF BaseInv
  <2>3. BufferHomes(current)'
    <3>1. \A m \in Range(queue[current].buf) : m \in Messages /\ home[m] \in 1..current
      BY <1>3, RangeType DEF BaseInv, HomesInv, BufferHomes, TypeOK, Queue
    <3>2. \A m \in Range(queue[current].buf) : home'[m] \in 1..current
      BY <1>6, <3>1 DEF HomesStay
    <3>3. home'[g] \in 1..current
      BY <1>3, <1>5
    <3> QED
      BY <1>1, <1>4, <3>2, <3>3 DEF BufferHomes
  <2>4. \A x \in Objects : BufferFine(x) /\ LoopFine(x)
    BY <1>1, <1>4, <2>3 DEF BufferFine, LoopFine
  <2>5. StepFine
    BY <1>1, <1>2, <2>4, ChannelsSame, ConsumersSame, HandlersFine DEF StepFine, CleanerFine
  <2> QED
    BY <1>1, <1>3, <1>6, <2>1, <2>2, <2>5, ConsumersSame, StepFineBase
<1>8. ASSUME LossInv PROVE LossInv'
  <2> SUFFICES ASSUME NEW m \in Messages, home'[m] # 0 /\ home'[m] = current
               PROVE  Kept(m)'
    BY <1>1 DEF LossInv
  <2>1. CASE m = g
    <3>1. ~queue[current].stopped
      BY <1>3 DEF BaseInv, ObjectsInv
    <3> QED
      BY <1>3, <1>4, <2>1, <3>1, KeptIn
  <2>2. CASE m # g
    <3>1. Kept(m)
      BY <1>5, <1>8, <2>2 DEF LossInv
    <3>2. LossFine(m)
      BY <1>1, <1>2, <1>4 DEF LossFine, RecordsStay, Says
    <3> QED
      BY <3>1, <3>2, LossFineKept
  <2> QED
    BY <2>1, <2>2
<1> QED
  BY <1>7, <1>8

LEMMA DeclareStep ==
    ASSUME BaseInv, NEW k \in Conns, Declare(k)
    PROVE  BaseInv' /\ (LossInv => LossInv')
<1>1. UNCHANGED <<queue, loop, cons, byQueue, chan, cleaner, conn, cancels, told, home, settled>>
  BY DEF Declare
<1>2. HandlerMoved(k) /\ HandlerFine(k)
  BY BeginReady DEF Declare
<1>3. /\ made \in Nat /\ made < MaxQueues /\ MaxQueues \in Nat /\ current = 0
      /\ made' = made + 1 /\ current' = made + 1
  BY DeclaredObject, DeliveryAssumption DEF Declare
<1>4. \A m \in Messages : home[m] <= made /\ home[m] \in Nat
  BY <1>3 DEF BaseInv, HomesInv, TypeOK, Objects
<1>5. HomesStay
  BY <1>1, <1>3, <1>4 DEF HomesStay
<1>6. TypeOK'
  <2>1. current' \in {0} \cup Objects /\ made' \in Objects
    BY <1>3 DEF Objects
  <2> QED
    BY <1>1, <1>2, <2>1 DEF BaseInv, TypeOK, HandlerMoved
<1>7. ObjectsInv'
  <2>1. \A o \in Objects : o \in Nat
    BY DEF Objects
  <2>2. ASSUME NEW o \in Objects
        PROVE  /\ queue[o].stopped <=> (o <= made + 1 /\ o # made + 1)
               /\ o > made + 1 => queue[o].buf = <<>> /\ loop[o].pc = "off"
    <3>1. /\ queue[o].stopped <=> (o <= made /\ o # 0)
          /\ o > made => queue[o].buf = <<>> /\ loop[o].pc = "off"
      BY <1>3 DEF BaseInv, ObjectsInv
    <3>2. o # 0 /\ (o <= made <=> (o <= made + 1 /\ o # made + 1)) /\ (o > made + 1 => o > made)
      BY <1>3, <2>1 DEF Objects
    <3> QED
      BY <3>1, <3>2
  <2> QED
    BY <1>1, <1>3, <2>2 DEF ObjectsInv
<1>8. ASSUME NEW x \in Conns PROVE ChannelFine(x)
  <2>1. \A r \in chan[x].st.unacked : r.msg \in Messages
    BY DEF BaseInv, TypeOK, Channel, ChannelDeliveryState, DeliveryRecord
  <2>2. \A r \in chan[x].st.unacked : home[r.msg] # current'
    BY <1>3, <1>4, <2>1
  <2>3. RecordsOf(x)'
    BY <1>1, <2>2 DEF RecordsOf, BaseInv, RecordsInv
  <2> QED
    BY <1>1, <2>3, SameEvolves DEF ChannelFine, BaseInv
<1>9. StepFine
  BY <1>1, <1>2, <1>8, ConsumersSame, HandlersFine DEF StepFine, CleanerFine, LoopFine, BufferFine
<1>10. BaseInv'
  <2>1. made <= made' /\ made' \in Nat
    BY <1>3
  <2> QED
    BY <1>1, <1>3, <1>5, <1>6, <1>7, <1>9, <2>1, ConsumersSame, StepFineBase
<1>11. LossInv'
  BY <1>1, <1>3, <1>4 DEF LossInv
<1> QED
  BY <1>10, <1>11

(* deleteQueuebyNameUnlocked *)
LEMMA DetachQueueFollows ==
    ASSUME NEW s \in ChannelDeliveryState
    PROVE  LET d == DetachQueue(s, Name)
           IN  /\ d \in ChannelDeliveryState /\ d.last = s.last
               /\ \A r \in d.unacked : \E x \in s.unacked : x.tag = r.tag /\ x.msg = r.msg
<1> DEFINE d == DetachQueue(s, Name)
<1>1. d \in ChannelDeliveryState
  BY DetachQueueType
<1>2. d.last = s.last
  BY DetachQueueFields
<1>3. ASSUME NEW r \in d.unacked PROVE \E x \in s.unacked : x.tag = r.tag /\ x.msg = r.msg
  <2>1. CASE r \in s.unacked
    BY <2>1
  <2>2. CASE r \notin s.unacked
    <3>1. PICK x \in OfQueue(s, Name) : r = MarkDeleted(x) /\ r.tag = x.tag
      BY <2>2, DetachQueueRecords
    <3>2. x \in s.unacked /\ x \in DeliveryRecord
      BY DEF OfQueue, ChannelDeliveryState
    <3>3. r.msg = x.msg
      BY <3>1, <3>2, MarkMsg
    <3> QED
      BY <3>1, <3>2, <3>3
  <2> QED
    BY <2>1, <2>2
<1> QED
  BY <1>1, <1>2, <1>3

LEMMA DeleteStep ==
    ASSUME BaseInv, NEW k \in Conns, Delete(k)
    PROVE  BaseInv' /\ (LossInv => LossInv')
<1>1. UNCHANGED <<made, loop, cleaner, conn, told, home, settled>> /\ current' = 0
  BY DEF Delete
<1>2. HandlerMoved(k) /\ HandlerFine(k)
  BY BeginReady DEF Delete
<1>3. /\ TypeOK /\ made \in Nat /\ current \in Objects /\ current = made
      /\ cons \in [Consumers -> {"new", "active", "removed"}] /\ byQueue \in ConsumerList
      /\ queue \in [Objects -> Queue] /\ chan \in [Conns -> Channel]
  BY DeclaredObject DEF BaseInv, ObjectsInv, Delete, TypeOK
<1>4. Members(byQueue) \subseteq Consumers /\ \A c \in Consumers : c \in Members(byQueue) <=> cons[c] = "active"
  BY DEF Members, BaseInv, ConsumersInv
<1>5. /\ cons' \in [Consumers -> {"new", "active", "removed"}]
      /\ \A c \in Consumers : cons'[c] = IF c \in Members(byQueue) THEN "removed" ELSE cons[c]
  BY <1>3 DEF Delete
<1>6. ConsumersOnlyGo /\ \A x \in Conns : NobodyNew(x)
  BY <1>4, <1>5 DEF ConsumersOnlyGo, NobodyNew, ConsumersOf
<1>7. byQueue' \in ConsumerList /\ \A c \in Consumers : byQueue'[c] = 0
  BY DEF Delete, Nobody, ConsumerList
<1>8. ConsumersInv'
  <2>1. \A c \in Consumers : byQueue'[c] > 0 <=> cons'[c] = "active"
    BY <1>4, <1>5, <1>7
  <2>2. cancels' = cancels \cup Members(byQueue) /\ cancels \cup told \subseteq Consumers
    BY <1>3 DEF Delete, TypeOK
  <2>3. \A c \in cancels' \cup told' : cons'[c] = "removed"
    BY <1>1, <1>4, <1>5, <2>2 DEF BaseInv, ConsumersInv
  <2> QED
    BY <2>1, <2>3 DEF ConsumersInv
<1>9. /\ queue' \in [Objects -> Queue]
      /\ \A x \in Objects : /\ queue'[x].buf = queue[x].buf
                            /\ queue'[x].stopped = IF x = current THEN TRUE ELSE queue[x].stopped
  <2> DEFINE b == loop[current].pc # "off"
             q == [queue[current] EXCEPT !.stopped = TRUE, !.done = b]
  <2>1. b \in BOOLEAN
    OBVIOUS
  <2>2. queue' = [queue EXCEPT ![current] = q]
    BY <1>3 DEF Delete
  <2> HIDE DEF b
  <2>3. queue[current] \in Queue
    BY <1>3
  <2>4. q \in Queue /\ q.buf = queue[current].buf /\ q.stopped = TRUE
    BY <2>1, <2>3 DEF Queue
  <2> HIDE DEF q
  <2> QED
    BY <1>3, <2>2, <2>4
<1>10. ASSUME NEW x \in Conns
       PROVE  chan'[x] \in Channel /\ ChannelFine(x)
  <2>1. PICK s \in ChannelDeliveryState : s = chan[x].st /\ chan[x] \in Channel
    BY <1>3 DEF Channel
  <2> DEFINE d == DetachQueue(s, Name)
             e == [chan[x] EXCEPT !.st = d]
  <2>2. chan'[x] = e
    BY <2>1 DEF Delete
  <2>3. /\ d \in ChannelDeliveryState /\ d.last = s.last
        /\ \A r \in d.unacked : \E y \in s.unacked : y.tag = r.tag /\ y.msg = r.msg
    BY DetachQueueFollows
  <2> HIDE DEF d
  <2>4. e \in Channel /\ e.open = chan[x].open /\ e.epoch = chan[x].epoch /\ e.st = d
    BY <2>1, <2>3 DEF Channel
  <2> HIDE DEF e
  <2>5. s.last \in Nat
    BY DEF ChannelDeliveryState
  <2>6. Evolves(x)
    BY <2>1, <2>2, <2>3, <2>4, <2>5 DEF Evolves, SameState, Follows
  <2>7. RecordsOf(x)'
    <3>1. /\ \A y \in s.unacked : y.tag <= s.last /\ home[y.msg] # 0
          /\ ~chan[x].open => s.unacked = {}
      BY <2>1 DEF BaseInv, RecordsInv, RecordsOf
    <3>2. \A r \in d.unacked : r.tag <= d.last /\ home[r.msg] # 0
      BY <2>3, <3>1
    <3>3. ~chan'[x].open => d.unacked = {}
      BY <2>2, <2>3, <2>4, <3>1
    <3> QED
      BY <1>1, <2>2, <2>4, <3>2, <3>3 DEF RecordsOf
  <2> QED
    BY <2>2, <2>4, <2>6, <2>7 DEF ChannelFine
<1>11. chan' \in [Conns -> Channel]
  <2>1. chan' = [x \in Conns |-> chan'[x]]
    BY DEF Delete
  <2> QED
    BY <1>10, <2>1
<1>12. BaseInv'
  <2>1. TypeOK'
    <3>1. cancels' \subseteq Consumers /\ current' \in {0} \cup Objects
      BY <1>1, <1>3, <1>4 DEF Delete, TypeOK
    <3> QED
      BY <1>1, <1>2, <1>3, <1>5, <1>7, <1>9, <1>11, <3>1 DEF TypeOK, HandlerMoved
  <2>2. ObjectsInv'
    <3>1. ASSUME NEW o \in Objects
          PROVE  /\ queue'[o].stopped <=> (o <= made /\ o # 0)
                 /\ o > made => queue'[o].buf = <<>> /\ loop'[o].pc = "off"
      <4>1. o \in Nat /\ o # 0
        BY DEF Objects
      <4>2. /\ queue[o].stopped <=> (o <= made /\ o # current)
            /\ o > made => queue[o].buf = <<>> /\ loop[o].pc = "off"
        BY DEF BaseInv, ObjectsInv
      <4>3. queue'[o].buf = queue[o].buf /\ loop'[o].pc = loop[o].pc
            /\ queue'[o].stopped = IF o = current THEN TRUE ELSE queue[o].stopped
        BY <1>1, <1>9
      <4>4. CASE o = current
        BY <1>3, <4>1, <4>2, <4>3, <4>4
      <4>5. CASE o # current
        BY <4>1, <4>2, <4>3, <4>5
      <4> QED
        BY <4>4, <4>5
    <3> QED
      BY <1>1, <3>1 DEF ObjectsInv
  <2>3. StepFine
    BY <1>1, <1>2, <1>6, <1>9, <1>10, HandlersFine DEF StepFine, CleanerFine, LoopFine, BufferFine
  <2> QED
    BY <1>1, <1>6, <1>8, <2>1, <2>2, <2>3, HomesSame, StepFineBase
<1>13. LossInv'
  BY <1>1 DEF LossInv
<1> QED
  BY <1>12, <1>13

LEMMA NotifyCancelStep ==
    ASSUME BaseInv, NEW c \in Consumers, NotifyCancel(c)
    PROVE  BaseInv' /\ (LossInv => LossInv')
<1>1. UNCHANGED <<current, made, queue, loop, cons, byQueue, chan, handler, cleaner, conn, home, settled>>
  BY DEF NotifyCancel
<1>2. cancels' \subseteq cancels /\ told' \subseteq told \cup {c} /\ c \in cancels
  BY DEF NotifyCancel
<1>3. ConsumersInv' /\ TypeOK'
  BY <1>1, <1>2 DEF BaseInv, ConsumersInv, TypeOK
<1>4. BaseInv'
  BY <1>1, <1>3 DEF BaseInv, ObjectsInv, LoopsInv, LoopOf, HandlersInv, HandlerOf, CleanerOf, HomesInv,
     BufferHomes, LoopHome, HandlerHomes, CleanerHomes, RecordsInv, RecordsOf, DeliveriesInv, DeliveryOf,
     HoldsState, Trying, OwnTag
<1>5. LossInv => LossInv'
  BY <1>1 DEF LossInv, Kept, Carried, Tracked
<1> QED
  BY <1>4, <1>5

(* RegisterConsumer *)
LEMMA ConsumeStep ==
    ASSUME BaseInv, NEW k \in Conns, NEW c \in Consumers, Consume(k, c)
    PROVE  BaseInv' /\ (LossInv => LossInv')
<1>1. UNCHANGED <<current, made, loop, chan, cleaner, conn, cancels, told, home, settled>>
  BY DEF Consume
<1>2. /\ TypeOK /\ made \in Nat /\ current \in Objects /\ current \in 1..made
      /\ cons \in [Consumers -> {"new", "active", "removed"}] /\ byQueue \in ConsumerList
      /\ queue \in [Objects -> Queue] /\ handler[k] \in Handler /\ ConnOf[c] = k /\ cons[c] = "new"
  BY DeclaredObject DEF BaseInv, Consume, TypeOK
<1> DEFINE h == [handler[k] EXCEPT !.pc = "start", !.obj = current]
<1>3. h \in Handler /\ h.pc = "start" /\ h.obj = current /\ h.todo = handler[k].todo
  BY <1>2 DEF Handler
<1>4. Begin(k, "consume", h)
  BY DEF Consume
<1> HIDE DEF h
<1>5. /\ HandlerMoved(k) /\ handler[k].pc = "ready"
      /\ handler'[k].pc = "start" /\ handler'[k].obj = current /\ handler'[k].todo = handler[k].todo
  BY <1>2, <1>3, <1>4, BeginFields
<1>6. handler[k].todo = {}
  BY <1>5 DEF BaseInv, HandlersInv, HandlerOf
<1>7. HandlerFine(k)
  BY <1>1, <1>2, <1>5, <1>6 DEF HandlerFine, HandlerOf, HandlerHomes
<1>8. cons' = [cons EXCEPT ![c] = "active"] /\ cons' \in [Consumers -> {"new", "active", "removed"}]
  BY <1>2 DEF Consume
<1>9. ConsumersOnlyGo /\ \A x \in Conns \ {k} : NobodyNew(x)
  BY <1>2, <1>8 DEF ConsumersOnlyGo, NobodyNew, ConsumersOf
<1> DEFINE n == Cardinality({x \in Consumers : cons[x] # "new"}) + 1
<1>10. n \in Nat \ {0}
  <2>1. {x \in Consumers : cons[x] # "new"} \subseteq Consumers
    OBVIOUS
  <2>2. Cardinality({x \in Consumers : cons[x] # "new"}) \in Nat
    BY <2>1, DeliveryAssumption, FS_Subset, FS_CardinalityType
  <2> QED
    BY <2>2
<1>11. byQueue' = [byQueue EXCEPT ![c] = n]
  BY DEF Consume
<1> HIDE DEF n
<1>12. byQueue' \in ConsumerList /\ byQueue'[c] > 0 /\ \A x \in Consumers : x # c => byQueue'[x] = byQueue[x]
  BY <1>2, <1>10, <1>11 DEF ConsumerList
<1>13. ConsumersInv'
  <2>1. \A x \in Consumers : byQueue'[x] > 0 <=> cons'[x] = "active"
    BY <1>2, <1>8, <1>12 DEF BaseInv, ConsumersInv
  <2>2. \A x \in cancels \cup told : cons[x] = "removed" /\ x \in Consumers
    BY <1>2 DEF BaseInv, ConsumersInv, TypeOK
  <2>3. \A x \in cancels \cup told : cons'[x] = "removed"
    BY <1>2, <1>8, <2>2
  <2> QED
    BY <1>1, <2>1, <2>3 DEF ConsumersInv
<1>14. QuietQueues
  <2> DEFINE i == Cardinality(Members(byQueue'))
             q == [queue[current] EXCEPT !.mirror = i]
  <2>1. i \in Nat
    BY <1>12, MembersCount
  <2>2. queue' = [queue EXCEPT ![current] = q] /\ queue[current] \in Queue
    BY <1>2 DEF Consume
  <2> HIDE DEF i
  <2>3. q \in Queue /\ q.buf = queue[current].buf /\ q.stopped = queue[current].stopped
        /\ q.done = queue[current].done
    BY <2>1, <2>2 DEF Queue
  <2> HIDE DEF q
  <2> QED
    BY <1>2, <2>2, <2>3, QuietOne
<1>15. BaseInv'
  <2>1. TypeOK'
    BY <1>1, <1>2, <1>5, <1>8, <1>12, <1>14 DEF TypeOK, HandlerMoved, QuietQueues
  <2>2. StepFine
    BY <1>1, <1>5, <1>7, <1>9, <1>14, HandlersFine, ObjectsQuiet, ChannelsSame DEF StepFine, CleanerFine
  <2> QED
    BY <1>1, <1>9, <1>13, <1>14, <2>1, <2>2, ObjectsQuiet, HomesSame, StepFineBase
<1>16. ASSUME LossInv PROVE LossInv'
  <2> SUFFICES ASSUME NEW m \in Messages, home[m] # 0 /\ home[m] = current
               PROVE  Kept(m)'
    BY <1>1 DEF LossInv
  <2>1. Kept(m)
    BY <1>16 DEF LossInv
  <2>2. LossFine(m)
    BY <1>1, <1>5, <1>6, <1>14 DEF LossFine, RecordsStay, Says, QuietQueues, HandlerMoved
  <2> QED
    BY <2>1, <2>2, LossFineKept
<1> QED
  BY <1>15, <1>16

(* startDeliveryLoop and notifyConsumersChanged *)
LEMMA StartLoopStep ==
    ASSUME BaseInv, NEW k \in Conns, StartLoop(k)
    PROVE  BaseInv' /\ (LossInv => LossInv')
<1>1. UNCHANGED <<current, made, cons, byQueue, chan, cleaner, conn, cancels, told, home, settled>>
  BY DEF StartLoop
<1>2. TypeOK /\ handler[k] \in Handler /\ HandlerOf(k) /\ handler[k].pc = "start" /\ made \in Nat
      /\ made \in Objects
  BY DeclaredObject DEF BaseInv, TypeOK, HandlersInv, StartLoop
<1>3. PICK o \in Objects : o = handler[k].obj /\ o \in 1..made /\ ~(o > made)
  <2>1. handler[k].obj \in 1..made /\ handler[k].obj \in Objects
    BY <1>2, DeliveryAssumption DEF HandlerOf, Objects
  <2> QED
    BY <1>2, <2>1
<1>4. HandlerMoved(k) /\ handler'[k].pc = "ready" /\ handler'[k].todo = {} /\ handler[k].todo = {}
  <2> DEFINE h == [handler[k] EXCEPT !.pc = "ready", !.obj = 0]
  <2>1. h \in Handler /\ h.pc = "ready" /\ h.todo = handler[k].todo
    BY <1>2 DEF Handler
  <2>2. handler' = [handler EXCEPT ![k] = h]
    BY <1>2 DEF StartLoop, TypeOK
  <2>3. handler[k].todo = {}
    BY <1>2 DEF HandlerOf
  <2> HIDE DEF h
  <2> QED
    BY <1>2, <2>1, <2>2, <2>3, HandlerSet
<1>5. QuietQueues
  <2> DEFINE q == [queue[o] EXCEPT !.wake = TRUE]
  <2>1. queue' = [queue EXCEPT ![o] = q] /\ queue[o] \in Queue
    BY <1>2, <1>3 DEF StartLoop, TypeOK
  <2>2. q \in Queue /\ q.buf = queue[o].buf /\ q.stopped = queue[o].stopped /\ q.done = queue[o].done
    BY <2>1 DEF Queue
  <2> HIDE DEF q
  <2> QED
    BY <1>2, <2>1, <2>2, QuietOne
<1>6. LoopMoved(o) /\ LoopFine(o) /\ (loop'[o] = loop[o] \/ loop[o].pc = "off")
  <2>1. CASE loop[o].pc # "off"
    <3>1. loop' = loop
      BY <1>3, <2>1 DEF StartLoop
    <3> QED
      BY <1>2, <3>1 DEF LoopMoved, LoopFine, TypeOK
  <2>2. CASE loop[o].pc = "off"
    <3>1. Goto(o, "top") /\ "top" \in LoopPC
      BY <1>3, <2>2 DEF StartLoop, Goto, LoopPC
    <3>2. LoopMoved(o) /\ loop'[o].pc = "top" /\ loop'[o].list = loop[o].list /\ loop'[o].left = loop[o].left
      BY <1>2, <3>1, GotoFields
    <3>3. LoopFine(o)
      BY <1>1, <3>2 DEF BaseInv, LoopsInv, LoopOf, Aiming, DeliveryOf, LoopHome, Idling, LoopFine
    <3> QED
      BY <2>2, <3>2, <3>3
  <2> QED
    BY <2>1, <2>2
<1>7. BaseInv'
  <2>1. TypeOK'
    BY <1>1, <1>2, <1>4, <1>5, <1>6 DEF TypeOK, HandlerMoved, QuietQueues, LoopMoved
  <2>2. ObjectsInv'
    BY <1>1, <1>3, <1>5, <1>6, ObjectsKept DEF BaseInv, LoopMoved, QuietQueues
  <2>3. StepFine
    BY <1>1, <1>4, <1>5, <1>6, HandlersFine, ReadyFine, LoopsSame, ChannelsSame, ConsumersSame
    DEF StepFine, CleanerFine, BufferFine, QuietQueues
  <2> QED
    BY <1>1, <2>1, <2>2, <2>3, ConsumersSame, HomesSame, StepFineBase
<1>8. ASSUME LossInv PROVE LossInv'
  <2> SUFFICES ASSUME NEW m \in Messages, home[m] # 0 /\ home[m] = current
               PROVE  Kept(m)'
    BY <1>1 DEF LossInv
  <2>1. Kept(m)
    BY <1>8 DEF LossInv
  <2>2. loop'[o] = loop[o] \/ ~Carried(o, m)
    BY <1>6 DEF Carried, Idling
  <2>3. LossFine(m)
    BY <1>1, <1>4, <1>5, <1>6, <2>2 DEF LossFine, RecordsStay, Says, QuietQueues, HandlerMoved, LoopMoved
  <2> QED
    BY <2>1, <2>3, LossFineKept
<1> QED
  BY <1>7, <1>8

(* basic.cancel, and the consumers of a channel that is closed. *)
LEMMA CancelStep ==
    ASSUME BaseInv, NEW k \in Conns, NEW c \in Consumers, Cancel(k, c)
    PROVE  BaseInv' /\ (LossInv => LossInv')
<1>1. UNCHANGED <<current, made, loop, cleaner, conn, cancels, told, home, settled>>
  BY DEF Cancel
<1>2. HandlerMoved(k) /\ HandlerFine(k) /\ \A x \in Conns : handler'[x].todo = handler[x].todo
  BY BeginReady DEF Cancel
<1>3. PICK C \in SUBSET Consumers :
        (\A x \in C : cons[x] = "active") /\ CancelLocked(C) /\ chan' = Detached(C)
  <2>1. {c} \in SUBSET Consumers /\ (\A x \in {c} : cons[x] = "active")
        /\ CancelLocked({c}) /\ chan' = Detached({c})
    BY DEF Cancel
  <2> QED
    BY <2>1
<1>4. /\ cons' \in [Consumers -> {"new", "active", "removed"}] /\ byQueue' \in ConsumerList
      /\ QuietQueues /\ ConsumersOnlyGo
      /\ \A x \in Consumers : cons'[x] = IF x \in C THEN "removed" ELSE cons[x]
      /\ \A x \in Conns : NobodyNew(x)
      /\ \A x \in Consumers : byQueue'[x] > 0 <=> cons'[x] = "active"
  BY <1>3, CancelFields
<1>5. /\ chan' \in [Conns -> Channel]
      /\ \A x \in Conns : Derived(x) /\ Evolves(x)
      /\ \A x \in Conns : \A r \in chan[x].st.unacked : Says(chan'[x].st.unacked, r.msg)
  BY <1>3, DetachedFine DEF BaseInv
<1>6. BaseInv'
  <2>1. TypeOK'
    BY <1>1, <1>2, <1>4, <1>5 DEF BaseInv, TypeOK, HandlerMoved, QuietQueues
  <2>2. ConsumersInv'
    BY <1>1, <1>4 DEF BaseInv, ConsumersInv, TypeOK
  <2>3. StepFine
    BY <1>1, <1>2, <1>4, <1>5, HandlersFine, ObjectsQuiet DEF StepFine, CleanerFine, ChannelFine
  <2> QED
    BY <1>1, <1>4, <2>1, <2>2, <2>3, ObjectsQuiet, HomesSame, StepFineBase
<1>7. ASSUME LossInv PROVE LossInv'
  <2> SUFFICES ASSUME NEW m \in Messages, home[m] # 0 /\ home[m] = current
               PROVE  Kept(m)'
    BY <1>1 DEF LossInv
  <2>1. Kept(m)
    BY <1>7 DEF LossInv
  <2>2. LossFine(m)
    BY <1>1, <1>2, <1>4, <1>5 DEF LossFine, RecordsStay, QuietQueues
  <2> QED
    BY <2>1, <2>2, LossFineKept
<1> QED
  BY <1>6, <1>7

LEMMA CloseStep ==
    ASSUME BaseInv, NEW k \in Conns, Close(k)
    PROVE  BaseInv' /\ (LossInv => LossInv')
<1>1. UNCHANGED <<current, made, loop, cleaner, conn, cancels, told, home, settled>>
  BY DEF Close
<1>2. TypeOK /\ handler[k] \in Handler /\ HandlerOf(k)
  BY DEF BaseInv, TypeOK, HandlersInv
<1> DEFINE C == Registered(k)
           h == [handler[k] EXCEPT !.pc = "barrier", !.wait = C]
<1>3. C \in SUBSET Consumers /\ \A x \in C : cons[x] = "active"
  BY DEF Registered, ConsumersOf
<1>4. \A x \in ConsumersOf(k) : x \notin C => cons[x] # "active"
  BY DEF Registered
<1>5. CancelLocked(C) /\ chan' = Detached(C) /\ Begin(k, "close", h)
  BY DEF Close
<1> HIDE DEF C
<1>6. h \in Handler /\ h.pc = "barrier" /\ h.todo = handler[k].todo
  BY <1>2, <1>3 DEF Handler
<1> HIDE DEF h
<1>7. /\ HandlerMoved(k) /\ "close" \in Ops[k] /\ handler[k].pc = "ready"
      /\ handler'[k].pc = "barrier" /\ handler'[k].todo = handler[k].todo
  BY <1>2, <1>5, <1>6, BeginFields
<1>8. handler[k].todo = {}
  BY <1>2, <1>7 DEF HandlerOf
<1>9. /\ cons' \in [Consumers -> {"new", "active", "removed"}] /\ byQueue' \in ConsumerList
      /\ QuietQueues /\ ConsumersOnlyGo
      /\ \A x \in Consumers : cons'[x] = IF x \in C THEN "removed" ELSE cons[x]
      /\ \A x \in Conns : NobodyNew(x)
      /\ \A x \in Consumers : byQueue'[x] > 0 <=> cons'[x] = "active"
  BY <1>3, <1>5, CancelFields
<1>10. /\ chan' \in [Conns -> Channel]
       /\ \A x \in Conns : Derived(x) /\ Evolves(x)
       /\ \A x \in Conns : \A r \in chan[x].st.unacked : Says(chan'[x].st.unacked, r.msg)
  BY <1>2, <1>5, DetachedFine
<1>11. HandlerFine(k)
  <2>1. \A x \in ConsumersOf(k) : cons'[x] # "active"
    BY <1>4, <1>9 DEF ConsumersOf
  <2> QED
    BY <1>7, <1>8, <2>1 DEF HandlerFine, HandlerOf, HandlerHomes
<1>12. BaseInv'
  <2>1. TypeOK'
    BY <1>1, <1>7, <1>9, <1>10 DEF BaseInv, TypeOK, HandlerMoved, QuietQueues
  <2>2. ConsumersInv'
    BY <1>1, <1>9 DEF BaseInv, ConsumersInv, TypeOK
  <2>3. StepFine
    BY <1>1, <1>7, <1>9, <1>10, <1>11, HandlersFine, ObjectsQuiet DEF StepFine, CleanerFine, ChannelFine
  <2> QED
    BY <1>1, <1>9, <2>1, <2>2, <2>3, ObjectsQuiet, HomesSame, StepFineBase
<1>13. ASSUME LossInv PROVE LossInv'
  <2> SUFFICES ASSUME NEW m \in Messages, home[m] # 0 /\ home[m] = current
               PROVE  Kept(m)'
    BY <1>1 DEF LossInv
  <2>1. Kept(m)
    BY <1>13 DEF LossInv
  <2>2. LossFine(m)
    BY <1>1, <1>7, <1>8, <1>9, <1>10 DEF LossFine, RecordsStay, QuietQueues, HandlerMoved
  <2> QED
    BY <2>1, <2>2, LossFineKept
<1> QED
  BY <1>12, <1>13

(* An update of the delivery state of one channel. *)
LEMMA ChannelSet ==
    ASSUME TypeOK, NEW k \in Conns, NEW d \in ChannelDeliveryState, chan' = [chan EXCEPT ![k].st = d]
    PROVE  /\ chan' \in [Conns -> Channel] /\ \A x \in Conns \ {k} : chan'[x] = chan[x]
           /\ SameState(k) /\ chan'[k].st = d
<1>1. chan \in [Conns -> Channel] /\ chan[k] \in Channel
  BY DEF TypeOK
<1> DEFINE e == [chan[k] EXCEPT !.st = d]
<1>2. e \in Channel /\ e.open = chan[k].open /\ e.epoch = chan[k].epoch /\ e.st = d
  BY <1>1 DEF Channel
<1>3. chan' = [chan EXCEPT ![k] = e]
  BY <1>1
<1> HIDE DEF e
<1> QED
  BY <1>1, <1>2, <1>3 DEF SameState

(* popUnackedRecords: what it takes off is what it returns. *)
LEMMA PopTakes ==
    ASSUME BaseInv, NEW k \in Conns, NEW t, NEW multiple, Pop(k, t, multiple)
    PROVE  /\ chan' \in [Conns -> Channel] /\ \A x \in Conns : ChannelFine(x)
           /\ \A x \in Conns \ {k} : chan'[x] = chan[x]
           /\ chan'[k].st.unacked \subseteq chan[k].st.unacked
           /\ \A r \in chan[k].st.unacked :
                 r \in chan'[k].st.unacked \/ r \in AckedRecords(chan[k].st, t, multiple)
<1>1. TypeOK /\ chan \in [Conns -> Channel] /\ current' = current
  BY DEF BaseInv, TypeOK, Pop
<1>2. PICK s \in ChannelDeliveryState : s = chan[k].st
  BY <1>1 DEF Channel
<1> DEFINE A == AckedRecords(s, t, multiple)
           d == PopUnacked(s, t, multiple)
<1>3. d \in ChannelDeliveryState
  BY PopUnackedType
<1>4. d.last = s.last /\ d.unacked = {r \in s.unacked : r.tag \notin Tags(A)}
  <2> DEFINE u == DeleteUnacked(s, Tags(A))
  <2>1. d.last = u.last /\ d.unacked = u.unacked
    BY PopUnackedFields
  <2>2. u.last = s.last /\ u.unacked = {r \in s.unacked : r.tag \notin Tags(A)}
    BY DeleteUnackedFields
  <2> HIDE DEF u, d
  <2> QED
    BY <2>1, <2>2
<1>5. chan' = [chan EXCEPT ![k].st = d]
  BY <1>1, <1>2 DEF Pop
<1>6. /\ chan' \in [Conns -> Channel] /\ \A x \in Conns \ {k} : chan'[x] = chan[x]
      /\ SameState(k) /\ chan'[k].st = d
  <2> HIDE DEF d
  <2> QED
    BY <1>1, <1>3, <1>5, ChannelSet
<1>7. ASSUME NEW r \in s.unacked, r.tag \in Tags(A) PROVE r \in A
  BY <1>7 DEF Tags, AckedRecords
<1> HIDE DEF d
<1>8. Derived(k)
  BY <1>2, <1>4, <1>6 DEF Derived, Derives
<1>9. \A x \in Conns : ChannelFine(x)
  <2>1. \A x \in Conns : Derived(x)
    BY <1>1, <1>6, <1>8, SameEvolves
  <2> QED
    BY <1>1, <2>1, DerivedEvolves DEF ChannelFine
<1> QED
  BY <1>2, <1>4, <1>6, <1>7, <1>9

LEMMA AckStep ==
    ASSUME BaseInv, NEW k \in Conns, NEW t, NEW multiple, Ack(k, t, multiple)
    PROVE  BaseInv' /\ (LossInv => LossInv')
<1>1. UNCHANGED <<current, made, queue, loop, cons, byQueue, cleaner, conn, cancels, told, home>>
  BY DEF Ack, Pop
<1>2. HandlerMoved(k) /\ HandlerFine(k) /\ \A x \in Conns : handler'[x].todo = handler[x].todo
  BY BeginReady DEF Ack
<1>3. /\ chan' \in [Conns -> Channel] /\ \A x \in Conns : ChannelFine(x)
      /\ \A x \in Conns \ {k} : chan'[x] = chan[x]
      /\ \A r \in chan[k].st.unacked :
            r \in chan'[k].st.unacked \/ r \in AckedRecords(chan[k].st, t, multiple)
  BY <1>1, PopTakes DEF Ack
<1>4. settled' = settled \cup {r.msg : r \in AckedRecords(chan[k].st, t, multiple)}
  BY DEF Ack
<1>5. settled' \subseteq Messages
  <2>1. \A r \in chan[k].st.unacked : r.msg \in Messages
    BY DEF BaseInv, TypeOK, Channel, ChannelDeliveryState, DeliveryRecord
  <2> QED
    BY <1>4, <2>1 DEF AckedRecords, BaseInv, TypeOK
<1>6. BaseInv'
  <2>1. TypeOK'
    BY <1>1, <1>2, <1>3, <1>5 DEF BaseInv, TypeOK, HandlerMoved
  <2>2. QuietQueues
    BY <1>1 DEF BaseInv, TypeOK, QuietQueues
  <2>3. StepFine
    BY <1>1, <1>2, <1>3, <2>2, ConsumersSame, HandlersFine, ObjectsQuiet DEF StepFine, CleanerFine
  <2> QED
    BY <1>1, <2>1, <2>2, <2>3, ConsumersSame, ObjectsQuiet, HomesSame, StepFineBase
<1>7. ASSUME LossInv PROVE LossInv'
  <2> SUFFICES ASSUME NEW m \in Messages, home[m] # 0 /\ home[m] = current
               PROVE  Kept(m)'
    BY <1>1 DEF LossInv
  <2>1. Kept(m)
    BY <1>7 DEF LossInv
  <2>2. Tracked(k, m) => Kept(m)'
    <3> SUFFICES ASSUME NEW r \in chan[k].st.unacked, r.msg = m, conn[k] # "gone" PROVE Kept(m)'
      BY DEF Tracked
    <3>1. CASE r \in chan'[k].st.unacked
      <4>1. Tracked(k, m)'
        BY <1>1, <3>1 DEF Tracked
      <4> QED
        BY <4>1, KeptIn
    <3>2. CASE r \in AckedRecords(chan[k].st, t, multiple)
      BY <1>4, <3>2, KeptIn
    <3> QED
      BY <1>3, <3>1, <3>2
  <2>3. LossFine(m)
    BY <1>1, <1>2, <1>3, <1>4, <2>2 DEF LossFine, RecordsStay, Says
  <2> QED
    BY <2>1, <2>3, LossFineKept
<1> QED
  BY <1>6, <1>7

(* A record of a message of the current queue is not marked QueueDeleted. *)
LEMMA CurrentNotDeleted ==
    ASSUME BaseInv, NEW k \in Conns, NEW r \in chan[k].st.unacked
    PROVE  /\ r \in DeliveryRecord /\ r.msg \in Messages /\ home[r.msg] # 0 /\ home[r.msg] \in 1..made
           /\ home[r.msg] = current => ~r.deleted
<1>1. r \in DeliveryRecord /\ r.msg \in Messages
  BY DEF BaseInv, TypeOK, Channel, ChannelDeliveryState, DeliveryRecord
<1>2. home[r.msg] # 0 /\ (r.deleted => home[r.msg] # current)
  BY DEF BaseInv, RecordsInv, RecordsOf
<1>3. home[r.msg] \in {0} \cup Objects /\ home[r.msg] <= made /\ made \in Nat
  BY <1>1, DeclaredObject DEF BaseInv, TypeOK, HomesInv
<1> QED
  BY <1>1, <1>2, <1>3 DEF Objects

(* The methods that give deliveries back: what leaves the channel state    *)
(* goes to the handler, but for deliveries of deleted queues.              *)
GivesBack(k, R) ==
    /\ R \subseteq chan[k].st.unacked
    /\ handler'[k].pc = "requeue" /\ handler'[k].todo = {r \in R : ~r.deleted}
    /\ handler[k].todo = {} /\ HandlerMoved(k)
    /\ chan' \in [Conns -> Channel] /\ \A x \in Conns : ChannelFine(x)
    /\ \A x \in Conns \ {k} : chan'[x] = chan[x]
    /\ \A r \in chan[k].st.unacked : r \in chan'[k].st.unacked \/ r \in R

LEMMA GivesBackStep ==
    ASSUME BaseInv, NEW k \in Conns, NEW R, GivesBack(k, R),
           UNCHANGED <<current, made, queue, loop, cons, byQueue, cleaner, conn, cancels, told, home,
                       settled>>
    PROVE  BaseInv' /\ (LossInv => LossInv')
<1>1. HandlerFine(k)
  <2>1. HandlerOf(k)'
    BY DEF GivesBack, HandlerOf
  <2>2. HandlerHomes(k)'
    BY CurrentNotDeleted DEF GivesBack, HandlerHomes
  <2> QED
    BY <2>1, <2>2 DEF HandlerFine
<1>2. BaseInv'
  <2>1. TypeOK'
    BY DEF BaseInv, TypeOK, HandlerMoved, GivesBack
  <2>2. QuietQueues
    BY DEF BaseInv, TypeOK, QuietQueues
  <2>3. StepFine
    BY <1>1, <2>2, ConsumersSame, HandlersFine, ObjectsQuiet DEF StepFine, CleanerFine, GivesBack
  <2> QED
    BY <2>1, <2>2, <2>3, ConsumersSame, ObjectsQuiet, HomesSame, StepFineBase
<1>3. ASSUME LossInv PROVE LossInv'
  <2> SUFFICES ASSUME NEW m \in Messages, home[m] # 0 /\ home[m] = current
               PROVE  Kept(m)'
    BY DEF LossInv
  <2>1. Kept(m)
    BY <1>3 DEF LossInv
  <2>2. Tracked(k, m) => Kept(m)'
    <3> SUFFICES ASSUME NEW r \in chan[k].st.unacked, r.msg = m, conn[k] # "gone" PROVE Kept(m)'
      BY DEF Tracked
    <3>1. CASE r \in chan'[k].st.unacked
      <4>1. Tracked(k, m)'
        BY <3>1 DEF Tracked
      <4> QED
        BY <4>1, KeptIn
    <3>2. CASE r \in R
      <4>1. ~r.deleted
        BY CurrentNotDeleted
      <4>2. Says(handler'[k].todo, m)
        BY <3>2, <4>1 DEF GivesBack, Says
      <4> QED
        BY <4>2, KeptIn
    <3> QED
      BY <3>1, <3>2 DEF GivesBack
  <2>3. LossFine(m)
    BY <2>2 DEF LossFine, RecordsStay, Says, GivesBack, HandlerMoved
  <2> QED
    BY <2>1, <2>3, LossFineKept
<1> QED
  BY <1>2, <1>3

LEMMA RequeueFields ==
    ASSUME BaseInv, NEW k \in Conns, NEW op, NEW R \in SUBSET chan[k].st.unacked,
           Begin(k, op, Requeue(k, R))
    PROVE  /\ handler'[k].pc = "requeue" /\ handler'[k].todo = {r \in R : ~r.deleted}
           /\ handler[k].todo = {} /\ HandlerMoved(k)
<1>1. TypeOK /\ handler[k] \in Handler /\ HandlerOf(k)
  BY DEF BaseInv, TypeOK, HandlersInv
<1> DEFINE D == {r \in R : ~r.deleted}
           h == [handler[k] EXCEPT !.pc = "requeue", !.todo = D]
<1>2. D \subseteq DeliveryRecord
  BY CurrentNotDeleted
<1>3. Requeue(k, R) = h
  BY DEF Requeue
<1> HIDE DEF D
<1>4. h \in Handler /\ h.pc = "requeue" /\ h.todo = D
  BY <1>1, <1>2 DEF Handler
<1> HIDE DEF h
<1>5. HandlerMoved(k) /\ handler[k].pc = "ready" /\ handler'[k].pc = h.pc /\ handler'[k].todo = h.todo
  BY <1>1, <1>3, <1>4, BeginFields
<1>6. handler[k].todo = {}
  BY <1>1, <1>5 DEF HandlerOf
<1> QED
  BY <1>4, <1>5, <1>6 DEF D

LEMMA NackStep ==
    ASSUME BaseInv, NEW k \in Conns, NEW t, NEW multiple, Nack(k, t, multiple)
    PROVE  BaseInv' /\ (LossInv => LossInv')
<1>1. UNCHANGED <<current, made, queue, loop, cons, byQueue, cleaner, conn, cancels, told, home, settled>>
  BY DEF Nack, Pop
<1>2. PICK R \in SUBSET chan[k].st.unacked : R = AckedRecords(chan[k].st, t, multiple)
  BY DEF AckedRecords
<1>3. /\ chan' \in [Conns -> Channel] /\ \A x \in Conns : ChannelFine(x)
      /\ \A x \in Conns \ {k} : chan'[x] = chan[x]
      /\ \A r \in chan[k].st.unacked : r \in chan'[k].st.unacked \/ r \in R
  BY <1>2, PopTakes DEF Nack
<1>4. Begin(k, "nack", Requeue(k, R))
  BY <1>2 DEF Nack
<1>5. GivesBack(k, R)
  BY <1>3, <1>4, RequeueFields DEF GivesBack
<1> QED
  BY <1>1, <1>5, GivesBackStep

LEMMA RecoverStep ==
    ASSUME BaseInv, NEW k \in Conns, Recover(k)
    PROVE  BaseInv' /\ (LossInv => LossInv')
<1>1. UNCHANGED <<current, made, queue, loop, cons, byQueue, cleaner, conn, cancels, told, home, settled>>
  BY DEF Recover
<1>2. TypeOK /\ chan \in [Conns -> Channel]
  BY DEF BaseInv, TypeOK
<1>3. PICK s \in ChannelDeliveryState : s = chan[k].st
  BY <1>2 DEF Channel
<1> DEFINE d == ClearIndexes(s)
<1>4. d \in ChannelDeliveryState /\ d.last = s.last /\ d.unacked = {}
  BY ClearIndexesType DEF ClearIndexes, ChannelDeliveryState
<1>5. chan' = [chan EXCEPT ![k].st = d]
  BY <1>2, <1>3 DEF Recover
<1> HIDE DEF d
<1>6. /\ chan' \in [Conns -> Channel] /\ \A x \in Conns \ {k} : chan'[x] = chan[x]
      /\ SameState(k) /\ chan'[k].st = d
  BY <1>2, <1>4, <1>5, ChannelSet
<1>7. \A x \in Conns : ChannelFine(x)
  <2>1. Derived(k)
    BY <1>3, <1>4, <1>6 DEF Derived, Derives
  <2>2. \A x \in Conns : Derived(x)
    BY <1>2, <1>6, <2>1, SameEvolves
  <2> QED
    BY <1>1, <1>2, <2>2, DerivedEvolves DEF ChannelFine
<1>8. PICK R \in SUBSET chan[k].st.unacked : R = FetchUnacked(chan[k].st)
  BY DEF FetchUnacked
<1>9. Begin(k, "recover", Requeue(k, R))
  BY <1>8 DEF Recover
(* FetchUnacked leaves the records of deleted queues behind, and they are  *)
(* dropped with the indexes: they give nothing back either.                *)
<1>10. PICK U \in SUBSET chan[k].st.unacked : U = chan[k].st.unacked
  OBVIOUS
<1>11. {r \in R : ~r.deleted} = {r \in U : ~r.deleted}
  BY <1>8, <1>10 DEF FetchUnacked
<1>12. /\ handler'[k].pc = "requeue" /\ handler'[k].todo = {r \in R : ~r.deleted}
       /\ handler[k].todo = {} /\ HandlerMoved(k)
  BY <1>9, RequeueFields
<1>13. GivesBack(k, U)
  BY <1>6, <1>7, <1>10, <1>11, <1>12 DEF GivesBack
<1> QED
  BY <1>1, <1>13, GivesBackStep

LEMMA RequeueOneStep ==
    ASSUME BaseInv, NEW k \in Conns, RequeueOne(k)
    PROVE  BaseInv' /\ (LossInv => LossInv')
<1>1. UNCHANGED <<current, made, loop, cons, byQueue, chan, cleaner, conn, cancels, told, home, settled>>
  BY DEF RequeueOne
<1>2. TypeOK /\ handler[k] \in Handler /\ handler[k].pc = "requeue" /\ HandlerHomes(k)
  BY DEF BaseInv, TypeOK, HomesInv, RequeueOne
<1>3. PICK r \in handler[k].todo :
        /\ queue' = IF current = 0 THEN queue ELSE Pushed(current, r.msg)
        /\ handler' = [handler EXCEPT ![k].todo = @ \ {r}]
  BY DEF RequeueOne
<1>4. HandlerMoved(k) /\ handler'[k].pc = handler[k].pc /\ handler'[k].obj = handler[k].obj
      /\ handler'[k].todo = handler[k].todo \ {r}
  <2> DEFINE D == handler[k].todo \ {r}
             h == [handler[k] EXCEPT !.todo = D]
  <2>1. D \subseteq DeliveryRecord
    BY <1>2 DEF Handler
  <2>2. handler' = [handler EXCEPT ![k] = h]
    BY <1>2, <1>3 DEF TypeOK
  <2> HIDE DEF D
  <2>3. h \in Handler /\ h.pc = handler[k].pc /\ h.obj = handler[k].obj /\ h.todo = D
    BY <1>2, <2>1 DEF Handler
  <2> HIDE DEF h
  <2>4. HandlerMoved(k) /\ handler'[k] = h
    BY <1>2, <2>2, <2>3, HandlerSet
  <2> QED
    BY <2>3, <2>4 DEF D
<1>5. r.msg \in Messages /\ home[r.msg] # 0 /\ home[r.msg] \in 1..made
  <2>1. r.msg \in Messages /\ home[r.msg] # 0
    BY <1>2 DEF Handler, DeliveryRecord, HandlerHomes
  <2>2. home[r.msg] \in {0} \cup Objects /\ home[r.msg] <= made /\ made \in Nat
    BY <1>2, <2>1, DeclaredObject DEF BaseInv, TypeOK, HomesInv
  <2> QED
    BY <2>1, <2>2 DEF Objects
<1>6. /\ queue' \in [Objects -> Queue] /\ ObjectsInv'
      /\ \A x \in Objects : LoopFine(x) /\ BufferFine(x)
                            /\ Range(queue[x].buf) \subseteq Range(queue'[x].buf)
      /\ home[r.msg] = current => Kept(r.msg)'
  <2>1. CASE current = 0
    <3>1. QuietQueues
      BY <1>2, <1>3, <2>1 DEF QuietQueues, TypeOK
    <3> QED
      BY <1>1, <1>5, <2>1, <3>1, ObjectsQuiet DEF QuietQueues
  <2>2. CASE current # 0
    <3>1. current \in 1..made /\ current = made
      BY <2>2, DeclaredObject DEF BaseInv, ObjectsInv
    <3>2. queue' = Pushed(current, r.msg)
      BY <1>3, <2>2
    <3> QED
      BY <1>1, <1>5, <3>1, <3>2, PushFine
  <2> QED
    BY <2>1, <2>2
<1>7. HandlerFine(k)
  BY <1>1, <1>2, <1>4, ConsumersSame, HandlerShrinks
<1>8. BaseInv'
  <2>1. TypeOK'
    BY <1>1, <1>4, <1>6 DEF BaseInv, TypeOK, HandlerMoved
  <2>2. StepFine
    BY <1>1, <1>4, <1>6, <1>7, ConsumersSame, HandlersFine, ChannelsSame DEF StepFine, CleanerFine
  <2> QED
    BY <1>1, <1>6, <2>1, <2>2, ConsumersSame, HomesSame, StepFineBase
<1>9. ASSUME LossInv PROVE LossInv'
  <2> SUFFICES ASSUME NEW m \in Messages, home[m] # 0 /\ home[m] = current
               PROVE  Kept(m)'
    BY <1>1 DEF LossInv
  <2>1. Kept(m)
    BY <1>9 DEF LossInv
  <2>2. Says(handler[k].todo, m) => Kept(m)'
    <3>1. Says(handler[k].todo, m) => r.msg = m \/ Says(handler'[k].todo, m)
      BY <1>4 DEF Says
    <3> QED
      BY <1>6, <3>1, KeptIn
  <2>3. LossFine(m)
    BY <1>1, <1>4, <1>6, <2>2 DEF LossFine, RecordsStay, Says, HandlerMoved
  <2> QED
    BY <2>1, <2>3, LossFineKept
<1> QED
  BY <1>8, <1>9

LEMMA RequeueDoneStep ==
    ASSUME BaseInv, NEW k \in Conns, RequeueDone(k)
    PROVE  BaseInv' /\ (LossInv => LossInv')
<1>1. UNCHANGED <<current, made, queue, loop, cons, byQueue, chan, cleaner, conn, cancels, told, home, settled>>
  BY DEF RequeueDone
<1>2. TypeOK /\ handler[k] \in Handler /\ handler[k].todo = {}
  BY DEF BaseInv, TypeOK, RequeueDone
<1>3. HandlerMoved(k) /\ handler'[k].pc = "ready" /\ handler'[k].todo = {}
  <2> DEFINE h == [handler[k] EXCEPT !.pc = "ready"]
  <2>1. h \in Handler /\ h.pc = "ready" /\ h.todo = {}
    BY <1>2 DEF Handler
  <2>2. handler' = [handler EXCEPT ![k] = h]
    BY <1>2 DEF TypeOK, RequeueDone
  <2> HIDE DEF h
  <2> QED
    BY <1>2, <2>1, <2>2, HandlerSet
<1>4. BaseInv'
  <2>1. TypeOK'
    BY <1>1, <1>3 DEF BaseInv, TypeOK, HandlerMoved
  <2>2. QuietQueues
    BY <1>1, <1>2 DEF TypeOK, QuietQueues
  <2>3. StepFine
    BY <1>1, <1>3, <2>2, ReadyFine, ConsumersSame, HandlersFine, ObjectsQuiet, ChannelsSame
    DEF StepFine, CleanerFine
  <2> QED
    BY <1>1, <2>1, <2>2, <2>3, ConsumersSame, ObjectsQuiet, HomesSame, StepFineBase
<1>5. ASSUME LossInv PROVE LossInv'
  <2> SUFFICES ASSUME NEW m \in Messages, home[m] # 0 /\ home[m] = current
               PROVE  Kept(m)'
    BY <1>1 DEF LossInv
  <2>1. Kept(m)
    BY <1>5 DEF LossInv
  <2>2. LossFine(m)
    BY <1>1, <1>2, <1>3 DEF LossFine, RecordsStay, Says, HandlerMoved
  <2> QED
    BY <2>1, <2>2, LossFineKept
<1> QED
  BY <1>4, <1>5

(* basic.get *)
LEMMA GetStep ==
    ASSUME BaseInv, NEW k \in Conns, Get(k)
    PROVE  BaseInv' /\ (LossInv => LossInv')
<1>1. UNCHANGED <<current, made, loop, cons, byQueue, chan, cleaner, conn, cancels, told, home, settled>>
  BY DEF Get
<1>2. TypeOK /\ handler[k] \in Handler /\ HandlerOf(k)
  BY DEF BaseInv, TypeOK, HandlersInv
<1>3. PICK o \in Objects : o = current /\ queue[o].buf # <<>> /\ queue' = [queue EXCEPT ![o].buf = Tail(@)]
                           /\ ~(o > made)
  <2>1. current \in Objects /\ current \in 1..made /\ made \in Nat
    BY DeclaredObject DEF Get
  <2>2. ~(current > made)
    BY <2>1
  <2> QED
    BY <2>1, <2>2 DEF Get
<1>4. /\ queue' \in [Objects -> Queue]
      /\ \A x \in Objects : /\ queue'[x].stopped = queue[x].stopped
                            /\ x # o => queue'[x].buf = queue[x].buf
      /\ Range(queue[o].buf) = Range(queue'[o].buf) \cup {Head(queue[o].buf)}
      /\ Head(queue[o].buf) \in Messages
  BY <1>2, <1>3, TailFields
<1>5. PICK g \in Messages : g = Head(queue[o].buf)
  BY <1>4
<1> DEFINE r == NewRecord(0, NoConsumer, Name, g)
           h == [handler[k] EXCEPT !.pc = "got", !.todo = {r}]
<1>6. r \in DeliveryRecord /\ r.msg = g
  BY NameType, NewRecordType DEF NewRecord
<1>7. Begin(k, "get", h)
  BY <1>3, <1>5 DEF Get
<1> HIDE DEF r
<1>8. h \in Handler /\ h.pc = "got" /\ h.todo = {r}
  BY <1>2, <1>6 DEF Handler
<1> HIDE DEF h
<1>9. /\ HandlerMoved(k) /\ "get" \in Ops[k] /\ handler[k].pc = "ready"
      /\ handler'[k].pc = "got" /\ handler'[k].todo = {r}
  BY <1>2, <1>7, <1>8, BeginFields
<1>10. handler[k].todo = {}
  BY <1>2, <1>9 DEF HandlerOf
<1>11. home[g] \in 1..o /\ home[g] # 0
  BY <1>4, <1>5 DEF BaseInv, HomesInv, BufferHomes
<1>12. HandlerFine(k)
  <2>1. HandlerOf(k)'
    BY <1>9 DEF HandlerOf
  <2>2. HandlerHomes(k)'
    BY <1>1, <1>6, <1>9, <1>11 DEF HandlerHomes
  <2> QED
    BY <2>1, <2>2 DEF HandlerFine
<1>13. BaseInv'
  <2>1. TypeOK'
    BY <1>1, <1>4, <1>9 DEF BaseInv, TypeOK, HandlerMoved
  <2>2. ObjectsInv'
    BY <1>1, <1>3, <1>4, ObjectsKept DEF BaseInv
  <2>3. \A x \in Objects : LoopFine(x) /\ BufferFine(x)
    BY <1>1, <1>4 DEF LoopFine, BufferFine, BufferHomes, BaseInv, HomesInv
  <2>4. StepFine
    BY <1>1, <1>9, <1>12, <2>3, ConsumersSame, HandlersFine, ChannelsSame DEF StepFine, CleanerFine
  <2> QED
    BY <1>1, <2>1, <2>2, <2>4, ConsumersSame, HomesSame, StepFineBase
<1>14. ASSUME LossInv PROVE LossInv'
  <2> SUFFICES ASSUME NEW m \in Messages, home[m] # 0 /\ home[m] = current
               PROVE  Kept(m)'
    BY <1>1 DEF LossInv
  <2>1. Kept(m)
    BY <1>14 DEF LossInv
  <2>2. m \in Range(queue[o].buf) => Kept(m)'
    <3>1. m = g => Says(handler'[k].todo, m)
      BY <1>6, <1>9 DEF Says
    <3> QED
      BY <1>4, <1>5, <3>1, KeptIn
  <2>3. LossFine(m)
    BY <1>1, <1>4, <1>9, <1>10, <2>2 DEF LossFine, RecordsStay, Says, HandlerMoved
  <2> QED
    BY <2>1, <2>3, LossFineKept
<1> QED
  BY <1>13, <1>14

LEMMA TrackGetFields ==
    ASSUME NEW s \in ChannelDeliveryState, NEW m \in Messages
    PROVE  LET d == TrackGet(s, Name, m)
               n == NewRecord(s.last + 1, NoConsumer, Name, m)
           IN  /\ d \in ChannelDeliveryState /\ d.last = s.last + 1 /\ d.unacked = s.unacked \cup {n}
               /\ n.tag = s.last + 1 /\ n.msg = m /\ ~n.deleted
<1> DEFINE d == TrackGet(s, Name, m)
           n == NewRecord(s.last + 1, NoConsumer, Name, m)
<1>1. d \in ChannelDeliveryState
  BY NameType, TrackGetType
<1>2. n.tag = s.last + 1 /\ n.msg = m /\ ~n.deleted
  BY DEF NewRecord
<1>3. d.last = s.last + 1 /\ d.unacked = s.unacked \cup {n}
  BY DEF TrackGet, ChannelDeliveryState
<1> QED
  BY <1>1, <1>2, <1>3

(* Only this step needs that a connection that uses basic.get stays: the   *)
(* message of a get is on nobody's list until it is tracked.               *)
LEMMA TrackGotStep ==
    ASSUME BaseInv, NEW k \in Conns, TrackGot(k)
    PROVE  BaseInv' /\ (("get" \in Ops[k] => k \notin Mortal) /\ LossInv => LossInv')
<1>1. UNCHANGED <<current, made, queue, loop, cons, byQueue, cleaner, conn, cancels, told, home, settled>>
  BY DEF TrackGot
<1>2. TypeOK /\ handler[k] \in Handler /\ HandlerOf(k) /\ handler[k].pc = "got" /\ HandlerHomes(k)
      /\ chan \in [Conns -> Channel]
  BY DEF BaseInv, TypeOK, HandlersInv, TrackGot, HomesInv
<1>3. PICK r \in handler[k].todo :
        chan' = [chan EXCEPT ![k] = [Created(k) EXCEPT !.st = TrackGet(@, Name, r.msg)]]
  BY DEF TrackGot
<1>4. handler[k].todo = {r} /\ "get" \in Ops[k]
  BY <1>2 DEF HandlerOf
<1>5. PICK g \in Messages : g = r.msg /\ home[g] # 0
  BY <1>2 DEF HandlerHomes, Handler, DeliveryRecord
<1>6. HandlerMoved(k) /\ handler'[k].pc = "ready" /\ handler'[k].todo = {}
  <2> DEFINE h == [handler[k] EXCEPT !.pc = "ready", !.todo = {}]
  <2>1. h \in Handler /\ h.pc = "ready" /\ h.todo = {}
    BY <1>2 DEF Handler
  <2>2. handler' = [handler EXCEPT ![k] = h]
    BY <1>2 DEF TypeOK, TrackGot
  <2> HIDE DEF h
  <2> QED
    BY <1>2, <2>1, <2>2, HandlerSet
<1>7. PICK C \in Channel : C = Created(k)
  BY CreatedFields
<1>8. /\ C.open /\ C.st.unacked = chan[k].st.unacked
      /\ chan[k].open => C = chan[k]
      /\ ~chan[k].open => C.epoch = chan[k].epoch + 1 /\ C.st.last = 0
  BY <1>7, CreatedFields
<1>9. PICK s \in ChannelDeliveryState : s = C.st
  BY DEF Channel
<1> DEFINE d == TrackGet(s, Name, g)
           n == NewRecord(s.last + 1, NoConsumer, Name, g)
           e == [C EXCEPT !.st = d]
<1>10. /\ d \in ChannelDeliveryState /\ d.last = s.last + 1 /\ d.unacked = s.unacked \cup {n}
       /\ n.tag = s.last + 1 /\ n.msg = g /\ ~n.deleted
  BY TrackGetFields
<1>11. chan' = [chan EXCEPT ![k] = e]
  BY <1>3, <1>5, <1>7, <1>9
<1> HIDE DEF d, n
<1>12. e \in Channel /\ e.open = C.open /\ e.epoch = C.epoch /\ e.st = d
  BY <1>10 DEF Channel
<1> HIDE DEF e
<1>13. chan' \in [Conns -> Channel] /\ chan'[k] = e /\ \A x \in Conns \ {k} : chan'[x] = chan[x]
  BY <1>2, <1>11, <1>12
<1>14. s.last \in Nat /\ \A x \in s.unacked : x.tag \in Nat
  BY DEF ChannelDeliveryState, DeliveryRecord
<1>15. \A x \in s.unacked : x.tag <= s.last /\ home[x.msg] # 0 /\ (x.deleted => home[x.msg] # current)
  <2>1. RecordsOf(k)
    BY DEF BaseInv, RecordsInv
  <2>2. CASE chan[k].open
    BY <1>8, <1>9, <2>1, <2>2 DEF RecordsOf
  <2>3. CASE ~chan[k].open
    BY <1>8, <1>9, <2>1, <2>3 DEF RecordsOf
  <2> QED
    BY <2>2, <2>3
<1>16. ChannelFine(k)
  <2>1. Evolves(k)
    <3>1. CASE chan[k].open
      <4>1. SameState(k) /\ s = chan[k].st /\ chan'[k].st = d
        BY <1>8, <1>9, <1>12, <1>13, <3>1 DEF SameState
      <4>2. Follows(s, d)
        BY <1>10, <1>14, <1>15 DEF Follows
      <4> QED
        BY <4>1, <4>2 DEF Evolves
    <3>2. CASE ~chan[k].open
      BY <1>8, <1>12, <1>13, <3>2 DEF Evolves
    <3> QED
      BY <3>1, <3>2
  <2>2. \A x \in d.unacked : x.tag <= d.last /\ home[x.msg] # 0 /\ (x.deleted => home[x.msg] # current)
    BY <1>5, <1>10, <1>14, <1>15
  <2>3. RecordsOf(k)'
    BY <1>1, <1>8, <1>12, <1>13, <2>2 DEF RecordsOf
  <2> QED
    BY <2>1, <2>3 DEF ChannelFine
<1>17. \A x \in Conns : ChannelFine(x)
  <2>1. ASSUME NEW x \in Conns \ {k} PROVE ChannelFine(x)
    BY <1>1, <1>2, <1>13, SameEvolves DEF ChannelFine
  <2> QED
    BY <1>16, <2>1
<1>18. BaseInv'
  <2>1. TypeOK'
    BY <1>1, <1>6, <1>13 DEF BaseInv, TypeOK, HandlerMoved
  <2>2. QuietQueues
    BY <1>1, <1>2 DEF TypeOK, QuietQueues
  <2>3. StepFine
    BY <1>1, <1>6, <1>17, <2>2, ReadyFine, ConsumersSame, HandlersFine, ObjectsQuiet
    DEF StepFine, CleanerFine
  <2> QED
    BY <1>1, <2>1, <2>2, <2>3, ConsumersSame, ObjectsQuiet, HomesSame, StepFineBase
<1>19. ASSUME LossInv, "get" \in Ops[k] => k \notin Mortal PROVE LossInv'
  <2> SUFFICES ASSUME NEW m \in Messages, home[m] # 0 /\ home[m] = current
               PROVE  Kept(m)'
    BY <1>1 DEF LossInv
  <2>1. Kept(m)
    BY <1>19 DEF LossInv
  <2>2. Says(handler[k].todo, m) => Kept(m)'
    <3> SUFFICES ASSUME g = m PROVE Kept(m)'
      BY <1>4, <1>5 DEF Says
    <3>1. conn[k] # "gone"
      BY <1>4, <1>19 DEF BaseInv, HandlersInv, CleanerOf
    <3>2. Tracked(k, m)'
      BY <1>1, <1>10, <1>12, <1>13, <3>1 DEF Tracked
    <3> QED
      BY <3>2, KeptIn
  <2>3. \A x \in Conns : RecordsStay(x)
    BY <1>1, <1>8, <1>9, <1>10, <1>12, <1>13 DEF RecordsStay, Says
  <2>4. LossFine(m)
    BY <1>1, <1>6, <2>2, <2>3 DEF LossFine, HandlerMoved
  <2> QED
    BY <2>1, <2>4, LossFineKept
<1> QED
  BY <1>18, <1>19

-----------------------------------------------------------------------------
(* takeChannelDeliveriesLocked, for a channel with no consumer left. *)
LEMMA TakenFine ==
    ASSUME TypeOK, NEW k \in Conns, chan'[k] = NoState(k),
           \A c \in ConsumersOf(k) : cons'[c] # "active"
    PROVE  ChannelFine(k) /\ chan'[k] \in Channel
<1>1. chan[k] \in Channel
  BY DEF TypeOK
<1>2. NewChannelState \in ChannelDeliveryState /\ NewChannelState.unacked = {}
  BY NewStateType DEF NewChannelState
<1>3. /\ chan'[k].open = FALSE /\ chan'[k].epoch = chan[k].epoch
      /\ chan'[k].st = NewChannelState
  BY DEF NoState
<1>4. chan'[k] \in Channel
  BY <1>1, <1>2 DEF NoState, Channel
<1>5. Evolves(k)
  BY <1>3 DEF Evolves
<1>6. RecordsOf(k)'
  BY <1>2, <1>3 DEF RecordsOf
<1> QED
  BY <1>4, <1>5, <1>6 DEF ChannelFine

(* What is taken is all that is unacked and of the queue that has the      *)
(* name now or, since its deletion, of none.                               *)
LEMMA FetchedFields ==
    ASSUME BaseInv, NEW k \in Conns,
           NEW T, T = IF current = 0 THEN {} ELSE FetchUnacked(chan[k].st)
    PROVE  /\ T \subseteq DeliveryRecord
           /\ T # {} => current \in 1..made
           /\ \A r \in T : home[r.msg] \in 1..current
           /\ \A m \in Messages : home[m] # 0 /\ home[m] = current /\ Tracked(k, m) => Says(T, m)
<1>1. T \subseteq {r \in chan[k].st.unacked : ~r.deleted} /\ (T # {} => current # 0)
  BY DEF FetchUnacked
<1>2. T \subseteq DeliveryRecord
  BY <1>1, CurrentNotDeleted
<1>3. current # 0 => current = made /\ current \in 1..made
  BY DeclaredObject DEF BaseInv, ObjectsInv
<1>4. \A r \in T : home[r.msg] \in 1..current
  BY <1>1, <1>3, CurrentNotDeleted
<1>5. ASSUME NEW m \in Messages, home[m] # 0, home[m] = current, Tracked(k, m)
      PROVE  Says(T, m)
  <2>1. PICK r \in chan[k].st.unacked : r.msg = m
    BY <1>5 DEF Tracked
  <2>2. ~r.deleted
    BY <1>5, <2>1, CurrentNotDeleted
  <2>3. r \in T
    BY <1>5, <2>2 DEF FetchUnacked
  <2> QED
    BY <2>1, <2>3 DEF Says
<1> QED
  BY <1>1, <1>2, <1>3, <1>4, <1>5

LEMMA TakeStateStep ==
    ASSUME BaseInv, NEW k \in Conns, TakeState(k)
    PROVE  BaseInv' /\ (LossInv => LossInv')
<1>1. UNCHANGED <<current, made, queue, loop, cons, byQueue, cleaner, conn, cancels, told, home, settled>>
  BY DEF TakeState
<1>2. TypeOK /\ handler[k] \in Handler /\ handler[k].pc = "barrier" /\ HandlerOf(k)
      /\ chan \in [Conns -> Channel]
  BY DEF BaseInv, TypeOK, HandlersInv, TakeState
<1>3. PICK T : T = IF current = 0 THEN {} ELSE FetchUnacked(chan[k].st)
  OBVIOUS
<1>4. /\ T \subseteq DeliveryRecord /\ (T # {} => current \in 1..made)
      /\ \A r \in T : home[r.msg] \in 1..current
      /\ \A m \in Messages : home[m] # 0 /\ home[m] = current /\ Tracked(k, m) => Says(T, m)
  BY <1>3, FetchedFields
<1>5. /\ HandlerMoved(k) /\ handler'[k].pc = "release" /\ handler'[k].obj = current
      /\ handler'[k].todo = T
  <2> DEFINE h == [handler[k] EXCEPT !.pc = "release", !.wait = {}, !.obj = current, !.todo = T]
  <2>1. current \in {0} \cup Objects
    BY <1>2 DEF TypeOK
  <2>2. h \in Handler /\ h.pc = "release" /\ h.obj = current /\ h.todo = T
    BY <1>2, <1>4, <2>1 DEF Handler
  <2>3. handler' = [handler EXCEPT ![k] = h]
    BY <1>2, <1>3 DEF TypeOK, TakeState
  <2> HIDE DEF h
  <2> QED
    BY <1>2, <2>2, <2>3, HandlerSet
<1>6. "close" \in Ops[k] /\ handler[k].todo = {} /\ \A c \in ConsumersOf(k) : cons[c] # "active"
  BY <1>2 DEF HandlerOf
<1>7. HandlerFine(k)
  <2>1. HandlerOf(k)'
    BY <1>1, <1>4, <1>5, <1>6 DEF HandlerOf
  <2>2. \A r \in T : home[r.msg] # 0 /\ home[r.msg] <= current
    BY <1>4
  <2>3. HandlerHomes(k)'
    BY <1>1, <1>5, <2>2 DEF HandlerHomes
  <2> QED
    BY <2>1, <2>3 DEF HandlerFine
<1>8. DOMAIN chan' = Conns /\ chan'[k] = NoState(k) /\ \A x \in Conns \ {k} : chan'[x] = chan[x]
  BY <1>2 DEF TakeState
<1>9. ChannelFine(k) /\ chan'[k] \in Channel
  BY <1>1, <1>2, <1>6, <1>8, TakenFine
<1>10. \A x \in Conns : ChannelFine(x)
  <2>1. ASSUME NEW x \in Conns \ {k} PROVE ChannelFine(x)
    BY <1>1, <1>2, <1>8, SameEvolves DEF ChannelFine
  <2> QED
    BY <1>9, <2>1
<1>11. chan' \in [Conns -> Channel]
  <2>1. chan' = [chan EXCEPT ![k] = NoState(k)] /\ NoState(k) \in Channel
    BY <1>8, <1>9 DEF TakeState
  <2> QED
    BY <1>2, <2>1
<1>12. BaseInv'
  <2>1. TypeOK'
    BY <1>1, <1>5, <1>11 DEF BaseInv, TypeOK, HandlerMoved
  <2>2. QuietQueues
    BY <1>1, <1>2 DEF TypeOK, QuietQueues
  <2>3. StepFine
    BY <1>1, <1>5, <1>7, <1>10, <2>2, ConsumersSame, HandlersFine, ObjectsQuiet
    DEF StepFine, CleanerFine
  <2> QED
    BY <1>1, <2>1, <2>2, <2>3, ConsumersSame, ObjectsQuiet, HomesSame, StepFineBase
<1>13. ASSUME LossInv PROVE LossInv'
  <2> SUFFICES ASSUME NEW m \in Messages, home[m] # 0 /\ home[m] = current
               PROVE  Kept(m)'
    BY <1>1 DEF LossInv
  <2>1. Kept(m)
    BY <1>13 DEF LossInv
  <2>2. Tracked(k, m) => Kept(m)'
    BY <1>4, <1>5, KeptIn
  <2>3. \A x \in Conns \ {k} : RecordsStay(x)
    BY <1>1, <1>8 DEF RecordsStay, Says
  <2>4. LossFine(m)
    BY <1>1, <1>5, <1>6, <2>2, <2>3 DEF LossFine, HandlerMoved
  <2> QED
    BY <2>1, <2>4, LossFineKept
<1> QED
  BY <1>12, <1>13

LEMMA ReleaseStep ==
    ASSUME BaseInv, NEW k \in Conns, Release(k)
    PROVE  BaseInv' /\ (LossInv => LossInv')
<1>1. UNCHANGED <<current, made, loop, cons, byQueue, chan, cleaner, conn, cancels, told, home, settled>>
  BY DEF Release
<1>2. TypeOK /\ handler[k] \in Handler /\ handler[k].pc = "release" /\ HandlerHomes(k) /\ HandlerOf(k)
      /\ handler[k].todo # {}
  BY DEF BaseInv, TypeOK, HomesInv, HandlersInv, Release
<1>3. First(handler[k].todo) \in handler[k].todo
  BY <1>2, FirstIsIn DEF Handler
<1>4. PICK r \in handler[k].todo : r = First(handler[k].todo)
  BY <1>3
<1>5. queue' = Pushed(handler[k].obj, r.msg) /\ handler' = [handler EXCEPT ![k].todo = @ \ {r}]
  BY <1>4 DEF Release
<1>6. HandlerMoved(k) /\ handler'[k].pc = handler[k].pc /\ handler'[k].obj = handler[k].obj
      /\ handler'[k].todo = handler[k].todo \ {r}
  <2> DEFINE D == handler[k].todo \ {r}
             h == [handler[k] EXCEPT !.todo = D]
  <2>1. D \subseteq DeliveryRecord
    BY <1>2 DEF Handler
  <2>2. handler' = [handler EXCEPT ![k] = h]
    BY <1>2, <1>5 DEF TypeOK
  <2> HIDE DEF D
  <2>3. h \in Handler /\ h.pc = handler[k].pc /\ h.obj = handler[k].obj /\ h.todo = D
    BY <1>2, <2>1 DEF Handler
  <2> HIDE DEF h
  <2>4. HandlerMoved(k) /\ handler'[k] = h
    BY <1>2, <2>2, <2>3, HandlerSet
  <2> QED
    BY <2>3, <2>4 DEF D
<1>7. PICK o \in 1..made : o = handler[k].obj
  BY <1>2 DEF HandlerOf
<1>8. r.msg \in Messages /\ home[r.msg] \in 1..o
  <2>1. r.msg \in Messages /\ home[r.msg] # 0 /\ home[r.msg] <= o
    BY <1>2, <1>7 DEF Handler, DeliveryRecord, HandlerHomes
  <2>2. home[r.msg] \in {0} \cup Objects
    BY <1>2, <2>1 DEF TypeOK
  <2> QED
    BY <2>1, <2>2 DEF Objects
<1>9. /\ queue' \in [Objects -> Queue] /\ ObjectsInv'
      /\ \A x \in Objects : LoopFine(x) /\ BufferFine(x)
                            /\ Range(queue[x].buf) \subseteq Range(queue'[x].buf)
      /\ home[r.msg] = current => Kept(r.msg)'
  BY <1>1, <1>5, <1>7, <1>8, PushFine
<1>10. HandlerFine(k)
  BY <1>1, <1>2, <1>6, ConsumersSame, HandlerShrinks
<1>11. BaseInv'
  <2>1. TypeOK'
    BY <1>1, <1>6, <1>9 DEF BaseInv, TypeOK, HandlerMoved
  <2>2. StepFine
    BY <1>1, <1>6, <1>9, <1>10, ConsumersSame, HandlersFine, ChannelsSame DEF StepFine, CleanerFine
  <2> QED
    BY <1>1, <1>9, <2>1, <2>2, ConsumersSame, HomesSame, StepFineBase
<1>12. ASSUME LossInv PROVE LossInv'
  <2> SUFFICES ASSUME NEW m \in Messages, home[m] # 0 /\ home[m] = current
               PROVE  Kept(m)'
    BY <1>1 DEF LossInv
  <2>1. Kept(m)
    BY <1>12 DEF LossInv
  <2>2. Says(handler[k].todo, m) => Kept(m)'
    <3>1. Says(handler[k].todo, m) => r.msg = m \/ Says(handler'[k].todo, m)
      BY <1>6 DEF Says
    <3> QED
      BY <1>9, <3>1, KeptIn
  <2>3. LossFine(m)
    BY <1>1, <1>6, <1>9, <2>2 DEF LossFine, RecordsStay, Says, HandlerMoved
  <2> QED
    BY <2>1, <2>3, LossFineKept
<1> QED
  BY <1>11, <1>12

LEMMA CloseOkStep ==
    ASSUME BaseInv, NEW k \in Conns, CloseOk(k)
    PROVE  BaseInv' /\ (LossInv => LossInv')
<1>1. UNCHANGED <<current, made, queue, loop, cons, byQueue, chan, cleaner, conn, cancels, home, settled>>
  BY DEF CloseOk
<1>2. TypeOK /\ handler[k] \in Handler /\ handler[k].todo = {}
  BY DEF BaseInv, TypeOK, CloseOk
<1>3. HandlerMoved(k) /\ handler'[k].pc = "ready" /\ handler'[k].todo = {}
  <2> DEFINE h == [handler[k] EXCEPT !.pc = "ready", !.obj = 0]
  <2>1. h \in Handler /\ h.pc = "ready" /\ h.todo = {}
    BY <1>2 DEF Handler
  <2>2. handler' = [handler EXCEPT ![k] = h]
    BY <1>2 DEF TypeOK, CloseOk
  <2> HIDE DEF h
  <2> QED
    BY <1>2, <2>1, <2>2, HandlerSet
<1>4. told' \subseteq Consumers /\ \A c \in told' : c \in told \/ cons[c] = "removed"
  BY <1>2 DEF CloseOk, TypeOK, ConsumersOf
<1>5. ConsumersInv' /\ ConsumersOnlyGo /\ \A x \in Conns : NobodyNew(x)
  BY <1>1, <1>4 DEF BaseInv, ConsumersInv, ConsumersOnlyGo, NobodyNew
<1>6. BaseInv'
  <2>1. TypeOK'
    BY <1>1, <1>3, <1>4 DEF BaseInv, TypeOK, HandlerMoved
  <2>2. QuietQueues
    BY <1>1, <1>2 DEF TypeOK, QuietQueues
  <2>3. StepFine
    BY <1>1, <1>3, <1>5, <2>2, ReadyFine, HandlersFine, ObjectsQuiet, ChannelsSame
    DEF StepFine, CleanerFine
  <2> QED
    BY <1>1, <1>5, <2>1, <2>2, <2>3, ObjectsQuiet, HomesSame, StepFineBase
<1>7. ASSUME LossInv PROVE LossInv'
  <2> SUFFICES ASSUME NEW m \in Messages, home[m] # 0 /\ home[m] = current
               PROVE  Kept(m)'
    BY <1>1 DEF LossInv
  <2>1. Kept(m)
    BY <1>7 DEF LossInv
  <2>2. LossFine(m)
    BY <1>1, <1>2, <1>3 DEF LossFine, RecordsStay, Says, HandlerMoved
  <2> QED
    BY <2>1, <2>2, LossFineKept
<1> QED
  BY <1>6, <1>7

-----------------------------------------------------------------------------
(* The end of a connection. *)
LEMMA SocketDiesStep ==
    ASSUME BaseInv, NEW k \in Conns, SocketDies(k)
    PROVE  BaseInv' /\ (LossInv => LossInv')
<1>1. UNCHANGED <<current, made, queue, loop, cons, byQueue, chan, handler, cleaner, cancels, told, home, settled>>
  BY DEF SocketDies
<1>2. TypeOK /\ k \in Mortal /\ conn[k] = "up" /\ CleanerOf(k) /\ CleanerHomes(k)
  BY DEF BaseInv, SocketDies, HandlersInv, HomesInv
<1>3. conn' \in [Conns -> {"up", "dead", "gone"}] /\ conn'[k] = "dead"
      /\ \A x \in Conns \ {k} : conn'[x] = conn[x]
  BY <1>2 DEF SocketDies, TypeOK
<1>4. \A x \in Conns : CleanerFine(x)
  <2>1. CleanerOf(k)' /\ CleanerHomes(k)'
    BY <1>1, <1>2 DEF CleanerOf, CleanerHomes
  <2> QED
    BY <1>1, <1>3, <2>1 DEF CleanerFine
<1>5. BaseInv'
  <2>1. TypeOK'
    BY <1>1, <1>3 DEF BaseInv, TypeOK
  <2>2. QuietQueues
    BY <1>1, <1>2 DEF TypeOK, QuietQueues
  <2>3. \A x \in Conns : HandlerFine(x)
    BY <1>1, ConsumersSame DEF HandlerFine
  <2>4. StepFine
    BY <1>1, <1>4, <2>2, <2>3, ObjectsQuiet, ChannelsSame DEF StepFine
  <2> QED
    BY <1>1, <2>1, <2>2, <2>4, ConsumersSame, ObjectsQuiet, HomesSame, StepFineBase
<1>6. ASSUME LossInv PROVE LossInv'
  <2> SUFFICES ASSUME NEW m \in Messages, home[m] # 0 /\ home[m] = current
               PROVE  Kept(m)'
    BY <1>1 DEF LossInv
  <2>1. Kept(m)
    BY <1>6 DEF LossInv
  <2>2. Tracked(k, m) => Kept(m)'
    <3>1. Tracked(k, m) => Tracked(k, m)'
      BY <1>1, <1>3 DEF Tracked
    <3> QED
      BY <3>1, KeptIn
  <2>3. LossFine(m)
    BY <1>1, <1>2, <1>3, <2>2 DEF LossFine, RecordsStay, Says
  <2> QED
    BY <2>1, <2>3, LossFineKept
<1> QED
  BY <1>5, <1>6

LEMMA CleanerSet ==
    ASSUME TypeOK, NEW k \in Conns, NEW c \in Cleaner, cleaner' = [cleaner EXCEPT ![k] = c]
    PROVE  /\ cleaner' \in [Conns -> Cleaner] /\ cleaner'[k] = c
           /\ \A x \in Conns \ {k} : cleaner'[x] = cleaner[x]
BY DEF TypeOK

LEMMA CleanupConnectionStep ==
    ASSUME BaseInv, NEW k \in Conns, CleanupConnection(k)
    PROVE  BaseInv' /\ (LossInv => LossInv')
<1>1. UNCHANGED <<current, made, loop, cancels, told, home, settled>>
  BY DEF CleanupConnection
<1>2. TypeOK /\ handler[k] \in Handler /\ cleaner[k] \in Cleaner /\ conn[k] = "dead" /\ CleanerOf(k)
      /\ chan \in [Conns -> Channel]
  BY DEF BaseInv, TypeOK, HandlersInv, CleanupConnection
<1>3. k \in Mortal /\ cleaner[k].todo = {}
  BY <1>2 DEF CleanerOf
<1>4. PICK C \in SUBSET Consumers : C = Registered(k)
  BY DEF Registered, ConsumersOf
<1>5. /\ CancelLocked(C) /\ chan' = [Detached(C) EXCEPT ![k] = NoState(k)]
      /\ \A x \in C : cons[x] = "active"
      /\ \A x \in ConsumersOf(k) : x \notin C => cons[x] # "active"
  BY <1>4 DEF CleanupConnection, Registered
<1>6. /\ cons' \in [Consumers -> {"new", "active", "removed"}] /\ byQueue' \in ConsumerList
      /\ QuietQueues /\ ConsumersOnlyGo
      /\ \A x \in Consumers : cons'[x] = IF x \in C THEN "removed" ELSE cons[x]
      /\ \A x \in Conns : NobodyNew(x)
      /\ \A x \in Consumers : byQueue'[x] > 0 <=> cons'[x] = "active"
  BY <1>5, CancelFields
<1>7. \A x \in ConsumersOf(k) : cons'[x] # "active"
  BY <1>5, <1>6 DEF ConsumersOf
<1>8. PICK T : T = IF current = 0 THEN {} ELSE FetchUnacked(chan[k].st)
  OBVIOUS
<1>9. /\ T \subseteq DeliveryRecord /\ (T # {} => current \in 1..made)
      /\ \A r \in T : home[r.msg] \in 1..current
      /\ \A m \in Messages : home[m] # 0 /\ home[m] = current /\ Tracked(k, m) => Says(T, m)
  BY <1>8, FetchedFields
<1>10. /\ cleaner' \in [Conns -> Cleaner] /\ cleaner'[k].obj = current /\ cleaner'[k].todo = T
       /\ \A x \in Conns \ {k} : cleaner'[x] = cleaner[x]
  <2> DEFINE c == [cleaner[k] EXCEPT !.obj = current, !.todo = T]
  <2>1. current \in {0} \cup Objects
    BY <1>2 DEF TypeOK
  <2>2. c \in Cleaner /\ c.obj = current /\ c.todo = T
    BY <1>2, <1>9, <2>1 DEF Cleaner
  <2>3. cleaner' = [cleaner EXCEPT ![k] = c]
    BY <1>2, <1>8 DEF TypeOK, CleanupConnection
  <2> HIDE DEF c
  <2> QED
    BY <1>2, <2>2, <2>3, CleanerSet
<1>11. conn' \in [Conns -> {"up", "dead", "gone"}] /\ conn'[k] = "gone"
       /\ \A x \in Conns \ {k} : conn'[x] = conn[x]
  BY <1>2 DEF CleanupConnection, TypeOK
<1>12. \A x \in Conns : CleanerFine(x)
  <2>1. CleanerOf(k)' /\ CleanerHomes(k)'
    BY <1>1, <1>3, <1>9, <1>10, <1>11 DEF CleanerOf, CleanerHomes
  <2> QED
    BY <1>10, <1>11, <2>1 DEF CleanerFine
<1>13. HandlerMoved(k) /\ handler'[k].pc = handler[k].pc /\ handler'[k].obj = handler[k].obj
       /\ handler'[k].todo = handler[k].todo
  <2> DEFINE l == "late" \in Ops[k]
             h == [handler[k] EXCEPT !.late = l]
  <2>1. l \in BOOLEAN
    OBVIOUS
  <2> HIDE DEF l
  <2>2. h \in Handler /\ h.pc = handler[k].pc /\ h.obj = handler[k].obj /\ h.todo = handler[k].todo
    BY <1>2, <2>1 DEF Handler
  <2>3. handler' = [handler EXCEPT ![k] = h]
    BY <1>2 DEF TypeOK, CleanupConnection, l
  <2> HIDE DEF h
  <2> QED
    BY <1>2, <2>2, <2>3, HandlerSet
<1>14. \A x \in Conns : HandlerFine(x)
  BY <1>1, <1>6, <1>13, HandlerShrinks, HandlersFine
<1>15. DOMAIN Detached(C) = Conns
  BY DEF Detached
<1>16. DOMAIN chan' = Conns /\ chan'[k] = NoState(k) /\ \A x \in Conns \ {k} : chan'[x] = Detached(C)[x]
  BY <1>5, <1>15
<1>17. ChannelFine(k) /\ chan'[k] \in Channel
  BY <1>2, <1>7, <1>16, TakenFine
<1>18. ASSUME NEW x \in Conns \ {k}
       PROVE  /\ ChannelFine(x) /\ chan'[x] \in Channel
              /\ \A r \in chan[x].st.unacked : Says(chan'[x].st.unacked, r.msg)
  <2>1. /\ chan'[x] \in Channel /\ chan'[x].open = chan[x].open /\ chan'[x].epoch = chan[x].epoch
        /\ Derives(chan[x].st, chan'[x].st)
        /\ \A r \in chan[x].st.unacked : Says(chan'[x].st.unacked, r.msg)
    BY <1>2, <1>16, DetachedFields
  <2>2. Derived(x)
    BY <2>1 DEF Derived, SameState
  <2> QED
    BY <1>1, <1>2, <2>1, <2>2, DerivedEvolves DEF ChannelFine
<1>19. chan' \in [Conns -> Channel]
  <2>1. chan' = [x \in Conns |-> chan'[x]]
    BY <1>5, <1>15
  <2>2. \A x \in Conns : chan'[x] \in Channel
    BY <1>17, <1>18
  <2> QED
    BY <2>1, <2>2
<1>20. BaseInv'
  <2>1. TypeOK'
    BY <1>1, <1>6, <1>10, <1>11, <1>13, <1>19 DEF BaseInv, TypeOK, HandlerMoved, QuietQueues
  <2>2. ConsumersInv'
    BY <1>1, <1>6 DEF BaseInv, ConsumersInv, TypeOK
  <2>3. \A x \in Conns : ChannelFine(x)
    BY <1>17, <1>18
  <2>4. StepFine
    BY <1>1, <1>6, <1>12, <1>14, <2>3, ObjectsQuiet DEF StepFine
  <2> QED
    BY <1>1, <1>6, <2>1, <2>2, <2>4, ObjectsQuiet, HomesSame, StepFineBase
<1>21. ASSUME LossInv PROVE LossInv'
  <2> SUFFICES ASSUME NEW m \in Messages, home[m] # 0 /\ home[m] = current
               PROVE  Kept(m)'
    BY <1>1 DEF LossInv
  <2>1. Kept(m)
    BY <1>21 DEF LossInv
  <2>2. Tracked(k, m) => Kept(m)'
    BY <1>9, <1>10, KeptIn
  <2>3. \A x \in Conns \ {k} : RecordsStay(x)
    BY <1>11, <1>18 DEF RecordsStay
  <2>4. LossFine(m)
    BY <1>1, <1>3, <1>6, <1>10, <1>11, <1>13, <2>2, <2>3 DEF LossFine, HandlerMoved, QuietQueues
  <2> QED
    BY <2>1, <2>4, LossFineKept
<1> QED
  BY <1>20, <1>21

LEMMA CleanerRequeueStep ==
    ASSUME BaseInv, NEW k \in Conns, CleanerRequeue(k)
    PROVE  BaseInv' /\ (LossInv => LossInv')
<1>1. UNCHANGED <<current, made, loop, cons, byQueue, chan, handler, conn, cancels, told, home, settled>>
  BY DEF CleanerRequeue
<1>2. TypeOK /\ cleaner[k] \in Cleaner /\ cleaner[k].todo # {} /\ CleanerOf(k) /\ CleanerHomes(k)
  BY DEF BaseInv, TypeOK, HomesInv, HandlersInv, CleanerRequeue
<1>3. First(cleaner[k].todo) \in cleaner[k].todo
  BY <1>2, FirstIsIn DEF Cleaner
<1>4. PICK r \in cleaner[k].todo : r = First(cleaner[k].todo)
  BY <1>3
<1>5. queue' = Pushed(cleaner[k].obj, r.msg) /\ cleaner' = [cleaner EXCEPT ![k].todo = @ \ {r}]
  BY <1>4 DEF CleanerRequeue
<1>6. /\ cleaner' \in [Conns -> Cleaner] /\ cleaner'[k].obj = cleaner[k].obj
      /\ cleaner'[k].todo = cleaner[k].todo \ {r}
      /\ \A x \in Conns \ {k} : cleaner'[x] = cleaner[x]
  <2> DEFINE D == cleaner[k].todo \ {r}
             c == [cleaner[k] EXCEPT !.todo = D]
  <2>1. D \subseteq DeliveryRecord
    BY <1>2 DEF Cleaner
  <2>2. cleaner' = [cleaner EXCEPT ![k] = c]
    BY <1>2, <1>5 DEF TypeOK
  <2> HIDE DEF D
  <2>3. c \in Cleaner /\ c.obj = cleaner[k].obj /\ c.todo = D
    BY <1>2, <2>1 DEF Cleaner
  <2> HIDE DEF c
  <2> QED
    BY <1>2, <2>2, <2>3, CleanerSet DEF D
<1>7. PICK o \in 1..made : o = cleaner[k].obj
  BY <1>2 DEF CleanerOf
<1>8. r.msg \in Messages /\ home[r.msg] \in 1..o
  BY <1>2, <1>7 DEF Cleaner, DeliveryRecord, CleanerHomes
<1>9. /\ queue' \in [Objects -> Queue] /\ ObjectsInv'
      /\ \A x \in Objects : LoopFine(x) /\ BufferFine(x)
                            /\ Range(queue[x].buf) \subseteq Range(queue'[x].buf)
      /\ home[r.msg] = current => Kept(r.msg)'
  BY <1>1, <1>5, <1>7, <1>8, PushFine
<1>10. \A x \in Conns : CleanerFine(x)
  <2>1. CleanerOf(k)' /\ CleanerHomes(k)'
    BY <1>1, <1>2, <1>6 DEF CleanerOf, CleanerHomes
  <2> QED
    BY <1>1, <1>6, <2>1 DEF CleanerFine
<1>11. BaseInv'
  <2>1. TypeOK'
    BY <1>1, <1>6, <1>9 DEF BaseInv, TypeOK
  <2>2. \A x \in Conns : HandlerFine(x)
    BY <1>1, ConsumersSame DEF HandlerFine
  <2>3. StepFine
    BY <1>1, <1>9, <1>10, <2>2, ChannelsSame DEF StepFine
  <2> QED
    BY <1>1, <1>9, <2>1, <2>3, ConsumersSame, HomesSame, StepFineBase
<1>12. ASSUME LossInv PROVE LossInv'
  <2> SUFFICES ASSUME NEW m \in Messages, home[m] # 0 /\ home[m] = current
               PROVE  Kept(m)'
    BY <1>1 DEF LossInv
  <2>1. Kept(m)
    BY <1>12 DEF LossInv
  <2>2. Says(cleaner[k].todo, m) => Kept(m)'
    <3>1. Says(cleaner[k].todo, m) => r.msg = m \/ Says(cleaner'[k].todo, m)
      BY <1>6 DEF Says
    <3> QED
      BY <1>9, <3>1, KeptIn
  <2>3. LossFine(m)
    BY <1>1, <1>6, <1>9, <2>2 DEF LossFine, RecordsStay, Says
  <2> QED
    BY <2>1, <2>3, LossFineKept
<1> QED
  BY <1>11, <1>12

-----------------------------------------------------------------------------
(* The invariants hold initially and in every step. *)
LEMMA InitBase == Init => BaseInv /\ LossInv
<1> SUFFICES ASSUME Init PROVE BaseInv /\ LossInv
  OBVIOUS
<1>1. MaxQueues \in Nat /\ Prefetch \in Nat /\ 1 \in Objects
  BY DeliveryAssumption DEF Objects
<1>2. PICK s \in ChannelDeliveryState : s = [NewChannelState EXCEPT !.nextPf = Prefetch]
  BY <1>1, NewStateType DEF ChannelDeliveryState
<1>3. s.unacked = {}
  BY <1>2 DEF NewChannelState
<1> DEFINE b == Prefetch > 0
<1>4. b \in BOOLEAN
  BY <1>1
<1> HIDE DEF b
<1> DEFINE e == [open |-> b, epoch |-> 0, st |-> s]
<1>5. e \in Channel
  BY <1>4 DEF Channel
<1>6. \A k \in Conns : chan[k] = e
  BY <1>2 DEF Init, b
<1>7. chan \in [Conns -> Channel]
  BY <1>2, <1>5 DEF Init, b
<1>8. Resting("off") \in Loop /\ Resting("off").pc = "off"
      /\ Members(Resting("off").list) = {} /\ Resting("off").left = {}
  BY RestingType DEF LoopPC
<1>9. NewQueue \in Queue /\ NewQueue.buf = <<>> /\ ~NewQueue.stopped
  BY DEF NewQueue, Queue
<1>10. Nobody \in ConsumerList /\ \A c \in Consumers : Nobody[c] = 0
  BY DEF Nobody, ConsumerList
<1>11. TypeOK
  <2>1. handler \in [Conns -> Handler] /\ cleaner \in [Conns -> Cleaner]
    BY DEF Init, Handler, Cleaner
  <2> QED
    BY <1>1, <1>7, <1>8, <1>9, <1>10, <2>1 DEF Init, TypeOK
<1>12. ObjectsInv
  BY <1>1, <1>8, <1>9 DEF Init, ObjectsInv, Objects
<1>13. LoopsInv /\ DeliveriesInv
  BY <1>8 DEF Init, LoopsInv, LoopOf, DeliveriesInv, DeliveryOf, Aiming
<1>14. ConsumersInv
  BY <1>10 DEF Init, ConsumersInv
<1>15. HandlersInv
  BY DEF Init, HandlersInv, HandlerOf, CleanerOf
<1>16. HomesInv
  <2>1. \A o \in Objects : BufferHomes(o) /\ LoopHome(o)
    BY <1>8, <1>9 DEF Init, BufferHomes, LoopHome, Idling, Range
  <2> QED
    BY <2>1 DEF Init, HomesInv, HandlerHomes, CleanerHomes
<1>17. RecordsInv
  BY <1>3, <1>6 DEF RecordsInv, RecordsOf
<1>18. LossInv
  BY DEF Init, LossInv
<1> QED
  BY <1>11, <1>12, <1>13, <1>14, <1>15, <1>16, <1>17, <1>18 DEF BaseInv

LEMMA LoopStepKeeps ==
    ASSUME BaseInv, NEW o \in Objects, LoopStep(o)
    PROVE  BaseInv' /\ (LossInv => LossInv')
<1>1. CASE MovesOnly(o)
  BY <1>1, MovesOnlyBase, MovesOnlyLoss
<1>2. CASE LoopTop(o) \/ LoopWoken(o) \/ Lookup(o) \/ Round(o)
  BY <1>1, <1>2, LoopTopMoves, LoopWokenMoves, LookupMoves, RoundMoves
<1>3. CASE Try(o) \/ WaitThrottled(o) \/ LockSend(o) \/ Failed(o)
  BY <1>1, <1>3, TryMoves, WaitMoves, LockSendMoves, FailedMoves
<1>4. CASE TakeMessage(o) \/ PushBack(o) \/ CreateState(o) \/ Send(o)
  BY <1>4, TakeMessageBase, TakeMessageLoss, PushBackBase, PushBackLoss, CreateStateBase,
     CreateStateLoss, SendBase, SendLoss
<1>5. CASE Track(o)
  <2>1. CASE cons[loop[o].at] = "active"
    BY <1>5, <2>1, TrackBase, TrackLoss
  <2>2. CASE cons[loop[o].at] # "active"
    BY <1>1, <1>5, <2>2, TrackFailMoves
  <2> QED
    BY <2>1, <2>2
<1>6. CASE Untrack(o) \/ RemoveFailedConsumer(o)
  BY <1>6, UntrackBase, RemoveFailedBase
<1> QED
  BY <1>2, <1>3, <1>4, <1>5, <1>6 DEF LoopStep

LEMMA MethodKeeps ==
    ASSUME BaseInv, NEW k \in Conns, Method(k)
    PROVE  BaseInv' /\ (LossInv => LossInv')
<1>1. CASE \E m \in Messages : Publish(k, m)
  BY <1>1, PublishStep
<1>2. CASE Declare(k) \/ Delete(k)
  BY <1>2, DeclareStep, DeleteStep
<1>3. CASE Recover(k) \/ Get(k) \/ Close(k)
  BY <1>3, RecoverStep, GetStep, CloseStep
<1>4. CASE \E c \in Consumers : Consume(k, c) \/ Cancel(k, c)
  BY <1>4, ConsumeStep, CancelStep
<1>5. CASE \E t \in TagsOn(k), multiple \in BOOLEAN : Ack(k, t, multiple) \/ Nack(k, t, multiple)
  BY <1>5, AckStep, NackStep
<1> QED
  BY <1>1, <1>2, <1>3, <1>4, <1>5 DEF Method

(* A connection that uses basic.get does not lose its socket. *)
GetsLive == \A k \in Mortal : "get" \notin Ops[k]

LEMMA HandlerStepKeeps ==
    ASSUME BaseInv, NEW k \in Conns, HandlerStep(k)
    PROVE  BaseInv' /\ (GetsLive /\ LossInv => LossInv')
<1>1. CASE StartLoop(k) \/ RequeueOne(k) \/ RequeueDone(k)
  BY <1>1, StartLoopStep, RequeueOneStep, RequeueDoneStep
<1>2. CASE TrackGot(k)
  BY <1>2, TrackGotStep DEF GetsLive
<1>3. CASE TakeState(k) \/ Release(k) \/ CloseOk(k)
  BY <1>3, TakeStateStep, ReleaseStep, CloseOkStep
<1> QED
  BY <1>1, <1>2, <1>3 DEF HandlerStep

LEMMA StutterKeeps ==
    ASSUME BaseInv, UNCHANGED vars
    PROVE  BaseInv' /\ (LossInv => LossInv')
<1>1. /\ TypeOK' /\ ObjectsInv' /\ LoopsInv' /\ ConsumersInv' /\ HandlersInv'
  BY DEF vars, BaseInv, TypeOK, ObjectsInv, LoopsInv, LoopOf, ConsumersInv, HandlersInv, HandlerOf,
         CleanerOf
<1>2. HomesInv' /\ RecordsInv'
  BY DEF vars, BaseInv, HomesInv, BufferHomes, LoopHome, HandlerHomes, CleanerHomes, RecordsInv,
         RecordsOf
<1>3. DeliveriesInv'
  BY DEF vars, BaseInv, DeliveriesInv, DeliveryOf, HoldsState, OwnTag, Trying
<1>4. LossInv => LossInv'
  BY DEF vars, LossInv, Kept, Carried, Tracked
<1> QED
  BY <1>1, <1>2, <1>3, <1>4 DEF BaseInv

LEMMA NextKeeps ==
    ASSUME BaseInv, [Next]_vars
    PROVE  BaseInv' /\ (GetsLive /\ LossInv => LossInv')
<1>1. ASSUME NEW o \in Objects, LoopStep(o)
      PROVE  BaseInv' /\ (GetsLive /\ LossInv => LossInv')
  BY <1>1, LoopStepKeeps
<1>2. ASSUME NEW k \in Conns, Method(k)
      PROVE  BaseInv' /\ (GetsLive /\ LossInv => LossInv')
  BY <1>2, MethodKeeps
<1>3. ASSUME NEW k \in Conns, HandlerStep(k)
      PROVE  BaseInv' /\ (GetsLive /\ LossInv => LossInv')
  BY <1>3, HandlerStepKeeps
<1>4. ASSUME NEW k \in Conns, SocketDies(k) \/ CleanupConnection(k) \/ CleanerRequeue(k)
      PROVE  BaseInv' /\ (GetsLive /\ LossInv => LossInv')
  BY <1>4, SocketDiesStep, CleanupConnectionStep, CleanerRequeueStep
<1>5. ASSUME NEW c \in Consumers, NotifyCancel(c)
      PROVE  BaseInv' /\ (GetsLive /\ LossInv => LossInv')
  BY <1>5, NotifyCancelStep
<1>6. CASE UNCHANGED vars
  BY <1>6, StutterKeeps
<1> QED
  BY <1>1, <1>2, <1>3, <1>4, <1>5, <1>6 DEF Next

LEMMA AlwaysBase == Spec => []BaseInv
<1>1. Init => BaseInv
  BY InitBase
<1>2. BaseInv /\ [Next]_vars => BaseInv'
  BY NextKeeps
<1> QED
  BY <1>1, <1>2, PTL DEF Spec

(***************************************************************************)
(* Whatever the clients do and whenever sockets die, the state of queues,  *)
(* loops, consumers, channels and goroutines keeps its type: a loop, a     *)
(* handler or a cleanup never uses a queue or a consumer it has not got.   *)
(***************************************************************************)
THEOREM DeliveryTyped == Spec => []TypeOK
<1>1. BaseInv => TypeOK
  BY DEF BaseInv
<1> QED
  BY <1>1, AlwaysBase, PTL

(***************************************************************************)
(* A message of a queue that exists is never lost, by any interleaving of  *)
(* delivery loops, acks, nacks, recovers, cancels, closes, deletions, and  *)
(* of the cleanups of connections whose sockets die, as long as no         *)
(* connection that dies has used basic.get (which holds the message in     *)
(* nothing but the handler between the pop and the tracking).              *)
(***************************************************************************)
THEOREM NothingLost == GetsLive => (Spec => []NoLoss)
<1> SUFFICES ASSUME GetsLive PROVE Spec => []NoLoss
  OBVIOUS
<1>1. Init => BaseInv /\ LossInv
  BY InitBase
<1>2. BaseInv /\ LossInv /\ [Next]_vars => BaseInv' /\ LossInv'
  BY NextKeeps
<1>3. BaseInv /\ LossInv => NoLoss
  <2> SUFFICES ASSUME BaseInv, LossInv, NEW m \in Messages, home[m] # 0, home[m] = current
               PROVE  m \in settled \/ Recoverable(m)
    BY DEF NoLoss
  <2>1. Kept(m)
    BY DEF LossInv
  <2> QED
    BY <2>1 DEF Kept, Carried, Tracked, Idling, Recoverable
<1> QED
  BY <1>1, <1>2, <1>3, PTL DEF Spec

-----------------------------------------------------------------------------
(***************************************************************************)
(* Deliveries to consumers whose client was told that they are gone.       *)
(*                                                                         *)
(* channel.close waits for the deliveries of the consumers that it removes *)
(* itself, so close-ok can be believed of a channel whose consumers leave  *)
(* in no other way while the connection is up: they are not cancelled, and *)
(* the queue is not deleted.                                               *)
(***************************************************************************)
CloseWaitsForAll ==
    \A k \in Conns : "close" \in Ops[k] =>
        "cancel" \notin Ops[k] /\ \A x \in Conns : "delete" \notin Ops[x]

Sending == {"create", "track", "send"}
Failing == {"untrack", "failed", "remove"}

(* A removed consumer has no delivery under way, or it is waited for. *)
Awaited(k, c) == handler[k].pc = "barrier" /\ c \in handler[k].wait
ClosesQuietly(k) ==
    "close" \in Ops[k] /\ conn[k] = "up" =>
        \A c \in ConsumersOf(k) : cons[c] = "removed" => Awaited(k, c) \/ ~SendMuHeld(c)
(* A delivery fails to a consumer that was removed or cannot be reached. *)
FailsRightly(o) ==
    loop[o].pc \in Failing => cons[loop[o].at] = "removed" \/ conn[ConnOf[loop[o].at]] # "up"

ToldInv ==
    /\ \A c \in told : ~SendMuHeld(c)
    /\ \A k \in Conns : ClosesQuietly(k)
    /\ \A o \in Objects : FailsRightly(o)

(* A step keeps ToldInv when it does in each of its parts. *)
HeldAsBefore == \A c \in Consumers : SendMuHeld(c)' => SendMuHeld(c) \/ cons'[c] = "active"
CloseFine(k) ==
    "close" \in Ops[k] /\ conn'[k] = "up" =>
        /\ conn[k] = "up"
        /\ \A c \in ConsumersOf(k) : cons'[c] = "removed" =>
              \/ Awaited(k, c)' \/ ~SendMuHeld(c)
              \/ cons[c] = "removed" /\ ~Awaited(k, c)
ToldStep ==
    /\ HeldAsBefore /\ ConsumersOnlyGo
    /\ \A c \in told' : c \in told \/ ~SendMuHeld(c)
    /\ \A k \in Conns : CloseFine(k) /\ (conn'[k] = "up" => conn[k] = "up")
    /\ \A o \in Objects : loop'[o] = loop[o] \/ FailsRightly(o)'

LEMMA ToldKept ==
    ASSUME BaseInv, BaseInv', ToldInv, ToldStep
    PROVE  ToldInv'
<1>1. told' \subseteq Consumers /\ \A c \in told' : cons'[c] = "removed"
  BY DEF BaseInv, ConsumersInv, TypeOK
<1>2. \A c \in told' : ~SendMuHeld(c)
  BY DEF ToldInv, ToldStep
<1>3. \A c \in told' : ~SendMuHeld(c)'
  BY <1>1, <1>2 DEF ToldStep, HeldAsBefore
<1>4. ASSUME NEW k \in Conns PROVE ClosesQuietly(k)'
  <2> SUFFICES ASSUME "close" \in Ops[k], conn'[k] = "up", NEW c \in ConsumersOf(k),
                      cons'[c] = "removed"
               PROVE  Awaited(k, c)' \/ ~SendMuHeld(c)'
    BY DEF ClosesQuietly, Awaited
  <2>1. c \in Consumers
    BY DEF ConsumersOf
  <2>2. SendMuHeld(c)' => SendMuHeld(c)
    BY <2>1 DEF ToldStep, HeldAsBefore
  <2>3. conn[k] = "up" /\ (Awaited(k, c)' \/ ~SendMuHeld(c) \/ (cons[c] = "removed" /\ ~Awaited(k, c)))
    BY DEF ToldStep, CloseFine
  <2>4. cons[c] = "removed" => Awaited(k, c) \/ ~SendMuHeld(c)
    BY <2>3 DEF ToldInv, ClosesQuietly
  <2> QED
    BY <2>2, <2>3, <2>4
<1>5. ASSUME NEW o \in Objects PROVE FailsRightly(o)'
  <2> SUFFICES ASSUME loop'[o] = loop[o], loop[o].pc \in Failing PROVE FailsRightly(o)'
    BY DEF ToldStep, FailsRightly
  <2>1. loop[o].at \in Consumers /\ FailsRightly(o)
    BY DEF BaseInv, LoopsInv, LoopOf, Aiming, Failing, ToldInv
  <2>2. ConnOf[loop[o].at] \in Conns
    BY <2>1, DeliveryAssumption
  <2>3. cons[loop[o].at] = "removed" => cons'[loop[o].at] = "removed"
    <3>1. cons'[loop[o].at] \in {"new", "active", "removed"}
      BY <2>1 DEF BaseInv, TypeOK
    <3> QED
      BY <2>1, <3>1 DEF ToldStep, ConsumersOnlyGo
  <2> QED
    BY <2>1, <2>2, <2>3 DEF ToldStep, FailsRightly
<1> QED
  BY <1>3, <1>4, <1>5 DEF ToldInv

(* A step of a loop alone, which ends no consumer on a connection that is  *)
(* up.                                                                     *)
LoopTells(o) ==
    /\ UNCHANGED <<handler, told, conn>> /\ LoopMoved(o)
    /\ ConsumersOnlyGo
    /\ \A k \in Conns : conn[k] = "up" =>
          \A c \in ConsumersOf(k) : cons'[c] = "removed" => cons[c] = "removed"
    /\ loop'[o].pc \in Sending =>
          \/ loop[o].pc \in Sending /\ loop'[o].at = loop[o].at
          \/ cons'[loop'[o].at] = "active"
    /\ FailsRightly(o)'

LEMMA CloseSame ==
    ASSUME NEW k \in Conns, handler'[k] = handler[k],
           conn'[k] = "up" => conn[k] = "up",
           conn'[k] = "up" => \A c \in ConsumersOf(k) : cons'[c] = "removed" => cons[c] = "removed"
    PROVE  CloseFine(k)
BY DEF CloseFine, Awaited

LEMMA LoopTold ==
    ASSUME BaseInv, NEW o \in Objects, LoopTells(o)
    PROVE  ToldStep
<1>1. HeldAsBefore
  <2> SUFFICES ASSUME NEW c \in Consumers, NEW x \in Objects, loop'[x].pc \in Sending, loop'[x].at = c,
                      cons'[c] # "active"
               PROVE  SendMuHeld(c)
    BY DEF HeldAsBefore, SendMuHeld, Trying, Sending
  <2>1. CASE x = o
    BY <2>1 DEF LoopTells, SendMuHeld, Trying, Sending
  <2>2. CASE x # o
    BY <2>2 DEF LoopTells, LoopMoved, SendMuHeld, Trying, Sending
  <2> QED
    BY <2>1, <2>2
<1>2. \A k \in Conns : CloseFine(k)
  BY CloseSame DEF LoopTells
<1> QED
  BY <1>1, <1>2 DEF LoopTells, ToldStep, LoopMoved

LEMMA SameOnlyGo ==
    ASSUME cons' = cons
    PROVE  ConsumersOnlyGo
BY DEF ConsumersOnlyGo

(* The steps that come neither to a delivery nor from a failed one. *)
LEMMA LoopElsewhere ==
    ASSUME BaseInv, NEW o \in Objects,
           LoopTop(o) \/ LoopWoken(o) \/ TakeMessage(o) \/ Lookup(o) \/ Round(o) \/ Try(o)
             \/ WaitThrottled(o) \/ PushBack(o)
    PROVE  LoopMoved(o) /\ loop'[o].pc \notin Sending \cup Failing
<1>1. TypeOK /\ loop \in [Objects -> Loop] /\ loop[o] \in Loop
  BY DEF BaseInv, TypeOK
<1>2. CASE LoopTop(o)
  <2>1. PICK pc \in {"exited", "idle", "select"} : loop' = [loop EXCEPT ![o] = Resting(pc)]
    BY <1>2 DEF LoopTop
  <2>2. pc \in LoopPC
    BY DEF LoopPC
  <2> QED
    BY <1>1, <1>2, <2>1, <2>2, LoopTopMoves, RestingType DEF MovesOnly, Sending, Failing
<1>3. ASSUME NEW pc \in {"top", "wait", "round", "refresh", "push"}, Goto(o, pc)
      PROVE  LoopMoved(o) /\ loop'[o].pc \notin Sending \cup Failing
  <2>1. pc \in LoopPC
    BY DEF LoopPC
  <2> QED
    BY <1>1, <1>3, <2>1, GotoFields DEF Sending, Failing
<1>4. CASE LoopWoken(o) \/ WaitThrottled(o) \/ PushBack(o)
  BY <1>3, <1>4 DEF LoopWoken, WaitThrottled, PushBack
<1>5. CASE TakeMessage(o)
  BY <1>5, TakeMessageFields DEF Sending, Failing
<1>6. CASE Lookup(o)
  <2> DEFINE list == ActiveConsumers
  <2>1. PICK pc \in {"push", "round"} : loop' = [loop EXCEPT ![o].list = list, ![o].pc = pc]
    BY <1>6 DEF Lookup
  <2> HIDE DEF list
  <2>2. loop'[o].pc = pc
    BY <1>1, <2>1 DEF Loop
  <2> QED
    BY <1>6, <2>2, LookupMoves DEF MovesOnly, Sending, Failing
<1>7. CASE Round(o)
  <2> DEFINE left == Members(loop[o].list)
             n == loop[o].rounds + 1
  <2>1. \/ loop' = [loop EXCEPT ![o].pc = "push"]
        \/ loop' = [loop EXCEPT ![o].pc = "try", ![o].left = left, ![o].rounds = n]
    BY <1>7 DEF Round
  <2> HIDE DEF left, n
  <2>2. loop'[o].pc \in {"push", "try"}
    BY <1>1, <2>1 DEF Loop
  <2> QED
    BY <1>7, <2>2, RoundMoves DEF MovesOnly, Sending, Failing
<1>8. CASE Try(o)
  <2>1. CASE loop[o].left = {}
    BY <1>3, <1>8, <2>1 DEF Try
  <2>2. CASE loop[o].left # {}
    <3> DEFINE c == Earliest(loop[o].list, loop[o].left)
               left == loop[o].left \ {c}
    <3>1. PICK pc \in {"try", "lock"} : loop' = [loop EXCEPT ![o].pc = pc, ![o].at = c, ![o].left = left]
      BY <1>8, <2>2 DEF Try
    <3> HIDE DEF c, left
    <3>2. loop'[o].pc = pc
      BY <1>1, <3>1 DEF Loop
    <3> QED
      BY <1>8, <3>2, TryMoves DEF MovesOnly, Sending, Failing
  <2> QED
    BY <2>1, <2>2
<1> QED
  BY <1>2, <1>4, <1>5, <1>6, <1>7, <1>8

LEMMA LoopToldStep ==
    ASSUME BaseInv, ToldInv, NEW o \in Objects, LoopStep(o)
    PROVE  ToldStep
<1>1. TypeOK /\ loop[o] \in Loop /\ LoopOf(loop[o]) /\ cons \in [Consumers -> {"new", "active", "removed"}]
  BY DEF BaseInv, TypeOK, LoopsInv
<1>2. CASE LoopTop(o) \/ LoopWoken(o) \/ TakeMessage(o) \/ Lookup(o) \/ Round(o) \/ Try(o)
             \/ WaitThrottled(o) \/ PushBack(o)
  <2>1. LoopMoved(o) /\ loop'[o].pc \notin Sending \cup Failing
    BY <1>2, LoopElsewhere
  <2>2. UNCHANGED <<handler, told, conn, cons>>
    BY <1>2 DEF LoopTop, LoopWoken, TakeMessage, Lookup, Round, Try, WaitThrottled, PushBack, LoopOnly
  <2>3. LoopTells(o)
    BY <2>1, <2>2, SameOnlyGo DEF LoopTells, FailsRightly
  <2> QED
    BY <2>3, LoopTold
<1>3. CASE LockSend(o)
  <2>1. UNCHANGED <<handler, told, conn, cons>> /\ loop[o].pc = "lock"
    BY <1>3 DEF LockSend, LoopOnly
  <2>2. PICK pc \in {"create", "failed"} : Goto(o, pc) /\ (pc = "create" <=> cons[loop[o].at] = "active")
    BY <1>3 DEF LockSend, Trying
  <2>3. pc \in LoopPC
    BY DEF LoopPC
  <2>4. LoopMoved(o) /\ loop'[o].pc = pc /\ loop'[o].at = loop[o].at
    BY <1>1, <2>2, <2>3, GotoFields
  <2>5. cons[loop[o].at] \in {"active", "removed"}
    BY <1>1, <2>1 DEF LoopOf, Aiming
  <2>6. LoopTells(o)
    BY <2>1, <2>2, <2>4, <2>5, SameOnlyGo DEF LoopTells, FailsRightly, Sending, Failing
  <2> QED
    BY <2>6, LoopTold
<1>4. CASE CreateState(o)
  <2>1. UNCHANGED <<handler, told, conn, cons>>
    BY <1>4 DEF CreateState
  <2>2. LoopMoved(o) /\ loop[o].pc = "create" /\ loop'[o].pc = "track" /\ loop'[o].at = loop[o].at
    BY <1>4, CreateStateFields
  <2>3. LoopTells(o)
    BY <2>1, <2>2, SameOnlyGo DEF LoopTells, FailsRightly, Sending, Failing
  <2> QED
    BY <2>3, LoopTold
<1>5. CASE Track(o)
  <2>1. UNCHANGED <<handler, told, conn, cons>> /\ loop[o].pc = "track"
    BY <1>5 DEF Track
  <2>2. LoopMoved(o) /\ loop'[o].at = loop[o].at
        /\ (loop'[o].pc = "send" \/ (loop'[o].pc = "failed" /\ cons[loop[o].at] # "active"))
    <3>1. CASE cons[loop[o].at] = "active"
      <4> DEFINE n == chan[ConnOf[loop[o].at]].st.last + 1
                 l == [loop[o] EXCEPT !.pc = "send", !.tag = n]
      <4>1. loop' = [loop EXCEPT ![o] = l]
        BY <1>1, <1>5, <3>1 DEF Track, Trying, TypeOK
      <4> HIDE DEF n
      <4>2. l.pc = "send" /\ l.at = loop[o].at
        BY <1>1 DEF Loop
      <4> HIDE DEF l
      <4>3. loop' \in [Objects -> Loop]
        BY <1>5, <3>1, TrackBase DEF BaseInv, TypeOK
      <4> QED
        BY <1>1, <4>1, <4>2, <4>3 DEF LoopMoved, TypeOK
    <3>2. CASE cons[loop[o].at] # "active"
      <4>1. Goto(o, "failed") /\ "failed" \in LoopPC
        BY <1>5, <3>2 DEF Track, Trying, LoopPC
      <4> QED
        BY <1>1, <3>2, <4>1, GotoFields
    <3> QED
      BY <3>1, <3>2
  <2>3. cons[loop[o].at] \in {"active", "removed"}
    BY <1>1, <2>1 DEF LoopOf, Aiming
  <2>4. LoopTells(o)
    BY <2>1, <2>2, <2>3, SameOnlyGo DEF LoopTells, FailsRightly, Sending, Failing
  <2> QED
    BY <2>4, LoopTold
<1>6. CASE Send(o)
  <2>1. UNCHANGED <<handler, told, conn, cons>>
    BY <1>6 DEF Send
  <2>2. PICK pc \in {"top", "failed", "untrack"} :
          Goto(o, pc) /\ (pc # "top" => conn[ConnOf[loop[o].at]] # "up")
    BY <1>6 DEF Send, Trying
  <2>3. pc \in LoopPC
    BY DEF LoopPC
  <2>4. LoopMoved(o) /\ loop'[o].pc = pc /\ loop'[o].at = loop[o].at
    BY <1>1, <2>2, <2>3, GotoFields
  <2>5. LoopTells(o)
    BY <2>1, <2>2, <2>4, SameOnlyGo DEF LoopTells, FailsRightly, Sending, Failing
  <2> QED
    BY <2>5, LoopTold
<1>7. CASE Untrack(o) \/ Failed(o)
  <2>1. UNCHANGED <<handler, told, conn, cons>> /\ loop[o].pc \in Failing
    BY <1>7 DEF Untrack, Failed, LoopOnly, Failing
  <2>2. PICK pc \in {"failed", "remove", "push"} : Goto(o, pc)
    BY <1>7 DEF Untrack, Failed
  <2>3. pc \in LoopPC
    BY DEF LoopPC
  <2>4. LoopMoved(o) /\ loop'[o].pc = pc /\ loop'[o].at = loop[o].at
    BY <1>1, <2>2, <2>3, GotoFields
  <2>5. FailsRightly(o)
    BY DEF ToldInv
  <2>6. LoopTells(o)
    BY <2>1, <2>4, <2>5, SameOnlyGo DEF LoopTells, FailsRightly, Sending
  <2> QED
    BY <2>6, LoopTold
<1>8. CASE RemoveFailedConsumer(o)
  <2>1. UNCHANGED <<handler, told, conn>> /\ loop[o].pc = "remove" /\ "refresh" \in LoopPC
        /\ Goto(o, "refresh")
    BY <1>8 DEF RemoveFailedConsumer, LoopPC
  <2>2. LoopMoved(o) /\ loop'[o].pc = "refresh"
    BY <1>1, <2>1, GotoFields
  <2>3. loop[o].at \in Consumers /\ FailsRightly(o)
    BY <1>1, <2>1 DEF LoopOf, Aiming, ToldInv
  <2>4. PICK C \in SUBSET Consumers :
          /\ \A c \in C : cons[c] = "active" /\ c = loop[o].at
          /\ CancelLocked(C)
    <3> DEFINE C == IF current = o /\ cons[Trying(o)] = "active" THEN {Trying(o)} ELSE {}
    <3>1. C \in SUBSET Consumers /\ \A c \in C : cons[c] = "active" /\ c = loop[o].at
      BY <2>3 DEF Trying
    <3>2. CancelLocked(C)
      BY <1>8 DEF RemoveFailedConsumer
    <3> HIDE DEF C
    <3> QED
      BY <3>1, <3>2
  <2>5. ConsumersOnlyGo /\ \A c \in Consumers : cons'[c] = IF c \in C THEN "removed" ELSE cons[c]
    BY <2>4, CancelFields
  <2>6. ASSUME NEW k \in Conns, conn[k] = "up", NEW c \in ConsumersOf(k), cons'[c] = "removed"
        PROVE  cons[c] = "removed"
    <3>1. c \in Consumers /\ ConnOf[c] = k
      BY DEF ConsumersOf
    <3>2. CASE c \in C
      BY <2>1, <2>3, <2>4, <2>6, <3>1, <3>2 DEF FailsRightly, Failing
    <3> QED
      BY <2>5, <2>6, <3>1, <3>2
  <2>7. LoopTells(o)
    BY <2>1, <2>2, <2>5, <2>6 DEF LoopTells, FailsRightly, Sending, Failing
  <2> QED
    BY <2>7, LoopTold
<1> QED
  BY <1>2, <1>3, <1>4, <1>5, <1>6, <1>7, <1>8 DEF LoopStep

(* A step of the goroutine of a connection that does not end a barrier. *)
HandlerTells(k) ==
    /\ conn' = conn /\ ConsumersOnlyGo
    /\ handler[k].pc # "barrier" /\ \A x \in Conns \ {k} : handler'[x] = handler[x]
    /\ \A x \in Conns : "close" \in Ops[x] =>
          \A c \in ConsumersOf(x) : cons'[c] = "removed" => cons[c] = "removed" \/ Awaited(x, c)'

LEMMA HandlerTold ==
    ASSUME NEW k \in Conns, HandlerTells(k), HeldAsBefore,
           \A c \in told' : c \in told \/ ~SendMuHeld(c),
           \A o \in Objects : loop'[o] = loop[o] \/ FailsRightly(o)'
    PROVE  ToldStep
<1>1. ASSUME NEW x \in Conns PROVE CloseFine(x)
  <2> SUFFICES ASSUME "close" \in Ops[x], conn'[x] = "up", NEW c \in ConsumersOf(x),
                      cons'[c] = "removed", ~Awaited(x, c)'
               PROVE  cons[c] = "removed" /\ ~Awaited(x, c)
    BY DEF CloseFine, HandlerTells
  <2>1. cons[c] = "removed"
    BY DEF HandlerTells
  <2>2. ~Awaited(x, c)
    BY DEF HandlerTells, Awaited
  <2> QED
    BY <2>1, <2>2
<1> QED
  BY <1>1 DEF ToldStep, HandlerTells

LEMMA HeldSame ==
    ASSUME loop' = loop
    PROVE  HeldAsBefore
BY DEF HeldAsBefore, SendMuHeld, Trying

LEMMA BeginsElsewhere ==
    ASSUME TypeOK, NEW k \in Conns, NEW op, NEW h, Begin(k, op, h)
    PROVE  /\ op \in Ops[k] /\ handler[k].pc = "ready"
           /\ \A x \in Conns \ {k} : handler'[x] = handler[x]
BY DEF TypeOK, Begin

LEMMA MethodToldStep ==
    ASSUME BaseInv, CloseWaitsForAll, NEW k \in Conns, Method(k)
    PROVE  ToldStep
<1>1. TypeOK /\ cons \in [Consumers -> {"new", "active", "removed"}]
  BY DEF BaseInv, TypeOK
<1>2. UNCHANGED <<loop, told, conn>>
  BY DEF Method, Publish, Declare, Delete, Recover, Get, Close, Consume, Cancel, Ack, Nack, Pop
<1>3. SUFFICES HandlerTells(k)
  BY <1>2, HandlerTold, HeldSame
<1>4. ASSUME NEW op, NEW h, Begin(k, op, h), cons' = cons
      PROVE  HandlerTells(k)
  BY <1>1, <1>2, <1>4, BeginsElsewhere, SameOnlyGo DEF HandlerTells
<1>5. CASE (\E m \in Messages : Publish(k, m)) \/ Declare(k)
  BY <1>4, <1>5 DEF Publish, Declare
<1>6. CASE Recover(k) \/ Get(k)
  BY <1>4, <1>6 DEF Recover, Get
<1>7. CASE \E t \in TagsOn(k), multiple \in BOOLEAN : Ack(k, t, multiple) \/ Nack(k, t, multiple)
  BY <1>4, <1>7 DEF Ack, Nack, Pop
<1>8. CASE Delete(k)
  <2>1. PICK h : Begin(k, "delete", h)
    BY <1>8 DEF Delete
  <2>2. \A x \in Conns : "close" \notin Ops[x]
    BY <1>1, <2>1, BeginsElsewhere DEF CloseWaitsForAll
  <2>3. ConsumersOnlyGo
    <3>1. \A c \in Consumers : cons'[c] \in {"removed", cons[c]}
      BY <1>8 DEF Delete
    <3> QED
      BY <3>1 DEF ConsumersOnlyGo
  <2> QED
    BY <1>1, <1>2, <2>1, <2>2, <2>3, BeginsElsewhere DEF HandlerTells
<1>9. CASE Close(k)
  <2> DEFINE C == Registered(k)
             h == [handler[k] EXCEPT !.pc = "barrier", !.wait = C]
  <2>1. C \in SUBSET Consumers /\ (\A c \in C : cons[c] = "active" /\ c \in ConsumersOf(k))
    BY DEF Registered, ConsumersOf
  <2>2. CancelLocked(C) /\ Begin(k, "close", h)
    BY <1>9 DEF Close
  <2> HIDE DEF C
  <2>3. h \in Handler /\ h.pc = "barrier" /\ h.wait = C
    BY <1>1, <2>1 DEF TypeOK, Handler
  <2> HIDE DEF h
  <2>4. handler'[k].pc = "barrier" /\ handler'[k].wait = C
    BY <1>1, <2>2, <2>3, BeginFields
  <2>5. ConsumersOnlyGo /\ \A c \in Consumers : cons'[c] = IF c \in C THEN "removed" ELSE cons[c]
    BY <2>1, <2>2, CancelFields
  <2>6. ASSUME NEW x \in Conns, NEW c \in ConsumersOf(x), cons'[c] = "removed"
        PROVE  cons[c] = "removed" \/ Awaited(x, c)'
    <3>1. c \in Consumers /\ ConnOf[c] = x /\ (c \in C => x = k)
      BY <2>1 DEF ConsumersOf
    <3> QED
      BY <2>4, <2>5, <2>6, <3>1 DEF Awaited
  <2> QED
    BY <1>1, <1>2, <2>2, <2>5, <2>6, BeginsElsewhere DEF HandlerTells
<1>10. ASSUME NEW c \in Consumers, Consume(k, c) PROVE HandlerTells(k)
  <2>1. PICK h : Begin(k, "consume", h)
    BY <1>10 DEF Consume
  <2>2. cons[c] = "new" /\ \A x \in Consumers : cons'[x] = IF x = c THEN "active" ELSE cons[x]
    BY <1>1, <1>10 DEF Consume
  <2>3. ConsumersOnlyGo
    BY <2>2 DEF ConsumersOnlyGo
  <2>4. \A x \in Conns : \A y \in ConsumersOf(x) : cons'[y] = "removed" => cons[y] = "removed"
    BY <2>2 DEF ConsumersOf
  <2> QED
    BY <1>1, <1>2, <2>1, <2>3, <2>4, BeginsElsewhere DEF HandlerTells
<1>11. ASSUME NEW c \in Consumers, Cancel(k, c) PROVE HandlerTells(k)
  <2>1. Begin(k, "cancel", handler[k]) /\ ConnOf[c] = k /\ CancelLocked({c}) /\ cons[c] = "active"
    BY <1>11 DEF Cancel
  <2>2. "close" \notin Ops[k]
    BY <1>1, <2>1, BeginsElsewhere DEF CloseWaitsForAll
  <2>3. ConsumersOnlyGo /\ \A x \in Consumers : cons'[x] = IF x \in {c} THEN "removed" ELSE cons[x]
    BY <2>1, CancelFields
  <2>4. \A x \in Conns \ {k} : \A y \in ConsumersOf(x) : cons'[y] = "removed" => cons[y] = "removed"
    BY <2>1, <2>3 DEF ConsumersOf
  <2> QED
    BY <1>1, <1>2, <2>1, <2>2, <2>3, <2>4, BeginsElsewhere DEF HandlerTells
<1> QED
  BY <1>5, <1>6, <1>7, <1>8, <1>9, <1>10, <1>11 DEF Method

LEMMA HandlerToldStep ==
    ASSUME BaseInv, ToldInv, NEW k \in Conns, HandlerStep(k)
    PROVE  ToldStep
<1>1. TypeOK /\ handler \in [Conns -> Handler] /\ handler[k] \in Handler /\ HandlerOf(k)
  BY DEF BaseInv, TypeOK, HandlersInv
<1>2. UNCHANGED <<conn, cons>> /\ \A x \in Conns \ {k} : handler'[x] = handler[x]
  BY <1>1 DEF HandlerStep, StartLoop, RequeueOne, RequeueDone, TrackGot, TakeState, Release, CloseOk
<1>3. handler[k].pc # "barrier" => HandlerTells(k)
  BY <1>2, SameOnlyGo DEF HandlerTells
<1>4. CASE StartLoop(k)
  <2>1. PICK o \in 1..made : o = handler[k].obj
    BY <1>1, <1>4 DEF HandlerOf, StartLoop
  <2>2. loop' = IF loop[o].pc = "off" THEN [loop EXCEPT ![o].pc = "top"] ELSE loop
    BY <1>4, <2>1 DEF StartLoop
  <2>3. told' = told /\ handler[k].pc = "start"
    BY <1>4 DEF StartLoop
  <2>4. CASE loop[o].pc = "off"
    <3>1. o \in Objects /\ "top" \in LoopPC
      <4>1. made \in Nat /\ made <= MaxQueues /\ MaxQueues \in Nat
        BY DeclaredObject, DeliveryAssumption DEF BaseInv, TypeOK, Objects
      <4> QED
        BY <4>1 DEF Objects, LoopPC
    <3>2. LoopMoved(o) /\ loop'[o].pc = "top"
      BY <1>1, <2>2, <2>4, <3>1, GotoFields DEF Goto
    <3>3. HeldAsBefore
      BY <3>1, <3>2 DEF HeldAsBefore, SendMuHeld, Trying, LoopMoved
    <3>4. \A x \in Objects : loop'[x] = loop[x] \/ FailsRightly(x)'
      BY <3>1, <3>2 DEF LoopMoved, FailsRightly, Failing
    <3> QED
      BY <1>3, <2>3, <3>3, <3>4, HandlerTold
  <2>5. CASE loop[o].pc # "off"
    BY <1>3, <2>2, <2>3, <2>5, HeldSame, HandlerTold
  <2> QED
    BY <2>4, <2>5
<1>5. CASE RequeueOne(k) \/ RequeueDone(k) \/ TrackGot(k) \/ Release(k)
  <2>1. UNCHANGED <<told, loop>> /\ handler[k].pc # "barrier"
    BY <1>5 DEF RequeueOne, RequeueDone, TrackGot, Release
  <2> QED
    BY <1>3, <2>1, HeldSame, HandlerTold
<1>6. CASE TakeState(k)
  <2>1. UNCHANGED <<told, loop>> /\ \A c \in handler[k].wait : ~SendMuHeld(c)
    BY <1>6 DEF TakeState
  <2>2. \A x \in Conns \ {k} : CloseFine(x)
    BY <1>2, CloseSame
  <2>3. CloseFine(k)
    BY <1>2, <2>1 DEF CloseFine, Awaited
  <2> QED
    BY <1>2, <2>1, <2>2, <2>3, HeldSame, SameOnlyGo DEF ToldStep
<1>7. CASE CloseOk(k)
  <2>1. loop' = loop /\ handler[k].pc = "release"
    BY <1>7 DEF CloseOk
  <2>2. ASSUME NEW c \in told', c \notin told PROVE ~SendMuHeld(c)
    <3>1. c \in ConsumersOf(k) /\ conn[k] = "up" /\ cons[c] = "removed"
      BY <1>7, <2>2 DEF CloseOk
    <3>2. "close" \in Ops[k] /\ ClosesQuietly(k)
      BY <1>1, <2>1 DEF HandlerOf, ToldInv
    <3> QED
      BY <2>1, <3>1, <3>2 DEF ClosesQuietly, Awaited
  <2> QED
    BY <1>3, <2>1, <2>2, HeldSame, HandlerTold
<1> QED
  BY <1>4, <1>5, <1>6, <1>7 DEF HandlerStep

LEMMA EndToldStep ==
    ASSUME BaseInv, NEW k \in Conns,
           SocketDies(k) \/ CleanupConnection(k) \/ CleanerRequeue(k)
    PROVE  ToldStep
<1>1. TypeOK /\ conn \in [Conns -> {"up", "dead", "gone"}] /\ handler \in [Conns -> Handler]
  BY DEF BaseInv, TypeOK
<1>2. UNCHANGED <<told, loop>>
  BY DEF SocketDies, CleanupConnection, CleanerRequeue
<1>3. CASE CleanerRequeue(k)
  <2>1. UNCHANGED <<conn, cons, handler>>
    BY <1>3 DEF CleanerRequeue
  <2> QED
    BY <1>2, <2>1, HeldSame, SameOnlyGo, CloseSame DEF ToldStep
<1>4. CASE SocketDies(k)
  <2>1. UNCHANGED <<cons, handler>> /\ \A x \in Conns : conn'[x] = "up" => conn[x] = "up"
    BY <1>1, <1>4 DEF SocketDies
  <2> QED
    BY <1>2, <2>1, HeldSame, SameOnlyGo, CloseSame DEF ToldStep
<1>5. CASE CleanupConnection(k)
  <2>1. /\ \A x \in Conns : conn'[x] = "up" => conn[x] = "up"
        /\ conn'[k] = "gone" /\ \A x \in Conns \ {k} : handler'[x] = handler[x]
    BY <1>1, <1>5 DEF CleanupConnection
  <2>2. PICK C \in SUBSET Consumers : C = Registered(k)
    BY DEF Registered, ConsumersOf
  <2>3. CancelLocked(C) /\ (\A c \in C : cons[c] = "active" /\ ConnOf[c] = k)
    BY <1>5, <2>2 DEF CleanupConnection, Registered, ConsumersOf
  <2>4. ConsumersOnlyGo /\ \A c \in Consumers : cons'[c] = IF c \in C THEN "removed" ELSE cons[c]
    BY <2>3, CancelFields
  <2>5. \A x \in Conns \ {k} : \A c \in ConsumersOf(x) : cons'[c] = "removed" => cons[c] = "removed"
    BY <2>3, <2>4 DEF ConsumersOf
  <2>6. \A x \in Conns \ {k} : CloseFine(x)
    BY <2>1, <2>5, CloseSame
  <2>7. CloseFine(k)
    BY <2>1 DEF CloseFine
  <2> QED
    BY <1>2, <2>1, <2>4, <2>6, <2>7, HeldSame DEF ToldStep
<1> QED
  BY <1>3, <1>4, <1>5

LEMMA NextTold ==
    ASSUME CloseWaitsForAll, BaseInv, ToldInv, [Next]_vars
    PROVE  BaseInv' /\ ToldInv'
<1>1. BaseInv'
  BY NextKeeps
<1>2. SUFFICES ToldStep
  BY <1>1, ToldKept
<1>3. ASSUME NEW o \in Objects, LoopStep(o) PROVE ToldStep
  BY <1>3, LoopToldStep
<1>4. ASSUME NEW k \in Conns, Method(k) PROVE ToldStep
  BY <1>4, MethodToldStep
<1>5. ASSUME NEW k \in Conns, HandlerStep(k) PROVE ToldStep
  BY <1>5, HandlerToldStep
<1>6. ASSUME NEW k \in Conns, SocketDies(k) \/ CleanupConnection(k) \/ CleanerRequeue(k)
      PROVE  ToldStep
  BY <1>6, EndToldStep
<1>7. ASSUME NEW c \in Consumers, NotifyCancel(c) PROVE ToldStep
  <2>1. UNCHANGED <<loop, cons, handler, conn>> /\ \A x \in told' : x \in told \/ ~SendMuHeld(x)
    BY <1>7 DEF NotifyCancel
  <2> QED
    BY <2>1, HeldSame, SameOnlyGo, CloseSame DEF ToldStep
<1>8. CASE UNCHANGED vars
  <2>1. UNCHANGED <<loop, cons, handler, conn, told>>
    BY <1>8 DEF vars
  <2> QED
    BY <2>1, HeldSame, SameOnlyGo, CloseSame DEF ToldStep
<1> QED
  BY <1>3, <1>4, <1>5, <1>6, <1>7, <1>8 DEF Next

(***************************************************************************)
(* Once a client was told by close-ok or by the server's basic.cancel that *)
(* a consumer is gone, no delivery to it is under way any more: both are   *)
(* written after the consumer's sendMu was free, and nobody takes sendMu   *)
(* for a consumer that is not active.  For close-ok, as long as the        *)
(* consumers of the channel leave only with it (CloseWaitsForAll).         *)
(***************************************************************************)
THEOREM ToldIsFinal == CloseWaitsForAll => (Spec => []NoDeliveryAfterTold)
<1> SUFFICES ASSUME CloseWaitsForAll PROVE Spec => []NoDeliveryAfterTold
  OBVIOUS
<1>1. Init => BaseInv /\ ToldInv
  <2> SUFFICES ASSUME Init PROVE ToldInv
    BY InitBase
  <2>1. \A o \in Objects : loop[o].pc = "off"
    BY DEF Init, Resting
  <2>2. told = {} /\ \A c \in Consumers : cons[c] = "new"
    BY DEF Init
  <2>3. \A k \in Conns : ClosesQuietly(k)
    BY <2>2 DEF ClosesQuietly, ConsumersOf
  <2> QED
    BY <2>1, <2>2, <2>3 DEF ToldInv, FailsRightly, Failing
<1>2. BaseInv /\ ToldInv /\ [Next]_vars => BaseInv' /\ ToldInv'
  BY NextTold
<1>3. ToldInv => NoDeliveryAfterTold
  BY DEF ToldInv, NoDeliveryAfterTold, SendMuHeld
<1> QED
  BY <1>1, <1>2, <1>3, PTL DEF Spec

-----------------------------------------------------------------------------
(***************************************************************************)
(* Messages of a deleted queue and the next queue of its name.             *)
(*                                                                         *)
(* The methods that hold the queue, or a message of it, from one critical  *)
(* section to the next.  As long as they are used on no other connection   *)
(* than the one that deletes the queue, none is under way when the         *)
(* deletion is begun.                                                      *)
(***************************************************************************)
Holding == {"consume", "get", "nack", "recover"}
DeletesUnheld ==
    \A k \in Conns : "delete" \in Ops[k] => \A x \in Conns \ {k} : Ops[x] \cap Holding = {}

(* What a queue object has in its buffer and its loop in hand is its own,  *)
(* and the loop of a stopped queue finds its consumers gone.               *)
OwnBuffer(o) == \A m \in Range(queue[o].buf) : home[m] = o
OwnMessage(o) == loop[o].pc \notin Idling => home[loop[o].msg] = o
Stops(o) ==
    queue[o].stopped =>
        /\ queue[o].done \/ loop[o].pc = "off"
        /\ loop[o].pc = "try" => \A c \in loop[o].left : cons[c] = "removed"
        /\ loop[o].pc \in {"lock", "create", "track"} => cons[loop[o].at] = "removed"

(* What a connection holds is of the queue it will be put back into. *)
OwnRecords(k) == \A r \in chan[k].st.unacked : r.deleted \/ home[r.msg] = current
OwnTodo(k) ==
    /\ \A r \in handler[k].todo :
          home[r.msg] = IF handler[k].pc = "release" THEN handler[k].obj ELSE current
    /\ handler[k].pc = "start" => handler[k].obj = current
    /\ handler[k].pc \in {"start", "requeue", "got"} => Ops[k] \cap Holding # {}
OwnCleaning(k) == \A r \in cleaner[k].todo : home[r.msg] = cleaner[k].obj

CrossInv ==
    /\ \A o \in Objects : OwnBuffer(o) /\ OwnMessage(o) /\ Stops(o)
    /\ \A k \in Conns : OwnRecords(k) /\ OwnTodo(k) /\ OwnCleaning(k)

(* A step keeps CrossInv when it does in each of its parts. *)
BufferOwned(o) == Range(queue'[o].buf) \subseteq Range(queue[o].buf) \/ OwnBuffer(o)'
LoopOwned(o) ==
    \/ loop'[o] = loop[o] /\ queue'[o].stopped = queue[o].stopped /\ queue'[o].done = queue[o].done
    \/ OwnMessage(o)' /\ Stops(o)'
RecordsFrom(k) ==
    \A r \in chan'[k].st.unacked : \E x \in chan[k].st.unacked :
        x.msg = r.msg /\ (x.deleted => r.deleted)
RecordsOwned(k) == (current' = current /\ RecordsFrom(k)) \/ OwnRecords(k)'
TodoOwned(k) == (current' = current /\ handler'[k] = handler[k]) \/ OwnTodo(k)'
CleaningOwned(k) == cleaner'[k] = cleaner[k] \/ OwnCleaning(k)'
CrossStep ==
    /\ ConsumersOnlyGo /\ \A m \in Messages : home[m] # 0 => home'[m] = home[m]
    /\ \A o \in Objects : BufferOwned(o) /\ LoopOwned(o)
    /\ \A k \in Conns : RecordsOwned(k) /\ TodoOwned(k) /\ CleaningOwned(k)

LEMMA CrossKept ==
    ASSUME BaseInv, BaseInv', CrossInv, CrossStep
    PROVE  CrossInv'
<1>1. \A m \in Messages : home[m] # 0 => home'[m] = home[m]
  BY DEF CrossStep
<1>2. ASSUME NEW o \in Objects PROVE OwnBuffer(o)'
  <2> SUFFICES ASSUME Range(queue'[o].buf) \subseteq Range(queue[o].buf) PROVE OwnBuffer(o)'
    BY DEF CrossStep, BufferOwned
  <2>1. Range(queue[o].buf) \subseteq Messages /\ OwnBuffer(o) /\ o # 0
    BY RangeType DEF BaseInv, TypeOK, Queue, CrossInv, Objects
  <2> QED
    BY <1>1, <2>1 DEF OwnBuffer
<1>3. ASSUME NEW o \in Objects PROVE OwnMessage(o)' /\ Stops(o)'
  <2> SUFFICES ASSUME loop'[o] = loop[o], queue'[o].stopped = queue[o].stopped,
                      queue'[o].done = queue[o].done
               PROVE  OwnMessage(o)' /\ Stops(o)'
    BY DEF CrossStep, LoopOwned
  <2>0. loop[o] \in Loop /\ OwnMessage(o) /\ Stops(o) /\ LoopOf(loop[o])
    BY DEF BaseInv, TypeOK, CrossInv, LoopsInv
  <2>1. /\ loop[o] \in Loop /\ loop[o].msg \in Messages /\ loop[o].left \subseteq Consumers /\ o # 0
        /\ OwnMessage(o) /\ Stops(o) /\ LoopOf(loop[o])
    BY <2>0 DEF Loop, Objects
  <2>2. OwnMessage(o)'
    BY <1>1, <2>1 DEF OwnMessage
  <2>3. \A c \in Consumers : cons[c] = "removed" => cons'[c] = "removed"
    <3>1. cons' \in [Consumers -> {"new", "active", "removed"}]
      BY DEF BaseInv, TypeOK
    <3>2. ConsumersOnlyGo
      BY DEF CrossStep
    <3> QED
      BY <3>1, <3>2 DEF ConsumersOnlyGo
  <2>4. loop[o].pc \in {"lock", "create", "track"} => loop[o].at \in Consumers
    BY <2>1 DEF LoopOf, Aiming
  <2>5. Stops(o)'
    BY <2>1, <2>3, <2>4 DEF Stops
  <2> QED
    BY <2>2, <2>5
<1>4. ASSUME NEW k \in Conns PROVE OwnRecords(k)'
  <2> SUFFICES ASSUME current' = current, RecordsFrom(k) PROVE OwnRecords(k)'
    BY DEF CrossStep, RecordsOwned
  <2>1. \A x \in chan[k].st.unacked :
          x.msg \in Messages /\ home[x.msg] # 0 /\ (x.deleted \/ home[x.msg] = current)
    BY CurrentNotDeleted DEF CrossInv, OwnRecords
  <2>2. \A x \in chan[k].st.unacked : x.deleted \/ home'[x.msg] = current
    BY <1>1, <2>1
  <2> QED
    BY <2>2 DEF RecordsFrom, OwnRecords
<1>5. ASSUME NEW k \in Conns PROVE OwnTodo(k)'
  <2> SUFFICES ASSUME current' = current, handler'[k] = handler[k] PROVE OwnTodo(k)'
    BY DEF CrossStep, TodoOwned
  <2>1. handler[k] \in Handler /\ HandlerHomes(k) /\ OwnTodo(k)
    BY DEF BaseInv, TypeOK, HomesInv, CrossInv
  <2>2. \A r \in handler[k].todo : r.msg \in Messages /\ home[r.msg] # 0
    BY <2>1 DEF Handler, DeliveryRecord, HandlerHomes
  <2>3. \A r \in handler[k].todo : home'[r.msg] = home[r.msg]
    BY <1>1, <2>2
  <2> QED
    BY <2>1, <2>3 DEF OwnTodo
<1>6. ASSUME NEW k \in Conns PROVE OwnCleaning(k)'
  <2> SUFFICES ASSUME cleaner'[k] = cleaner[k] PROVE OwnCleaning(k)'
    BY DEF CrossStep, CleaningOwned
  <2>1. cleaner[k] \in Cleaner /\ CleanerHomes(k) /\ OwnCleaning(k)
    BY DEF BaseInv, TypeOK, HomesInv, CrossInv
  <2>2. \A r \in cleaner[k].todo : r.msg \in Messages /\ home[r.msg] # 0
    BY <2>1 DEF Cleaner, DeliveryRecord, CleanerHomes
  <2>3. \A r \in cleaner[k].todo : home'[r.msg] = home[r.msg]
    BY <1>1, <2>2
  <2> QED
    BY <2>1, <2>3 DEF OwnCleaning
<1> QED
  BY <1>2, <1>3, <1>4, <1>5, <1>6 DEF CrossInv

(* Parts of a step that leave things as they are. *)
LEMMA QuietOwned ==
    ASSUME QuietQueues
    PROVE  /\ \A o \in Objects : BufferOwned(o)
           /\ \A o \in Objects : loop'[o] = loop[o] => LoopOwned(o)
BY DEF QuietQueues, BufferOwned, LoopOwned

LEMMA RecordsSame ==
    ASSUME NEW k \in Conns, chan'[k].st.unacked \subseteq chan[k].st.unacked
    PROVE  RecordsFrom(k)
BY DEF RecordsFrom

LEMMA DerivedFrom ==
    ASSUME NEW k \in Conns, Derived(k)
    PROVE  RecordsFrom(k)
BY DEF RecordsFrom, Derived, Derives

(* A push of a queue object's own message. *)
LEMMA PushOwned ==
    ASSUME BaseInv, CrossInv, NEW o \in 1..made, NEW m \in Messages, home[m] = o, home' = home,
           queue' = Pushed(o, m)
    PROVE  /\ o \in Objects
           /\ \A x \in Objects : BufferOwned(x) /\ (loop'[x] = loop[x] => LoopOwned(x))
                                 /\ queue'[x].done = queue[x].done /\ queue'[x].stopped = queue[x].stopped
<1>1. TypeOK /\ made \in Nat /\ made <= MaxQueues /\ MaxQueues \in Nat
  BY DeclaredObject, DeliveryAssumption DEF BaseInv, TypeOK, Objects
<1>2. o \in Objects
  BY <1>1 DEF Objects
<1>3. /\ \A x \in Objects : /\ queue'[x].stopped = queue[x].stopped
                            /\ queue'[x].done = queue[x].done
                            /\ x # o => queue'[x].buf = queue[x].buf
      /\ Range(queue'[o].buf) \subseteq Range(queue[o].buf) \cup {m}
  BY <1>1, <1>2, PushedFields
<1>4. BufferOwned(o)
  BY <1>2, <1>3 DEF BufferOwned, OwnBuffer, CrossInv
<1> QED
  BY <1>2, <1>3, <1>4 DEF BufferOwned, LoopOwned

-----------------------------------------------------------------------------
(* The delivery loops. *)
LEMMA LoopCross ==
    ASSUME NEW o \in Objects, LoopMoved(o), OwnMessage(o)', Stops(o)',
           UNCHANGED <<current, home, handler, cleaner>>, ConsumersOnlyGo,
           \A x \in Objects : BufferOwned(x) /\ queue'[x].done = queue[x].done
                              /\ queue'[x].stopped = queue[x].stopped,
           \A k \in Conns : RecordsOwned(k)
    PROVE  CrossStep
BY DEF CrossStep, LoopMoved, LoopOwned, TodoOwned, CleaningOwned

LEMMA MovesOnlyCross ==
    ASSUME BaseInv, CrossInv, NEW o \in Objects, MovesOnly(o), Stops(o)'
    PROVE  CrossStep
<1>1. OwnMessage(o)'
  <2>1. OwnMessage(o)
    BY DEF CrossInv
  <2> QED
    BY <2>1 DEF OwnMessage, MovesOnly, Rest
<1>2. \A k \in Conns : RecordsOwned(k)
  BY RecordsSame DEF MovesOnly, QuietChannels, RecordsOwned, Rest
<1> QED
  BY <1>1, <1>2, LoopCross, QuietOwned, SameOnlyGo DEF MovesOnly, Rest, QuietQueues

(* The loop of a stopped queue is not off any more, so it is to stop. *)
LEMMA StoppedIsDone ==
    ASSUME CrossInv, NEW o \in Objects, queue[o].stopped, loop[o].pc # "off"
    PROVE  queue[o].done
BY DEF CrossInv, Stops

LEMMA StopsElsewhere ==
    ASSUME CrossInv, NEW o \in Objects, loop[o].pc # "off",
           queue'[o].stopped = queue[o].stopped, queue'[o].done = queue[o].done,
           loop'[o].pc \notin {"try", "lock", "create", "track"}
    PROVE  Stops(o)'
BY StoppedIsDone DEF Stops

LEMMA TryAims ==
    ASSUME BaseInv, NEW o \in Objects, Try(o), loop'[o].pc \in {"try", "lock"}
    PROVE  loop'[o].at \in loop[o].left /\ loop'[o].left \subseteq loop[o].left
<1>1. TypeOK /\ loop \in [Objects -> Loop] /\ loop[o] \in Loop /\ "wait" \in LoopPC
  BY DEF BaseInv, TypeOK, LoopPC
<1>2. CASE loop[o].left = {}
  BY <1>1, <1>2, GotoFields DEF Try
<1>3. CASE loop[o].left # {}
  <2> DEFINE c == Earliest(loop[o].list, loop[o].left)
             left == loop[o].left \ {c}
  <2>1. PICK pc \in {"try", "lock"} : loop' = [loop EXCEPT ![o].pc = pc, ![o].at = c, ![o].left = left]
    BY <1>3 DEF Try
  <2>2. c \in loop[o].left /\ left \subseteq loop[o].left
    BY <1>1, <1>3, EarliestIsIn DEF Loop
  <2> HIDE DEF c, left
  <2>3. loop'[o].at = c /\ loop'[o].left = left
    BY <1>1, <2>1 DEF Loop
  <2> QED
    BY <2>2, <2>3
<1> QED
  BY <1>2, <1>3

LEMMA LoopCrossStep ==
    ASSUME BaseInv, CrossInv, NEW o \in Objects, LoopStep(o)
    PROVE  CrossStep
<1>1. TypeOK /\ loop \in [Objects -> Loop] /\ loop[o] \in Loop /\ LoopOf(loop[o]) /\ OwnMessage(o) /\ Stops(o)
      /\ OwnBuffer(o)
  BY DEF BaseInv, TypeOK, LoopsInv, CrossInv
<1>2. ASSUME MovesOnly(o), loop'[o].pc \notin {"try", "lock", "create", "track"} PROVE CrossStep
  <2>1. Stops(o)'
    BY <1>2, StopsElsewhere DEF MovesOnly, QuietQueues
  <2> QED
    BY <1>2, <2>1, MovesOnlyCross
<1>3. ASSUME NEW pc \in {"top", "round", "refresh", "push", "remove", "failed"}, Goto(o, pc)
      PROVE  LoopMoved(o) /\ loop'[o].pc = pc /\ loop'[o].pc \notin {"try", "lock", "create", "track"}
             /\ loop'[o].msg = loop[o].msg
  <2>1. pc \in LoopPC
    BY DEF LoopPC
  <2> QED
    BY <1>1, <1>3, <2>1, GotoFields
<1>4. CASE LoopTop(o)
  <2>1. PICK pc \in {"exited", "idle", "select"} : loop' = [loop EXCEPT ![o] = Resting(pc)]
    BY <1>4 DEF LoopTop
  <2>2. pc \in LoopPC
    BY DEF LoopPC
  <2>3. loop'[o].pc = pc
    BY <1>1, <2>1, <2>2, RestingType
  <2> QED
    BY <1>2, <1>4, <2>3, LoopTopMoves
<1>5. CASE LoopWoken(o) \/ WaitThrottled(o)
  <2>1. loop'[o].pc \notin {"try", "lock", "create", "track"}
    BY <1>3, <1>5 DEF LoopWoken, WaitThrottled
  <2> QED
    BY <1>2, <1>5, <2>1, LoopWokenMoves, WaitMoves
<1>6. CASE Failed(o)
  <2>1. loop'[o].pc \notin {"try", "lock", "create", "track"}
    BY <1>3, <1>6 DEF Failed
  <2> QED
    BY <1>2, <1>6, <2>1, FailedMoves
<1>7. CASE Lookup(o)
  <2> DEFINE list == ActiveConsumers
  <2>1. PICK pc \in {"push", "round"} : loop' = [loop EXCEPT ![o].list = list, ![o].pc = pc]
    BY <1>7 DEF Lookup
  <2> HIDE DEF list
  <2>2. loop'[o].pc = pc
    BY <1>1, <2>1 DEF Loop
  <2> QED
    BY <1>2, <1>7, <2>2, LookupMoves
<1>8. CASE Round(o)
  <2>1. MovesOnly(o) /\ loop[o].pc = "round"
    BY <1>8, RoundMoves DEF Round
  <2>2. CASE queue[o].done
    <3>1. loop'[o].pc = "push"
      BY <1>3, <1>8, <2>2 DEF Round, Goto
    <3> QED
      BY <1>2, <2>1, <3>1
  <2>3. CASE ~queue[o].done
    <3>1. ~queue[o].stopped
      BY <2>1, <2>3, StoppedIsDone
    <3>2. Stops(o)'
      BY <2>1, <3>1 DEF Stops, MovesOnly, QuietQueues
    <3> QED
      BY <2>1, <3>2, MovesOnlyCross
  <2> QED
    BY <2>2, <2>3
<1>9. CASE Try(o)
  <2>1. MovesOnly(o) /\ loop[o].pc = "try" /\ cons' = cons
    BY <1>9, TryMoves DEF Try, LoopOnly
  <2>2. CASE loop'[o].pc \in {"try", "lock"}
    <3>1. loop'[o].at \in loop[o].left /\ loop'[o].left \subseteq loop[o].left
      BY <1>9, <2>2, TryAims
    <3>2. queue[o].stopped => queue[o].done
      BY <2>1, StoppedIsDone
    <3>3. queue'[o].stopped = queue[o].stopped /\ queue'[o].done = queue[o].done
      BY <2>1 DEF MovesOnly, QuietQueues
    <3>4. Stops(o)'
      BY <1>1, <2>1, <2>2, <3>1, <3>2, <3>3 DEF Stops
    <3> QED
      BY <2>1, <3>4, MovesOnlyCross
  <2>3. CASE loop'[o].pc \notin {"try", "lock"}
    <3>1. loop'[o].pc \notin Sending
      BY <1>9, LoopElsewhere
    <3> QED
      BY <1>2, <2>1, <2>3, <3>1 DEF Sending
  <2> QED
    BY <2>2, <2>3
<1>10. CASE LockSend(o)
  <2>1. MovesOnly(o) /\ loop[o].pc = "lock" /\ cons' = cons
    BY <1>10, LockSendMoves DEF LockSend, LoopOnly
  <2>2. PICK pc \in {"create", "failed"} : Goto(o, pc) /\ (pc = "create" <=> cons[loop[o].at] = "active")
    BY <1>10 DEF LockSend, Trying
  <2>3. pc \in LoopPC
    BY DEF LoopPC
  <2>4. loop'[o].pc = pc
    BY <1>1, <2>2, <2>3, GotoFields
  <2>5. CASE pc = "create"
    <3>1. ~queue[o].stopped
      BY <1>1, <2>1, <2>2, <2>5 DEF Stops
    <3>2. Stops(o)'
      BY <2>1, <3>1 DEF Stops, MovesOnly, QuietQueues
    <3> QED
      BY <2>1, <3>2, MovesOnlyCross
  <2>6. CASE pc = "failed"
    BY <1>2, <2>1, <2>4, <2>6
  <2> QED
    BY <2>5, <2>6
<1>11. CASE TakeMessage(o)
  <2>1. UNCHANGED <<current, home, handler, cleaner, cons, chan>> /\ loop[o].pc = "select"
    BY <1>11 DEF TakeMessage, LoopOnly
  <2>2. /\ LoopMoved(o) /\ loop'[o].pc = "lookup" /\ loop'[o].msg = Head(queue[o].buf)
        /\ queue[o].buf # <<>> /\ queue' = [queue EXCEPT ![o].buf = Tail(@)]
    BY <1>11, TakeMessageFields
  <2>3. /\ \A x \in Objects : /\ queue'[x].stopped = queue[x].stopped
                              /\ queue'[x].done = queue[x].done
                              /\ x # o => queue'[x].buf = queue[x].buf
        /\ Range(queue[o].buf) = Range(queue'[o].buf) \cup {Head(queue[o].buf)}
    BY <1>1, <2>2, TailFields
  <2>4. OwnMessage(o)'
    BY <1>1, <2>1, <2>2, <2>3 DEF OwnMessage, OwnBuffer
  <2>5. Stops(o)'
    BY <2>1, <2>2, <2>3, StopsElsewhere
  <2>6. \A x \in Objects : BufferOwned(x)
    BY <2>3 DEF BufferOwned
  <2>7. \A k \in Conns : RecordsOwned(k)
    BY <2>1, RecordsSame DEF RecordsOwned
  <2> QED
    BY <2>1, <2>2, <2>3, <2>4, <2>5, <2>6, <2>7, LoopCross, SameOnlyGo
<1>12. CASE PushBack(o)
  <2>1. UNCHANGED <<current, made, home, handler, cleaner, cons, chan>> /\ loop[o].pc = "push"
        /\ Goto(o, "top") /\ queue' = Pushed(o, loop[o].msg)
    BY <1>12 DEF PushBack, LoopOnly
  <2>2. LoopMoved(o) /\ loop'[o].pc = "top"
    BY <1>3, <2>1
  <2>3. PICK m \in Messages : m = loop[o].msg /\ home[m] = o
    BY <1>1, <2>1 DEF Loop, OwnMessage, Idling
  <2>4. o \in 1..made
    BY <2>1, DeclaredObject
  <2>5. \A x \in Objects : BufferOwned(x) /\ queue'[x].done = queue[x].done
                           /\ queue'[x].stopped = queue[x].stopped
    BY <2>1, <2>3, <2>4, PushOwned
  <2>6. OwnMessage(o)' /\ Stops(o)'
    BY <2>1, <2>2, <2>5, StopsElsewhere DEF OwnMessage, Idling
  <2>7. \A k \in Conns : RecordsOwned(k)
    BY <2>1, RecordsSame DEF RecordsOwned
  <2> QED
    BY <2>1, <2>2, <2>5, <2>6, <2>7, LoopCross, SameOnlyGo
<1>13. CASE CreateState(o)
  <2>1. UNCHANGED <<current, made, home, handler, cleaner, cons, queue>>
    BY <1>13 DEF CreateState
  <2>2. PICK k \in Conns : k = ConnOf[loop[o].at]
    BY <1>13, CreateStateFields
  <2>3. /\ loop[o].pc = "create" /\ chan' = [chan EXCEPT ![k] = Created(k)]
        /\ LoopMoved(o) /\ loop'[o].pc = "track" /\ loop'[o].at = loop[o].at
        /\ loop'[o].msg = loop[o].msg
    BY <1>13, <2>2, CreateStateFields
  <2>4. OwnMessage(o)' /\ Stops(o)'
    BY <1>1, <2>1, <2>3 DEF OwnMessage, Stops, Idling
  <2>5. \A x \in Conns : RecordsOwned(x)
    <3>1. Created(k).st.unacked = chan[k].st.unacked
      BY CreatedFields
    <3>2. \A x \in Conns : chan'[x].st.unacked = chan[x].st.unacked
      BY <1>1, <2>3, <3>1 DEF TypeOK
    <3> QED
      BY <2>1, <3>2, RecordsSame DEF RecordsOwned
  <2> QED
    BY <2>1, <2>3, <2>4, <2>5, LoopCross, SameOnlyGo DEF BufferOwned
<1>14. CASE Track(o)
  <2>1. UNCHANGED <<current, made, home, handler, cleaner, cons, queue>> /\ loop[o].pc = "track"
    BY <1>14 DEF Track
  <2>2. CASE cons[loop[o].at] # "active"
    <3>1. Goto(o, "failed")
      BY <1>14, <2>2 DEF Track, Trying
    <3> QED
      BY <1>2, <1>3, <1>14, <2>2, <3>1, TrackFailMoves
  <2>3. CASE cons[loop[o].at] = "active"
    <3>1. PICK c \in Consumers, k \in Conns, m \in Messages, s \in ChannelDeliveryState :
            TrackedAs(o, c, k, m, s)
      BY <1>14, <2>3, TrackFields
    <3>2. /\ LoopMoved(o) /\ loop'[o].pc = "send" /\ loop'[o].msg = m /\ m = loop[o].msg
          /\ \A x \in Conns \ {k} : chan'[x] = chan[x]
          /\ chan'[k].st = TrackedState(s, c, m) /\ s = chan[k].st
      BY <3>1 DEF TrackedAs
    <3>3. OwnMessage(o)' /\ Stops(o)'
      BY <1>1, <2>1, <3>2, StopsElsewhere DEF OwnMessage, Idling
    (* The loop is not that of a stopped queue: its consumer is active. *)
    <3>4. home[m] = current
      <4>1. home[m] = o /\ ~queue[o].stopped
        BY <1>1, <2>1, <2>3, <3>2 DEF OwnMessage, Idling, Stops
      <4>2. o \in 1..made /\ made \in Nat
        BY <2>1, DeclaredObject
      <4> QED
        BY <4>1, <4>2 DEF BaseInv, ObjectsInv
    <3>5. OwnRecords(k)'
      <4> DEFINE d == TrackedState(s, c, m)
                 n == NewRecord(s.last + 1, c, Name, m)
      <4>1. n.msg = m /\ d.unacked = IF c \in NoAck THEN s.unacked ELSE s.unacked \cup {n}
        BY TrackedStateFields
      <4> HIDE DEF d, n
      <4>2. chan'[k].st = d
        BY <3>2 DEF d
      <4>3. \A r \in s.unacked : r.deleted \/ home[r.msg] = current
        BY <3>2 DEF CrossInv, OwnRecords
      <4>4. \A r \in d.unacked : r.deleted \/ home[r.msg] = current
        BY <3>4, <4>1, <4>3
      <4> QED
        BY <2>1, <4>2, <4>4 DEF OwnRecords
    <3>6. \A x \in Conns : RecordsOwned(x)
      BY <2>1, <3>2, <3>5, RecordsSame DEF RecordsOwned
    <3> QED
      BY <2>1, <3>2, <3>3, <3>6, LoopCross, SameOnlyGo DEF BufferOwned
  <2> QED
    BY <2>2, <2>3
<1>15. CASE Send(o)
  <2>1. UNCHANGED <<current, made, home, handler, cleaner, cons, queue, chan>> /\ loop[o].pc = "send"
    BY <1>15 DEF Send
  <2>2. PICK pc \in {"top", "failed", "untrack"} : Goto(o, pc)
    BY <1>15 DEF Send
  <2>3. pc \in LoopPC
    BY DEF LoopPC
  <2>4. LoopMoved(o) /\ loop'[o].pc = pc /\ loop'[o].msg = loop[o].msg
    BY <1>1, <2>2, <2>3, GotoFields
  <2>5. OwnMessage(o)' /\ Stops(o)'
    BY <1>1, <2>1, <2>4, StopsElsewhere DEF OwnMessage, Idling
  <2>6. \A x \in Conns : RecordsOwned(x)
    BY <2>1, RecordsSame DEF RecordsOwned
  <2> QED
    BY <2>1, <2>4, <2>5, <2>6, LoopCross, SameOnlyGo DEF BufferOwned
<1>16. CASE Untrack(o)
  <2>1. UNCHANGED <<current, made, home, handler, cleaner, cons, queue>> /\ loop[o].pc = "untrack"
        /\ Goto(o, "failed")
    BY <1>16 DEF Untrack
  <2>2. LoopMoved(o) /\ loop'[o].pc = "failed" /\ loop'[o].msg = loop[o].msg
    BY <1>3, <2>1
  <2>3. OwnMessage(o)' /\ Stops(o)'
    BY <1>1, <2>1, <2>2, StopsElsewhere DEF OwnMessage, Idling
  <2>4. \A x \in Conns : chan'[x].st.unacked \subseteq chan[x].st.unacked
    <3>1. loop[o].at \in Consumers
      BY <1>1, <2>1 DEF LoopOf, Aiming
    <3>2. PICK k \in Conns : k = ConnOf[loop[o].at]
      BY <3>1, DeliveryAssumption
    <3>3. PICK s \in ChannelDeliveryState : s = chan[k].st
      BY <1>1 DEF TypeOK, Channel
    <3> DEFINE T == {loop[o].tag}
               d == DeleteUnacked(s, T)
    <3>4. chan' = chan \/ chan' = [chan EXCEPT ![k].st = d]
      BY <1>16, <3>2, <3>3 DEF Untrack, Trying
    <3>5. d \in ChannelDeliveryState /\ d.unacked = {r \in s.unacked : r.tag \notin T}
      BY DeleteUnackedType, DeleteUnackedFields
    <3> HIDE DEF d
    <3>6. CASE chan' = [chan EXCEPT ![k].st = d]
      BY <1>1, <3>3, <3>5, <3>6, ChannelSet
    <3> QED
      BY <3>4, <3>6
  <2>5. \A x \in Conns : RecordsOwned(x)
    BY <2>1, <2>4, RecordsSame DEF RecordsOwned
  <2> QED
    BY <2>1, <2>2, <2>3, <2>5, LoopCross, SameOnlyGo DEF BufferOwned
<1>17. CASE RemoveFailedConsumer(o)
  <2>1. UNCHANGED <<current, made, home, handler, cleaner>> /\ loop[o].pc = "remove"
        /\ Goto(o, "refresh")
    BY <1>17 DEF RemoveFailedConsumer
  <2>2. LoopMoved(o) /\ loop'[o].pc = "refresh" /\ loop'[o].msg = loop[o].msg
    BY <1>3, <2>1
  <2>3. PICK C \in SUBSET Consumers :
          (\A c \in C : cons[c] = "active") /\ CancelLocked(C) /\ chan' = Detached(C)
    BY <1>17, RemoveFailedFields
  <2>4. QuietQueues /\ ConsumersOnlyGo
    BY <2>3, CancelFields
  <2>5. \A x \in Conns : Derived(x)
    BY <1>1, <2>3, DetachedFine
  <2>6. OwnMessage(o)' /\ Stops(o)'
    BY <1>1, <2>1, <2>2, <2>4, StopsElsewhere DEF OwnMessage, Idling, QuietQueues
  <2>7. \A x \in Conns : RecordsOwned(x)
    BY <2>1, <2>5, DerivedFrom DEF RecordsOwned
  <2> QED
    BY <2>1, <2>2, <2>4, <2>6, <2>7, LoopCross, QuietOwned DEF QuietQueues
<1> QED
  BY <1>4, <1>5, <1>6, <1>7, <1>8, <1>9, <1>10, <1>11, <1>12, <1>13, <1>14, <1>15, <1>16, <1>17
  DEF LoopStep

-----------------------------------------------------------------------------
(* The methods of a connection and the goroutine that runs them. *)
LEMMA OwnReady ==
    ASSUME NEW k \in Conns, handler'[k].pc \in {"ready", "barrier"}, handler'[k].todo = {}
    PROVE  OwnTodo(k)'
BY DEF OwnTodo

LEMMA HandlerCross ==
    ASSUME NEW k \in Conns, HandlerMoved(k), OwnTodo(k)', current' = current, cleaner' = cleaner,
           ConsumersOnlyGo, \A m \in Messages : home[m] # 0 => home'[m] = home[m],
           \A o \in Objects : BufferOwned(o) /\ LoopOwned(o),
           \A x \in Conns : RecordsOwned(x)
    PROVE  CrossStep
BY DEF CrossStep, HandlerMoved, TodoOwned, CleaningOwned

LEMMA ReadyCross ==
    ASSUME BaseInv, NEW k \in Conns, NEW op, Begin(k, op, handler[k])
    PROVE  HandlerMoved(k) /\ op \in Ops[k] /\ OwnTodo(k)' /\ handler'[k].pc = "ready" /\ handler'[k].todo = {}
<1>1. TypeOK /\ handler[k] \in Handler /\ HandlerOf(k)
  BY DEF BaseInv, TypeOK, HandlersInv
<1>2. /\ HandlerMoved(k) /\ op \in Ops[k] /\ handler[k].pc = "ready"
      /\ handler'[k].pc = handler[k].pc /\ handler'[k].todo = handler[k].todo
  BY <1>1, BeginFields
<1>3. handler[k].todo = {}
  BY <1>1, <1>2 DEF HandlerOf
<1> QED
  BY <1>2, <1>3, OwnReady

LEMMA PublishCross ==
    ASSUME BaseInv, CrossInv, NEW k \in Conns, NEW g \in Messages, Publish(k, g)
    PROVE  CrossStep
<1>1. UNCHANGED <<current, loop, cons, chan, cleaner>>
  BY DEF Publish
<1>2. HandlerMoved(k) /\ OwnTodo(k)'
  BY ReadyCross DEF Publish
<1>3. TypeOK /\ current \in Objects /\ current # 0
  BY DeclaredObject DEF BaseInv, Publish
<1>4. /\ \A x \in Objects : /\ queue'[x].stopped = queue[x].stopped
                            /\ queue'[x].done = queue[x].done
                            /\ x # current => queue'[x].buf = queue[x].buf
      /\ Range(queue'[current].buf) \subseteq Range(queue[current].buf) \cup {g}
  BY <1>3, PushedFields DEF Publish
<1>5. home'[g] = current /\ \A m \in Messages : home[m] # 0 => home'[m] = home[m]
  BY <1>3 DEF Publish, TypeOK
<1>6. PICK o \in Objects : o = current
  BY <1>3
<1>7. \A x \in Objects : BufferOwned(x)
  <2>1. \A m \in Range(queue[o].buf) : m \in Messages /\ home[m] = o
    BY <1>3, RangeType DEF TypeOK, Queue, CrossInv, OwnBuffer
  <2>2. \A m \in Range(queue'[o].buf) : home'[m] = o
    BY <1>3, <1>4, <1>5, <1>6, <2>1
  <2>3. OwnBuffer(o)'
    BY <2>2 DEF OwnBuffer
  <2> QED
    BY <1>4, <1>6, <2>3 DEF BufferOwned
<1>8. \A x \in Objects : LoopOwned(x)
  BY <1>1, <1>4 DEF LoopOwned
<1>9. \A x \in Conns : RecordsOwned(x)
  BY <1>1, RecordsSame DEF RecordsOwned
<1> QED
  BY <1>1, <1>2, <1>5, <1>7, <1>8, <1>9, HandlerCross, SameOnlyGo

(* While there is no queue of the name, nothing waits to be put into one. *)
LEMMA DeclareCross ==
    ASSUME BaseInv, CrossInv, NEW k \in Conns, Declare(k)
    PROVE  CrossStep
<1>1. UNCHANGED <<queue, loop, cons, chan, cleaner, home>> /\ current = 0
  BY DEF Declare
<1>2. HandlerMoved(k) /\ OwnTodo(k)'
  BY ReadyCross DEF Declare
<1>3. ASSUME NEW x \in Conns PROVE RecordsOwned(x)
  <2>1. \A r \in chan[x].st.unacked : r.deleted
    BY <1>1, CurrentNotDeleted DEF CrossInv, OwnRecords
  <2> QED
    BY <1>1, <2>1 DEF RecordsOwned, OwnRecords
<1>4. ASSUME NEW x \in Conns \ {k} PROVE OwnTodo(x)'
  <2>1. handler'[x] = handler[x]
    BY <1>2 DEF HandlerMoved
  <2>2. HandlerOf(x) /\ HandlerHomes(x) /\ OwnTodo(x)
    BY DEF BaseInv, HandlersInv, HomesInv, CrossInv
  <2>3. handler[x].pc # "release" => handler[x].todo = {}
    BY <1>1, <2>2 DEF OwnTodo, HandlerHomes
  <2>4. handler[x].pc # "start"
    <3>1. made \in Nat /\ 0 \notin 1..made
      BY DeclaredObject
    <3> QED
      BY <1>1, <2>2, <3>1 DEF OwnTodo, HandlerOf
  <2> QED
    BY <1>1, <2>1, <2>2, <2>3, <2>4 DEF OwnTodo
<1> QED
  BY <1>1, <1>2, <1>3, <1>4, SameOnlyGo
  DEF CrossStep, BufferOwned, LoopOwned, TodoOwned, CleaningOwned

(* Every delivery of a deleted queue is marked. *)
LEMMA DetachQueueMarks ==
    ASSUME NEW s \in ChannelDeliveryState, NEW r \in DetachQueue(s, Name).unacked
    PROVE  r.deleted
<1>1. CASE r \in s.unacked \ OfQueue(s, Name)
  <2>1. r \in DeliveryRecord /\ r.queue \in Queues
    BY <1>1 DEF ChannelDeliveryState, DeliveryRecord
  <2>2. r.queue = Name
    BY <2>1, NameType, DeliveryAssumption
  <2> QED
    BY <1>1, <2>2 DEF OfQueue
<1> QED
  BY <1>1, DetachQueueRecords

LEMMA DeleteCross ==
    ASSUME DeletesUnheld, BaseInv, CrossInv, NEW k \in Conns, Delete(k)
    PROVE  CrossStep
<1>1. UNCHANGED <<made, loop, cleaner, home>> /\ current' = 0
  BY DEF Delete
<1>2. HandlerMoved(k) /\ OwnTodo(k)' /\ "delete" \in Ops[k]
  BY ReadyCross DEF Delete
<1>3. /\ TypeOK /\ current \in Objects
      /\ cons \in [Consumers -> {"new", "active", "removed"}]
      /\ queue \in [Objects -> Queue] /\ chan \in [Conns -> Channel]
  BY DeclaredObject DEF BaseInv, Delete, TypeOK
<1>4. \A c \in Consumers : c \in Members(byQueue) <=> cons[c] = "active"
  BY DEF Members, BaseInv, ConsumersInv
<1>5. \A c \in Consumers : cons'[c] = IF cons[c] = "new" THEN "new" ELSE "removed"
  BY <1>3, <1>4 DEF Delete
<1>6. ConsumersOnlyGo
  BY <1>5 DEF ConsumersOnlyGo
<1>7. ASSUME NEW x \in Conns PROVE RecordsOwned(x)
  <2>1. PICK s \in ChannelDeliveryState : s = chan[x].st /\ chan[x] \in Channel
    BY <1>3 DEF Channel
  <2> DEFINE d == DetachQueue(s, Name)
             e == [chan[x] EXCEPT !.st = d]
  <2>2. chan'[x] = e
    BY <2>1 DEF Delete
  <2>3. \A r \in d.unacked : r.deleted
    BY DetachQueueMarks
  <2> HIDE DEF d
  <2>4. e.st = d
    BY <2>1 DEF Channel
  <2> HIDE DEF e
  <2> QED
    BY <2>2, <2>3, <2>4 DEF RecordsOwned, OwnRecords
<1>8. ASSUME NEW x \in Conns \ {k} PROVE OwnTodo(x)'
  <2>1. handler'[x] = handler[x]
    BY <1>2 DEF HandlerMoved
  <2>2. HandlerOf(x) /\ OwnTodo(x)
    BY DEF BaseInv, HandlersInv, CrossInv
  <2>3. handler[x].pc \notin {"start", "requeue", "got"}
    BY <1>2, <2>2 DEF DeletesUnheld, OwnTodo
  <2>4. handler[x].pc # "release" => handler[x].todo = {}
    BY <2>2, <2>3 DEF HandlerOf
  <2> QED
    BY <1>1, <2>1, <2>2, <2>3, <2>4 DEF OwnTodo
<1>9. /\ \A x \in Objects : queue'[x].buf = queue[x].buf /\ (x # current => queue'[x] = queue[x])
      /\ queue'[current].done = (loop[current].pc # "off")
  <2> DEFINE b == loop[current].pc # "off"
             q == [queue[current] EXCEPT !.stopped = TRUE, !.done = b]
  <2>1. b \in BOOLEAN
    OBVIOUS
  <2>2. queue' = [queue EXCEPT ![current] = q]
    BY <1>3 DEF Delete
  <2> HIDE DEF b
  <2>3. queue[current] \in Queue
    BY <1>3
  <2>4. q.buf = queue[current].buf /\ q.done = b
    BY <2>1, <2>3 DEF Queue
  <2> HIDE DEF q
  <2>5. \A x \in Objects : queue'[x].buf = queue[x].buf /\ (x # current => queue'[x] = queue[x])
    BY <1>3, <2>2, <2>4
  <2>6. queue'[current].done = b
    BY <1>3, <2>2, <2>4
  <2> QED
    BY <2>5, <2>6 DEF b
(* The loop of the deleted queue finds its consumers removed. *)
<1>10. PICK o \in Objects : o = current
  BY <1>3
<1>11. OwnMessage(o)' /\ Stops(o)'
  <2>1. loop[o] \in Loop /\ LoopOf(loop[o]) /\ OwnMessage(o)
    BY <1>3 DEF TypeOK, BaseInv, LoopsInv, CrossInv
  <2>2. OwnMessage(o)'
    BY <1>1, <2>1 DEF OwnMessage
  <2>3. \A c \in loop[o].left : cons'[c] = "removed"
    BY <1>5, <2>1 DEF Loop, LoopOf
  <2>4. loop[o].pc \in {"lock", "create", "track"} => cons'[loop[o].at] = "removed"
    BY <1>5, <2>1 DEF LoopOf, Aiming
  <2>5. queue'[o].done \/ loop[o].pc = "off"
    BY <1>9, <1>10
  <2>6. Stops(o)'
    BY <1>1, <2>3, <2>4, <2>5 DEF Stops
  <2> QED
    BY <2>2, <2>6
<1>12. \A x \in Objects : LoopOwned(x)
  <2>1. LoopOwned(o)
    BY <1>11 DEF LoopOwned
  <2>2. \A x \in Objects : x # o => LoopOwned(x)
    BY <1>1, <1>9, <1>10 DEF LoopOwned
  <2> QED
    BY <2>1, <2>2
<1> QED
  BY <1>1, <1>2, <1>6, <1>7, <1>8, <1>9, <1>12 DEF CrossStep, BufferOwned, TodoOwned, CleaningOwned

LEMMA ConsumeCross ==
    ASSUME BaseInv, BaseInv', CrossInv, NEW k \in Conns, NEW c \in Consumers, Consume(k, c)
    PROVE  CrossStep
<1>1. UNCHANGED <<current, made, loop, chan, cleaner, home>>
  BY DEF Consume
<1>2. /\ TypeOK /\ current \in Objects /\ queue \in [Objects -> Queue] /\ handler[k] \in Handler
      /\ cons \in [Consumers -> {"new", "active", "removed"}] /\ cons[c] = "new" /\ byQueue' \in ConsumerList
  BY DeclaredObject DEF BaseInv, Consume, TypeOK
<1> DEFINE h == [handler[k] EXCEPT !.pc = "start", !.obj = current]
<1>3. h \in Handler /\ h.pc = "start" /\ h.obj = current /\ h.todo = handler[k].todo
  BY <1>2 DEF Handler
<1>4. Begin(k, "consume", h)
  BY DEF Consume
<1> HIDE DEF h
<1>5. /\ HandlerMoved(k) /\ handler[k].pc = "ready" /\ "consume" \in Ops[k]
      /\ handler'[k].pc = "start" /\ handler'[k].obj = current /\ handler'[k].todo = handler[k].todo
  BY <1>2, <1>3, <1>4, BeginFields
<1>6. handler[k].todo = {}
  BY <1>5 DEF BaseInv, HandlersInv, HandlerOf
<1>7. OwnTodo(k)'
  BY <1>1, <1>5, <1>6 DEF OwnTodo, Holding
<1>8. ConsumersOnlyGo
  <2>1. \A x \in Consumers : cons'[x] = IF x = c THEN "active" ELSE cons[x]
    BY <1>2 DEF Consume
  <2> QED
    BY <1>2, <2>1 DEF ConsumersOnlyGo
<1>9. QuietQueues
  <2> DEFINE i == Cardinality(Members(byQueue'))
             q == [queue[current] EXCEPT !.mirror = i]
  <2>1. i \in Nat
    BY <1>2, MembersCount
  <2>2. queue' = [queue EXCEPT ![current] = q] /\ queue[current] \in Queue
    BY <1>2 DEF Consume
  <2> HIDE DEF i
  <2>3. q \in Queue /\ q.buf = queue[current].buf /\ q.stopped = queue[current].stopped
        /\ q.done = queue[current].done
    BY <2>1, <2>2 DEF Queue
  <2> HIDE DEF q
  <2> QED
    BY <1>2, <2>2, <2>3, QuietOne
<1>10. \A x \in Conns : RecordsOwned(x)
  BY <1>1, RecordsSame DEF RecordsOwned
<1> QED
  BY <1>1, <1>5, <1>7, <1>8, <1>9, <1>10, QuietOwned, HandlerCross

(* basic.cancel and channel.close. *)
LEMMA CancelCross ==
    ASSUME BaseInv, CrossInv, NEW k \in Conns, Close(k) \/ \E c \in Consumers : Cancel(k, c)
    PROVE  CrossStep
<1>1. UNCHANGED <<current, loop, cleaner, home>> /\ TypeOK /\ handler[k] \in Handler
  BY DEF Close, Cancel, BaseInv, TypeOK
<1>2. ASSUME NEW C \in SUBSET Consumers, \A x \in C : cons[x] = "active", CancelLocked(C),
             chan' = Detached(C), HandlerMoved(k), OwnTodo(k)'
      PROVE  CrossStep
  <2>1. QuietQueues /\ ConsumersOnlyGo
    BY <1>2, CancelFields
  <2>2. \A x \in Conns : Derived(x)
    BY <1>1, <1>2, DetachedFine
  <2>3. \A x \in Conns : RecordsOwned(x)
    BY <1>1, <2>2, DerivedFrom DEF RecordsOwned
  <2> QED
    BY <1>1, <1>2, <2>1, <2>3, QuietOwned, HandlerCross
<1>3. ASSUME NEW c \in Consumers, Cancel(k, c) PROVE CrossStep
  <2>1. HandlerMoved(k) /\ OwnTodo(k)'
    BY <1>3, ReadyCross DEF Cancel
  <2>2. {c} \in SUBSET Consumers /\ (\A x \in {c} : cons[x] = "active")
        /\ CancelLocked({c}) /\ chan' = Detached({c})
    BY <1>3 DEF Cancel
  <2> QED
    BY <1>2, <2>1, <2>2
<1>4. CASE Close(k)
  <2> DEFINE C == Registered(k)
             h == [handler[k] EXCEPT !.pc = "barrier", !.wait = C]
  <2>1. C \in SUBSET Consumers /\ \A x \in C : cons[x] = "active"
    BY DEF Registered, ConsumersOf
  <2>2. CancelLocked(C) /\ chan' = Detached(C) /\ Begin(k, "close", h)
    BY <1>4 DEF Close
  <2> HIDE DEF C
  <2>3. h \in Handler /\ h.pc = "barrier" /\ h.todo = handler[k].todo
    BY <1>1, <2>1 DEF Handler
  <2> HIDE DEF h
  <2>4. /\ HandlerMoved(k) /\ handler[k].pc = "ready"
        /\ handler'[k].pc = "barrier" /\ handler'[k].todo = handler[k].todo
    BY <1>1, <2>2, <2>3, BeginFields
  <2>5. handler[k].todo = {}
    BY <2>4 DEF BaseInv, HandlersInv, HandlerOf
  <2>6. OwnTodo(k)'
    BY <2>4, <2>5, OwnReady
  <2> QED
    BY <1>2, <2>1, <2>2, <2>4, <2>6
<1> QED
  BY <1>3, <1>4

(* basic.ack, basic.nack and basic.recover: deliveries leave the channel   *)
(* state, and those of the current queue may go to the handler.            *)
LEMMA TakesCross ==
    ASSUME BaseInv, CrossInv, NEW k \in Conns, HandlerMoved(k), OwnTodo(k)',
           UNCHANGED <<current, queue, loop, cons, cleaner, home>>,
           \A x \in Conns \ {k} : chan'[x] = chan[x], chan'[k].st.unacked \subseteq chan[k].st.unacked
    PROVE  CrossStep
<1>1. \A x \in Conns : RecordsOwned(x)
  BY RecordsSame DEF RecordsOwned
<1> QED
  BY <1>1, HandlerCross, SameOnlyGo DEF BufferOwned, LoopOwned

LEMMA OwnGivenBack ==
    ASSUME BaseInv, CrossInv, NEW k \in Conns, NEW R \in SUBSET chan[k].st.unacked,
           NEW op \in Holding, Begin(k, op, Requeue(k, R)), UNCHANGED <<current, home>>
    PROVE  HandlerMoved(k) /\ OwnTodo(k)'
<1>1. /\ handler'[k].pc = "requeue" /\ handler'[k].todo = {r \in R : ~r.deleted} /\ HandlerMoved(k)
  BY RequeueFields
<1>2. op \in Ops[k]
  BY DEF Begin
<1>3. \A r \in handler'[k].todo : home[r.msg] = current
  BY <1>1 DEF CrossInv, OwnRecords
<1> QED
  BY <1>1, <1>2, <1>3 DEF OwnTodo

LEMMA SettleCross ==
    ASSUME BaseInv, CrossInv, NEW k \in Conns, NEW t, NEW multiple,
           Ack(k, t, multiple) \/ Nack(k, t, multiple)
    PROVE  CrossStep
<1>1. UNCHANGED <<current, queue, loop, cons, cleaner, home>> /\ Pop(k, t, multiple)
  BY DEF Ack, Nack, Pop
<1>2. /\ \A x \in Conns \ {k} : chan'[x] = chan[x]
      /\ chan'[k].st.unacked \subseteq chan[k].st.unacked
  BY <1>1, PopTakes
<1>3. HandlerMoved(k) /\ OwnTodo(k)'
  <2>1. CASE Ack(k, t, multiple)
    BY <2>1, ReadyCross DEF Ack
  <2>2. CASE Nack(k, t, multiple)
    <3>1. PICK R \in SUBSET chan[k].st.unacked : R = AckedRecords(chan[k].st, t, multiple)
      BY DEF AckedRecords
    <3>2. Begin(k, "nack", Requeue(k, R)) /\ "nack" \in Holding
      BY <2>2, <3>1 DEF Nack, Holding
    <3> QED
      BY <1>1, <3>2, OwnGivenBack
  <2> QED
    BY <2>1, <2>2
<1> QED
  BY <1>1, <1>2, <1>3, TakesCross

LEMMA RecoverCross ==
    ASSUME BaseInv, CrossInv, NEW k \in Conns, Recover(k)
    PROVE  CrossStep
<1>1. UNCHANGED <<current, queue, loop, cons, cleaner, home>>
  BY DEF Recover
<1>2. TypeOK /\ chan \in [Conns -> Channel]
  BY DEF BaseInv, TypeOK
<1>3. PICK s \in ChannelDeliveryState : s = chan[k].st
  BY <1>2 DEF Channel
<1> DEFINE d == ClearIndexes(s)
<1>4. d \in ChannelDeliveryState /\ d.unacked = {}
  BY ClearIndexesType DEF ClearIndexes, ChannelDeliveryState
<1>5. chan' = [chan EXCEPT ![k].st = d]
  BY <1>2, <1>3 DEF Recover
<1> HIDE DEF d
<1>6. (\A x \in Conns \ {k} : chan'[x] = chan[x]) /\ chan'[k].st = d
  BY <1>2, <1>4, <1>5, ChannelSet
<1>7. PICK R \in SUBSET chan[k].st.unacked : R = FetchUnacked(chan[k].st)
  BY DEF FetchUnacked
<1>8. Begin(k, "recover", Requeue(k, R)) /\ "recover" \in Holding
  BY <1>7 DEF Recover, Holding
<1>9. HandlerMoved(k) /\ OwnTodo(k)'
  BY <1>1, <1>8, OwnGivenBack
<1> QED
  BY <1>1, <1>4, <1>6, <1>9, TakesCross

LEMMA GetCross ==
    ASSUME BaseInv, CrossInv, NEW k \in Conns, Get(k)
    PROVE  CrossStep
<1>1. UNCHANGED <<current, loop, cons, chan, cleaner, home>>
  BY DEF Get
<1>2. TypeOK /\ handler[k] \in Handler
  BY DEF BaseInv, TypeOK
<1>3. PICK o \in Objects : o = current /\ queue[o].buf # <<>> /\ queue' = [queue EXCEPT ![o].buf = Tail(@)]
  BY DeclaredObject DEF Get
<1>4. /\ \A x \in Objects : /\ queue'[x].stopped = queue[x].stopped
                            /\ queue'[x].done = queue[x].done
                            /\ x # o => queue'[x].buf = queue[x].buf
      /\ Range(queue[o].buf) = Range(queue'[o].buf) \cup {Head(queue[o].buf)}
      /\ Head(queue[o].buf) \in Messages
  BY <1>2, <1>3, TailFields
<1>5. PICK g \in Messages : g = Head(queue[o].buf) /\ home[g] = current
  BY <1>3, <1>4 DEF CrossInv, OwnBuffer
<1> DEFINE r == NewRecord(0, NoConsumer, Name, g)
           h == [handler[k] EXCEPT !.pc = "got", !.todo = {r}]
<1>6. r \in DeliveryRecord /\ r.msg = g
  BY NameType, NewRecordType DEF NewRecord
<1>7. Begin(k, "get", h)
  BY <1>3, <1>5 DEF Get
<1> HIDE DEF r
<1>8. h \in Handler /\ h.pc = "got" /\ h.todo = {r}
  BY <1>2, <1>6 DEF Handler
<1> HIDE DEF h
<1>9. HandlerMoved(k) /\ "get" \in Ops[k] /\ handler'[k].pc = "got" /\ handler'[k].todo = {r}
  BY <1>2, <1>7, <1>8, BeginFields
<1>10. OwnTodo(k)'
  BY <1>1, <1>5, <1>6, <1>9 DEF OwnTodo, Holding
<1>11. \A x \in Objects : BufferOwned(x) /\ LoopOwned(x)
  BY <1>1, <1>4 DEF BufferOwned, LoopOwned
<1>12. \A x \in Conns : RecordsOwned(x)
  BY <1>1, RecordsSame DEF RecordsOwned
<1> QED
  BY <1>1, <1>9, <1>10, <1>11, <1>12, HandlerCross, SameOnlyGo

LEMMA MethodCrossStep ==
    ASSUME DeletesUnheld, BaseInv, BaseInv', CrossInv, NEW k \in Conns, Method(k)
    PROVE  CrossStep
BY PublishCross, DeclareCross, DeleteCross, RecoverCross, GetCross, CancelCross, ConsumeCross,
   SettleCross DEF Method

(* One record of the handler's goes back. *)
LEMMA PutBackFields ==
    ASSUME TypeOK, NEW k \in Conns, NEW r, handler' = [handler EXCEPT ![k].todo = @ \ {r}]
    PROVE  HandlerMoved(k) /\ handler'[k].pc = handler[k].pc /\ handler'[k].obj = handler[k].obj
           /\ handler'[k].todo = handler[k].todo \ {r}
<1>1. handler \in [Conns -> Handler] /\ handler[k] \in Handler
  BY DEF TypeOK
<1> DEFINE D == handler[k].todo \ {r}
           h == [handler[k] EXCEPT !.todo = D]
<1>2. D \subseteq DeliveryRecord
  BY <1>1 DEF Handler
<1>3. handler' = [handler EXCEPT ![k] = h]
  BY <1>1
<1> HIDE DEF D
<1>4. h \in Handler /\ h.pc = handler[k].pc /\ h.obj = handler[k].obj /\ h.todo = D
  BY <1>1, <1>2 DEF Handler
<1> HIDE DEF h
<1>5. HandlerMoved(k) /\ handler'[k] = h
  BY <1>3, <1>4, HandlerSet
<1> QED
  BY <1>4, <1>5 DEF D

LEMMA StartLoopCross ==
    ASSUME BaseInv, CrossInv, NEW k \in Conns, StartLoop(k)
    PROVE  CrossStep
<1>1. UNCHANGED <<current, made, cons, chan, cleaner, home>>
  BY DEF StartLoop
<1>2. TypeOK /\ handler[k] \in Handler /\ HandlerOf(k) /\ handler[k].pc = "start" /\ OwnTodo(k)
      /\ made \in Nat /\ made \in Objects /\ MaxQueues \in Nat
  BY DeclaredObject, DeliveryAssumption DEF BaseInv, TypeOK, HandlersInv, StartLoop, CrossInv
<1>3. PICK o \in Objects : o = handler[k].obj /\ o = current /\ o \in 1..made
  <2>1. handler[k].obj \in 1..made /\ handler[k].obj = current
    BY <1>2 DEF HandlerOf, OwnTodo
  <2> QED
    BY <1>2, <2>1 DEF Objects
<1>4. ~queue[o].stopped
  BY <1>3 DEF BaseInv, ObjectsInv
<1>5. HandlerMoved(k) /\ OwnTodo(k)'
  <2> DEFINE h == [handler[k] EXCEPT !.pc = "ready", !.obj = 0]
  <2>1. h \in Handler /\ h.pc = "ready" /\ h.todo = handler[k].todo
    BY <1>2 DEF Handler
  <2>2. handler' = [handler EXCEPT ![k] = h]
    BY <1>2 DEF StartLoop, TypeOK
  <2>3. handler[k].todo = {}
    BY <1>2 DEF HandlerOf
  <2> HIDE DEF h
  <2> QED
    BY <1>2, <2>1, <2>2, <2>3, HandlerSet, OwnReady
<1>6. QuietQueues
  <2> DEFINE q == [queue[o] EXCEPT !.wake = TRUE]
  <2>1. queue' = [queue EXCEPT ![o] = q] /\ queue[o] \in Queue
    BY <1>2, <1>3 DEF StartLoop, TypeOK
  <2>2. q \in Queue /\ q.buf = queue[o].buf /\ q.stopped = queue[o].stopped /\ q.done = queue[o].done
    BY <2>1 DEF Queue
  <2> HIDE DEF q
  <2> QED
    BY <1>2, <2>1, <2>2, QuietOne
<1>7. \A x \in Objects : LoopOwned(x)
  <2>1. CASE loop[o].pc # "off"
    <3>1. loop' = loop
      BY <1>3, <2>1 DEF StartLoop
    <3> QED
      BY <1>6, <3>1, QuietOwned
  <2>2. CASE loop[o].pc = "off"
    <3>1. Goto(o, "top") /\ "top" \in LoopPC
      BY <1>3, <2>2 DEF StartLoop, Goto, LoopPC
    <3>2. LoopMoved(o) /\ loop'[o].pc = "top"
      BY <1>2, <3>1, GotoFields
    <3>3. OwnMessage(o)' /\ Stops(o)'
      BY <1>4, <1>6, <3>2 DEF OwnMessage, Idling, Stops, QuietQueues
    <3>4. LoopOwned(o)
      BY <3>3 DEF LoopOwned
    <3>5. \A x \in Objects : x # o => LoopOwned(x)
      BY <1>6, <3>2, QuietOwned DEF LoopMoved
    <3> QED
      BY <3>4, <3>5
  <2> QED
    BY <2>1, <2>2
<1>8. \A x \in Conns : RecordsOwned(x)
  BY <1>1, RecordsSame DEF RecordsOwned
<1> QED
  BY <1>1, <1>5, <1>6, <1>7, <1>8, HandlerCross, QuietOwned, SameOnlyGo

LEMMA RequeueCross ==
    ASSUME BaseInv, CrossInv, NEW k \in Conns, RequeueOne(k) \/ Release(k)
    PROVE  CrossStep
<1>1. UNCHANGED <<current, made, loop, cons, chan, cleaner, home>>
  BY DEF RequeueOne, Release
<1>2. TypeOK /\ handler[k] \in Handler /\ HandlerOf(k) /\ OwnTodo(k) /\ handler[k].todo # {}
  BY DEF BaseInv, TypeOK, HandlersInv, RequeueOne, Release, CrossInv
<1>3. \A x \in Conns : RecordsOwned(x)
  BY <1>1, RecordsSame DEF RecordsOwned
<1>4. ASSUME NEW r \in handler[k].todo, handler' = [handler EXCEPT ![k].todo = @ \ {r}]
      PROVE  r.msg \in Messages /\ HandlerMoved(k) /\ OwnTodo(k)'
  <2>1. HandlerMoved(k) /\ handler'[k].pc = handler[k].pc /\ handler'[k].obj = handler[k].obj
        /\ handler'[k].todo = handler[k].todo \ {r}
    BY <1>2, <1>4, PutBackFields
  <2>2. OwnTodo(k)'
    BY <1>1, <1>2, <2>1 DEF OwnTodo
  <2> QED
    BY <1>2, <2>1, <2>2 DEF Handler, DeliveryRecord
<1>5. CASE RequeueOne(k)
  <2>1. PICK r \in handler[k].todo :
          /\ queue' = IF current = 0 THEN queue ELSE Pushed(current, r.msg)
          /\ handler' = [handler EXCEPT ![k].todo = @ \ {r}]
    BY <1>5 DEF RequeueOne
  <2>2. r.msg \in Messages /\ HandlerMoved(k) /\ OwnTodo(k)'
    BY <1>4, <2>1
  <2>3. home[r.msg] = current
    BY <1>2, <1>5 DEF OwnTodo, RequeueOne
  <2>4. \A x \in Objects : BufferOwned(x) /\ LoopOwned(x)
    <3>1. CASE current = 0
      BY <1>1, <2>1, <3>1 DEF BufferOwned, LoopOwned
    <3>2. CASE current # 0
      <4>1. PICK o \in 1..made : o = current
        BY <3>2, DeclaredObject
      <4>2. queue' = Pushed(o, r.msg) /\ home[r.msg] = o
        BY <2>1, <2>3, <3>2, <4>1
      <4> QED
        BY <1>1, <2>2, <4>2, PushOwned
    <3> QED
      BY <3>1, <3>2
  <2> QED
    BY <1>1, <1>3, <2>2, <2>4, HandlerCross, SameOnlyGo
<1>6. CASE Release(k)
  <2>1. PICK r \in handler[k].todo : r = First(handler[k].todo)
    BY <1>2, FirstIsIn DEF Handler
  <2>2. /\ queue' = Pushed(handler[k].obj, r.msg) /\ handler' = [handler EXCEPT ![k].todo = @ \ {r}]
        /\ handler[k].pc = "release"
    BY <1>6, <2>1 DEF Release
  <2>3. r.msg \in Messages /\ HandlerMoved(k) /\ OwnTodo(k)'
    BY <1>4, <2>2
  <2>4. PICK o \in 1..made : o = handler[k].obj /\ home[r.msg] = o
    BY <1>2, <2>2 DEF HandlerOf, OwnTodo
  <2>5. \A x \in Objects : BufferOwned(x) /\ LoopOwned(x)
    BY <1>1, <2>2, <2>3, <2>4, PushOwned
  <2> QED
    BY <1>1, <1>3, <2>3, <2>5, HandlerCross, SameOnlyGo
<1> QED
  BY <1>5, <1>6

LEMMA TrackGotCross ==
    ASSUME BaseInv, CrossInv, NEW k \in Conns, TrackGot(k)
    PROVE  CrossStep
<1>1. UNCHANGED <<current, queue, loop, cons, cleaner, home>>
  BY DEF TrackGot
<1>2. TypeOK /\ handler[k] \in Handler /\ handler[k].pc = "got" /\ OwnTodo(k)
      /\ chan \in [Conns -> Channel]
  BY DEF BaseInv, TypeOK, TrackGot, CrossInv
<1>3. PICK r \in handler[k].todo :
        chan' = [chan EXCEPT ![k] = [Created(k) EXCEPT !.st = TrackGet(@, Name, r.msg)]]
  BY DEF TrackGot
<1>4. PICK g \in Messages : g = r.msg /\ home[g] = current
  BY <1>2 DEF OwnTodo, Handler, DeliveryRecord
<1>5. HandlerMoved(k) /\ OwnTodo(k)'
  <2> DEFINE h == [handler[k] EXCEPT !.pc = "ready", !.todo = {}]
  <2>1. h \in Handler /\ h.pc = "ready" /\ h.todo = {}
    BY <1>2 DEF Handler
  <2>2. handler' = [handler EXCEPT ![k] = h]
    BY <1>2 DEF TypeOK, TrackGot
  <2> HIDE DEF h
  <2> QED
    BY <1>2, <2>1, <2>2, HandlerSet, OwnReady
<1>6. PICK C \in Channel : C = Created(k) /\ C.st.unacked = chan[k].st.unacked
  BY CreatedFields
<1>7. PICK s \in ChannelDeliveryState : s = C.st
  BY DEF Channel
<1> DEFINE d == TrackGet(s, Name, g)
           n == NewRecord(s.last + 1, NoConsumer, Name, g)
           e == [C EXCEPT !.st = d]
<1>8. d \in ChannelDeliveryState /\ d.unacked = s.unacked \cup {n} /\ n.msg = g
  BY TrackGetFields
<1>9. chan' = [chan EXCEPT ![k] = e]
  BY <1>3, <1>4, <1>6, <1>7
<1> HIDE DEF d, n
<1>10. e \in Channel /\ e.st = d
  BY <1>8 DEF Channel
<1> HIDE DEF e
<1>11. chan'[k] = e /\ \A x \in Conns \ {k} : chan'[x] = chan[x]
  BY <1>2, <1>9, <1>10
<1>12. \A x \in d.unacked : x.deleted \/ home[x.msg] = current
  BY <1>4, <1>6, <1>7, <1>8 DEF CrossInv, OwnRecords
<1>13. OwnRecords(k)'
  BY <1>1, <1>10, <1>11, <1>12 DEF OwnRecords
<1>14. \A x \in Conns : RecordsOwned(x)
  BY <1>1, <1>11, <1>13, RecordsSame DEF RecordsOwned
<1> QED
  BY <1>1, <1>5, <1>14, HandlerCross, SameOnlyGo DEF BufferOwned, LoopOwned

(* What ReleaseChannelDeliveries and CleanupConnection take. *)
LEMMA FetchedOwn ==
    ASSUME BaseInv, CrossInv, NEW k \in Conns,
           NEW T, T = IF current = 0 THEN {} ELSE FetchUnacked(chan[k].st)
    PROVE  T \subseteq DeliveryRecord /\ \A r \in T : home[r.msg] = current
<1>1. T \subseteq {r \in chan[k].st.unacked : ~r.deleted}
  BY DEF FetchUnacked
<1> QED
  BY <1>1, CurrentNotDeleted DEF CrossInv, OwnRecords

LEMMA NothingTracked ==
    ASSUME NEW k \in Conns, chan'[k] = NoState(k)
    PROVE  RecordsOwned(k)
<1>1. chan'[k].st.unacked = {}
  BY DEF NoState, NewChannelState
<1> QED
  BY <1>1 DEF RecordsOwned, OwnRecords

LEMMA TakeStateCross ==
    ASSUME BaseInv, CrossInv, NEW k \in Conns, TakeState(k)
    PROVE  CrossStep
<1>1. UNCHANGED <<current, queue, loop, cons, cleaner, home>>
  BY DEF TakeState
<1>2. TypeOK /\ handler[k] \in Handler /\ chan \in [Conns -> Channel] /\ current \in {0} \cup Objects
  BY DEF BaseInv, TypeOK
<1>3. PICK T : T = IF current = 0 THEN {} ELSE FetchUnacked(chan[k].st)
  OBVIOUS
<1>4. T \subseteq DeliveryRecord /\ \A r \in T : home[r.msg] = current
  BY <1>3, FetchedOwn
<1>5. /\ HandlerMoved(k) /\ handler'[k].pc = "release" /\ handler'[k].obj = current
      /\ handler'[k].todo = T
  <2> DEFINE h == [handler[k] EXCEPT !.pc = "release", !.wait = {}, !.obj = current, !.todo = T]
  <2>1. h \in Handler /\ h.pc = "release" /\ h.obj = current /\ h.todo = T
    BY <1>2, <1>4 DEF Handler
  <2>2. handler' = [handler EXCEPT ![k] = h]
    BY <1>2, <1>3 DEF TypeOK, TakeState
  <2> HIDE DEF h
  <2> QED
    BY <1>2, <2>1, <2>2, HandlerSet
<1>6. OwnTodo(k)'
  BY <1>1, <1>4, <1>5 DEF OwnTodo
<1>7. chan'[k] = NoState(k) /\ \A x \in Conns \ {k} : chan'[x] = chan[x]
  BY <1>2 DEF TakeState
<1>8. \A x \in Conns : RecordsOwned(x)
  BY <1>1, <1>7, NothingTracked, RecordsSame DEF RecordsOwned
<1> QED
  BY <1>1, <1>5, <1>6, <1>8, HandlerCross, SameOnlyGo DEF BufferOwned, LoopOwned

LEMMA HandlerCrossStep ==
    ASSUME BaseInv, CrossInv, NEW k \in Conns, HandlerStep(k)
    PROVE  CrossStep
<1>1. TypeOK /\ handler[k] \in Handler
  BY DEF BaseInv, TypeOK
<1>2. CASE RequeueDone(k) \/ CloseOk(k)
  <2>1. UNCHANGED <<current, queue, loop, cons, chan, cleaner, home>> /\ handler[k].todo = {}
    BY <1>2 DEF RequeueDone, CloseOk
  <2>2. PICK h \in Handler : handler' = [handler EXCEPT ![k] = h] /\ h.pc = "ready" /\ h.todo = {}
    <3> DEFINE g == [handler[k] EXCEPT !.pc = "ready"]
               h == [handler[k] EXCEPT !.pc = "ready", !.obj = 0]
    <3>1. /\ g \in Handler /\ g.pc = "ready" /\ g.todo = {}
          /\ h \in Handler /\ h.pc = "ready" /\ h.todo = {}
      BY <1>1, <2>1 DEF Handler
    <3>2. handler' = [handler EXCEPT ![k] = g] \/ handler' = [handler EXCEPT ![k] = h]
      BY <1>1, <1>2 DEF TypeOK, RequeueDone, CloseOk
    <3> HIDE DEF g, h
    <3> QED
      BY <3>1, <3>2
  <2>3. HandlerMoved(k) /\ OwnTodo(k)'
    BY <1>1, <2>2, HandlerSet, OwnReady
  <2>4. \A x \in Conns : RecordsOwned(x)
    BY <2>1, RecordsSame DEF RecordsOwned
  <2> QED
    BY <2>1, <2>3, <2>4, HandlerCross, SameOnlyGo DEF BufferOwned, LoopOwned
<1> QED
  BY <1>2, StartLoopCross, RequeueCross, TrackGotCross, TakeStateCross DEF HandlerStep

-----------------------------------------------------------------------------
(* The end of a connection. *)
LEMMA CleanupCross ==
    ASSUME BaseInv, CrossInv, NEW k \in Conns, CleanupConnection(k)
    PROVE  CrossStep
<1>1. UNCHANGED <<current, loop, home>>
  BY DEF CleanupConnection
<1>2. TypeOK /\ handler[k] \in Handler /\ cleaner[k] \in Cleaner /\ OwnTodo(k)
      /\ current \in {0} \cup Objects
  BY DEF BaseInv, TypeOK, CrossInv
<1>3. PICK C \in SUBSET Consumers : C = Registered(k)
  BY DEF Registered, ConsumersOf
<1>4. /\ CancelLocked(C) /\ chan' = [Detached(C) EXCEPT ![k] = NoState(k)]
      /\ \A x \in C : cons[x] = "active"
  BY <1>3 DEF CleanupConnection, Registered
<1>5. QuietQueues /\ ConsumersOnlyGo
  BY <1>4, CancelFields
<1>6. PICK T : T = IF current = 0 THEN {} ELSE FetchUnacked(chan[k].st)
  OBVIOUS
<1>7. T \subseteq DeliveryRecord /\ \A r \in T : home[r.msg] = current
  BY <1>6, FetchedOwn
<1>8. \A x \in Conns : CleaningOwned(x)
  <2> DEFINE c == [cleaner[k] EXCEPT !.obj = current, !.todo = T]
  <2>1. c \in Cleaner /\ c.obj = current /\ c.todo = T
    BY <1>2, <1>7 DEF Cleaner
  <2>2. cleaner' = [cleaner EXCEPT ![k] = c]
    BY <1>2, <1>6 DEF TypeOK, CleanupConnection
  <2> HIDE DEF c
  <2>3. cleaner'[k] = c /\ \A x \in Conns \ {k} : cleaner'[x] = cleaner[x]
    BY <1>2, <2>1, <2>2, CleanerSet
  <2>4. OwnCleaning(k)'
    BY <1>1, <1>7, <2>1, <2>3 DEF OwnCleaning
  <2> QED
    BY <2>3, <2>4 DEF CleaningOwned
<1>9. HandlerMoved(k) /\ OwnTodo(k)'
  <2> DEFINE l == "late" \in Ops[k]
             h == [handler[k] EXCEPT !.late = l]
  <2>1. l \in BOOLEAN
    OBVIOUS
  <2> HIDE DEF l
  <2>2. h \in Handler /\ h.pc = handler[k].pc /\ h.obj = handler[k].obj /\ h.todo = handler[k].todo
    BY <1>2, <2>1 DEF Handler
  <2>3. handler' = [handler EXCEPT ![k] = h]
    BY <1>2 DEF TypeOK, CleanupConnection, l
  <2> HIDE DEF h
  <2>4. HandlerMoved(k) /\ handler'[k] = h
    BY <1>2, <2>2, <2>3, HandlerSet
  <2> QED
    BY <1>1, <1>2, <2>2, <2>4 DEF OwnTodo
<1>10. \A x \in Conns : RecordsOwned(x)
  <2>1. DOMAIN Detached(C) = Conns
    BY DEF Detached
  <2>2. chan'[k] = NoState(k) /\ \A x \in Conns \ {k} : chan'[x] = Detached(C)[x]
    BY <1>4, <2>1
  <2>3. ASSUME NEW x \in Conns \ {k} PROVE RecordsOwned(x)
    <3>1. Derives(chan[x].st, chan'[x].st)
      BY <1>2, <2>2, DetachedFields
    <3> QED
      BY <1>1, <3>1 DEF RecordsOwned, RecordsFrom, Derives
  <2> QED
    BY <2>2, <2>3, NothingTracked
<1> QED
  BY <1>1, <1>5, <1>8, <1>9, <1>10, QuietOwned DEF CrossStep, HandlerMoved, TodoOwned

LEMMA CleanerRequeueCross ==
    ASSUME BaseInv, CrossInv, NEW k \in Conns, CleanerRequeue(k)
    PROVE  CrossStep
<1>1. UNCHANGED <<current, made, loop, cons, chan, handler, home>>
  BY DEF CleanerRequeue
<1>2. TypeOK /\ cleaner[k] \in Cleaner /\ cleaner[k].todo # {} /\ CleanerOf(k) /\ OwnCleaning(k)
  BY DEF BaseInv, TypeOK, HandlersInv, CleanerRequeue, CrossInv
<1>3. PICK r \in cleaner[k].todo : r = First(cleaner[k].todo)
  BY <1>2, FirstIsIn DEF Cleaner
<1>4. queue' = Pushed(cleaner[k].obj, r.msg) /\ cleaner' = [cleaner EXCEPT ![k].todo = @ \ {r}]
  BY <1>3 DEF CleanerRequeue
<1>5. \A x \in Conns : CleaningOwned(x)
  <2> DEFINE D == cleaner[k].todo \ {r}
             c == [cleaner[k] EXCEPT !.todo = D]
  <2>1. D \subseteq DeliveryRecord /\ D \subseteq cleaner[k].todo
    BY <1>2 DEF Cleaner
  <2>2. cleaner' = [cleaner EXCEPT ![k] = c]
    BY <1>2, <1>4 DEF TypeOK
  <2> HIDE DEF D
  <2>3. c \in Cleaner /\ c.obj = cleaner[k].obj /\ c.todo = D
    BY <1>2, <2>1 DEF Cleaner
  <2> HIDE DEF c
  <2>4. cleaner'[k] = c /\ \A x \in Conns \ {k} : cleaner'[x] = cleaner[x]
    BY <1>2, <2>2, <2>3, CleanerSet
  <2>5. OwnCleaning(k)'
    BY <1>1, <1>2, <2>1, <2>3, <2>4 DEF OwnCleaning
  <2> QED
    BY <2>4, <2>5 DEF CleaningOwned
<1>6. PICK o \in 1..made : o = cleaner[k].obj /\ home[r.msg] = o
  BY <1>2 DEF CleanerOf, OwnCleaning
<1>7. r.msg \in Messages
  BY <1>2 DEF Cleaner, DeliveryRecord
<1>8. \A x \in Objects : BufferOwned(x) /\ LoopOwned(x)
  BY <1>1, <1>4, <1>6, <1>7, PushOwned
<1>9. \A x \in Conns : RecordsOwned(x)
  BY <1>1, RecordsSame DEF RecordsOwned
<1> QED
  BY <1>1, <1>5, <1>8, <1>9, SameOnlyGo DEF CrossStep, TodoOwned

LEMMA QuietCross ==
    ASSUME UNCHANGED <<current, queue, loop, cons, chan, handler, cleaner, home>>
    PROVE  CrossStep
BY RecordsSame, SameOnlyGo
DEF CrossStep, BufferOwned, LoopOwned, RecordsOwned, TodoOwned, CleaningOwned

LEMMA NextCross ==
    ASSUME DeletesUnheld, BaseInv, CrossInv, [Next]_vars
    PROVE  BaseInv' /\ CrossInv'
<1>1. BaseInv'
  BY NextKeeps
<1>2. SUFFICES CrossStep
  BY <1>1, CrossKept
<1>3. ASSUME NEW o \in Objects, LoopStep(o) PROVE CrossStep
  BY <1>3, LoopCrossStep
<1>4. ASSUME NEW k \in Conns, Method(k) PROVE CrossStep
  BY <1>1, <1>4, MethodCrossStep
<1>5. ASSUME NEW k \in Conns, HandlerStep(k) PROVE CrossStep
  BY <1>5, HandlerCrossStep
<1>6. ASSUME NEW k \in Conns, CleanupConnection(k) \/ CleanerRequeue(k) PROVE CrossStep
  BY <1>6, CleanupCross, CleanerRequeueCross
<1>7. ASSUME NEW k \in Conns, SocketDies(k) PROVE CrossStep
  BY <1>7, QuietCross DEF SocketDies
<1>8. ASSUME NEW c \in Consumers, NotifyCancel(c) PROVE CrossStep
  BY <1>8, QuietCross DEF NotifyCancel
<1>9. CASE UNCHANGED vars
  BY <1>9, QuietCross DEF vars
<1> QED
  BY <1>3, <1>4, <1>5, <1>6, <1>7, <1>8, <1>9 DEF Next

(***************************************************************************)
(* A queue declared under the name of a deleted one gets none of its       *)
(* messages, whatever the delivery loop, a closing channel or the cleanup  *)
(* of a connection still holds of them: the deletion marks the deliveries  *)
(* under way, and what is put back later goes to the queue object it was   *)
(* taken from.  basic.nack, basic.recover, basic.get and basic.consume     *)
(* look the queue up by its name in a later critical section, so they are  *)
(* left to the connection that deletes (DeletesUnheld).                    *)
(***************************************************************************)
THEOREM NoMessageCrosses == DeletesUnheld => (Spec => []NoCrossQueue)
<1> SUFFICES ASSUME DeletesUnheld PROVE Spec => []NoCrossQueue
  OBVIOUS
<1>1. Init => BaseInv /\ CrossInv
  <2> SUFFICES ASSUME Init PROVE CrossInv
    BY InitBase
  <2>1. \A o \in Objects : loop[o].pc = "off" /\ queue[o].buf = <<>> /\ queue[o].stopped = FALSE
    BY DEF Init, Resting, NewQueue
  <2>2. \A k \in Conns : handler[k].pc = "ready" /\ handler[k].todo = {} /\ cleaner[k].todo = {}
    BY DEF Init
  <2>3. ASSUME NEW k \in Conns PROVE chan[k].st.unacked = {}
    BY DEF Init, NewChannelState
  <2>4. Range(<<>>) = {}
    BY DEF Range
  <2> QED
    BY <2>1, <2>2, <2>3, <2>4
    DEF CrossInv, OwnBuffer, OwnMessage, Stops, OwnRecords, OwnTodo, OwnCleaning, Idling
<1>2. BaseInv /\ CrossInv /\ [Next]_vars => BaseInv' /\ CrossInv'
  BY NextCross
<1>3. CrossInv => NoCrossQueue
  BY DEF CrossInv, NoCrossQueue, OwnBuffer, OwnRecords
<1> QED
  BY <1>1, <1>2, <1>3, PTL DEF Spec

-----------------------------------------------------------------------------
(***************************************************************************)
(* Messages queued or handed out twice.                                    *)
(*                                                                         *)
(* As long as no socket has died, every step of a message takes it from    *)
(* one place to another.  The places are more than those NoDuplicate       *)
(* counts: what a stopped queue still buffers may yet be taken by its      *)
(* loop, and the delivery of a deleted queue may yet be acked.             *)
(***************************************************************************)
AllUp == \A k \in Conns : conn[k] = "up"

Holds(o, m) ==
    /\ loop[o].msg = m /\ loop[o].pc \notin Idling \cup {"untrack"}
    /\ loop[o].pc = "send" => loop[o].at \in NoAck
Places(m) ==
    {<<"queued", o>> : o \in {x \in Objects : m \in Range(queue[x].buf)}}
      \cup {<<"held", o>> : o \in {x \in Objects : Holds(x, m)}}
      \cup {<<"unacked", k>> : k \in {x \in Conns : Says(chan[x].st.unacked, m)}}
      \cup {<<"todo", k>> : k \in {x \in Conns : Says(handler[x].todo, m)}}
      \cup (IF m \in settled THEN {<<"settled", 0>>} ELSE {})
OnePlace(m) == \A p, q \in Places(m) : p = q

(* No message is twice in one place. *)
OnceIn(s) == \A i, j \in DOMAIN s : s[i] = s[j] => i = j
Distinct(R) == \A r1, r2 \in R : r1.msg = r2.msg => r1 = r2

OnceUp ==
    /\ \A m \in Messages : OnePlace(m)
    /\ \A o \in Objects : OnceIn(queue[o].buf) /\ loop[o].pc # "untrack"
    /\ \A k \in Conns : Distinct(chan[k].st.unacked) /\ Distinct(handler[k].todo)
    /\ \A m \in settled : home[m] # 0
OnceInv == AllUp => OnceUp

(* A step keeps OnceUp when each message stays, moves or is new, and no    *)
(* place gets one it has.                                                  *)
Keeps(m) == Places(m)' \subseteq Places(m)
Moves(m) == /\ \E p \in Places(m) : p \notin Places(m)'
            /\ \E q : Places(m)' \subseteq Places(m) \cup {q}
Arrives(m) == home[m] = 0 /\ home'[m] # 0 /\ \E q : Places(m)' \subseteq Places(m) \cup {q}
OnceStep ==
    /\ \A m \in Messages : Keeps(m) \/ Moves(m) \/ Arrives(m)
    /\ \A m \in Messages : home[m] # 0 => home'[m] # 0
    /\ \A o \in Objects : /\ queue'[o].buf = queue[o].buf \/ OnceIn(queue'[o].buf)
                          /\ loop'[o].pc # "untrack"
    /\ \A k \in Conns :
          /\ chan'[k].st.unacked \subseteq chan[k].st.unacked \/ Distinct(chan'[k].st.unacked)
          /\ handler'[k].todo \subseteq handler[k].todo \/ Distinct(handler'[k].todo)

(* Which places those are, before and after a step. *)
LEMMA PlacesHave ==
    ASSUME NEW m
    PROVE  /\ \A o \in Objects : /\ m \in Range(queue[o].buf) => <<"queued", o>> \in Places(m)
                                 /\ Holds(o, m) => <<"held", o>> \in Places(m)
           /\ \A k \in Conns : /\ Says(chan[k].st.unacked, m) => <<"unacked", k>> \in Places(m)
                               /\ Says(handler[k].todo, m) => <<"todo", k>> \in Places(m)
           /\ m \in settled => <<"settled", 0>> \in Places(m)
BY DEF Places

LEMMA PlacesHaveNot ==
    ASSUME NEW m
    PROVE  /\ \A o \in Objects : /\ m \notin Range(queue'[o].buf) => <<"queued", o>> \notin Places(m)'
                                 /\ ~Holds(o, m)' => <<"held", o>> \notin Places(m)'
           /\ \A k \in Conns : /\ ~Says(chan'[k].st.unacked, m) => <<"unacked", k>> \notin Places(m)'
                               /\ ~Says(handler'[k].todo, m) => <<"todo", k>> \notin Places(m)'
BY DEF Places

(* The places a step may add. *)
Adds(m, q) ==
    /\ \A o \in Objects : m \in Range(queue'[o].buf) => m \in Range(queue[o].buf) \/ q = <<"queued", o>>
    /\ \A o \in Objects : Holds(o, m)' => Holds(o, m) \/ q = <<"held", o>>
    /\ \A k \in Conns : Says(chan'[k].st.unacked, m) => Says(chan[k].st.unacked, m) \/ q = <<"unacked", k>>
    /\ \A k \in Conns : Says(handler'[k].todo, m) => Says(handler[k].todo, m) \/ q = <<"todo", k>>
    /\ m \in settled' => m \in settled \/ q = <<"settled", 0>>

LEMMA PlacesGrow ==
    ASSUME NEW m, NEW q, Adds(m, q)
    PROVE  Places(m)' \subseteq Places(m) \cup {q}
<1> SUFFICES ASSUME NEW p \in Places(m)', p # q PROVE p \in Places(m)
  OBVIOUS
<1>1. ASSUME NEW o \in Objects, m \in Range(queue'[o].buf), p = <<"queued", o>> PROVE p \in Places(m)
  BY <1>1, PlacesHave DEF Adds
<1>2. ASSUME NEW o \in Objects, Holds(o, m)', p = <<"held", o>> PROVE p \in Places(m)
  BY <1>2, PlacesHave DEF Adds
<1>3. ASSUME NEW k \in Conns, Says(chan'[k].st.unacked, m), p = <<"unacked", k>> PROVE p \in Places(m)
  BY <1>3, PlacesHave DEF Adds
<1>4. ASSUME NEW k \in Conns, Says(handler'[k].todo, m), p = <<"todo", k>> PROVE p \in Places(m)
  BY <1>4, PlacesHave DEF Adds
<1>5. ASSUME m \in settled', p = <<"settled", 0>> PROVE p \in Places(m)
  BY <1>5, PlacesHave DEF Adds
<1> QED
  BY <1>1, <1>2, <1>3, <1>4, <1>5 DEF Places

LEMMA PlacesKept ==
    ASSUME NEW m,
           \A o \in Objects : m \in Range(queue'[o].buf) => m \in Range(queue[o].buf),
           \A o \in Objects : Holds(o, m)' => Holds(o, m),
           \A k \in Conns : Says(chan'[k].st.unacked, m) => Says(chan[k].st.unacked, m),
           \A k \in Conns : Says(handler'[k].todo, m) => Says(handler[k].todo, m),
           m \in settled' => m \in settled
    PROVE  Keeps(m)
<1>1. Adds(m, <<"none", 0>>)
  BY DEF Adds
<1>2. Places(m)' \subseteq Places(m) \cup {<<"none", 0>>}
  BY <1>1, PlacesGrow
<1>3. <<"none", 0>> \notin Places(m)'
  BY DEF Places
<1> QED
  BY <1>2, <1>3 DEF Keeps

(* A message that was not published yet is nowhere. *)
LEMMA UnpublishedIsNowhere ==
    ASSUME BaseInv, OnceUp, NEW m \in Messages, home[m] = 0
    PROVE  Places(m) = {}
<1>1. ASSUME NEW o \in Objects PROVE m \notin Range(queue[o].buf) /\ ~Holds(o, m)
  <2>1. BufferHomes(o) /\ LoopHome(o) /\ 0 \notin 1..o
    BY DEF BaseInv, HomesInv, Objects
  <2> QED
    BY <2>1 DEF BufferHomes, LoopHome, Holds
<1>2. ASSUME NEW k \in Conns PROVE ~Says(chan[k].st.unacked, m) /\ ~Says(handler[k].todo, m)
  <2>1. RecordsOf(k) /\ HandlerHomes(k)
    BY DEF BaseInv, RecordsInv, HomesInv
  <2> QED
    BY <2>1 DEF RecordsOf, HandlerHomes, Says
<1>3. m \notin settled
  BY DEF OnceUp
<1> QED
  BY <1>1, <1>2, <1>3 DEF Places

LEMMA OnceKept ==
    ASSUME BaseInv, OnceUp, OnceStep, TypeOK'
    PROVE  OnceUp'
<1>1. ASSUME NEW m \in Messages PROVE OnePlace(m)' /\ (Places(m)' # {} => home'[m] # 0)
  <2>1. OnePlace(m) /\ (home[m] = 0 => Places(m) = {}) /\ (home[m] # 0 => home'[m] # 0)
    BY UnpublishedIsNowhere DEF OnceUp, OnceStep
  <2>2. CASE Keeps(m)
    BY <2>1, <2>2 DEF Keeps, OnePlace
  <2>3. CASE Moves(m)
    <3>1. PICK p \in Places(m) : p \notin Places(m)'
      BY <2>3 DEF Moves
    <3>2. PICK q : Places(m)' \subseteq Places(m) \cup {q}
      BY <2>3 DEF Moves
    <3>3. Places(m)' \subseteq {q}
      BY <2>1, <3>1, <3>2 DEF OnePlace
    <3> QED
      BY <2>1, <3>1, <3>3 DEF OnePlace
  <2>4. CASE Arrives(m)
    <3>1. PICK q : Places(m)' \subseteq Places(m) \cup {q}
      BY <2>4 DEF Arrives
    <3>2. Places(m) = {} /\ home'[m] # 0
      BY <2>1, <2>4 DEF Arrives
    <3> QED
      BY <3>1, <3>2 DEF OnePlace
  <2> QED
    BY <2>2, <2>3, <2>4 DEF OnceStep
<1>2. \A o \in Objects : OnceIn(queue'[o].buf) /\ loop'[o].pc # "untrack"
  BY DEF OnceUp, OnceStep
<1>3. ASSUME NEW k \in Conns PROVE Distinct(chan'[k].st.unacked) /\ Distinct(handler'[k].todo)
  <2>1. Distinct(chan[k].st.unacked) /\ Distinct(handler[k].todo)
    BY DEF OnceUp
  <2>2. Distinct(chan'[k].st.unacked)
    BY <2>1 DEF OnceStep, Distinct
  <2>3. Distinct(handler'[k].todo)
    BY <2>1 DEF OnceStep, Distinct
  <2> QED
    BY <2>2, <2>3
<1>4. ASSUME NEW m \in settled' PROVE home'[m] # 0
  <2>1. m \in Messages
    BY DEF TypeOK
  <2>2. <<"settled", 0>> \in Places(m)'
    BY DEF Places
  <2> QED
    BY <1>1, <2>1, <2>2
<1> QED
  BY <1>1, <1>2, <1>3, <1>4 DEF OnceUp

(* Two places of one message are the same. *)
LEMMA NotInTwo ==
    ASSUME OnceUp, NEW m \in Messages
    PROVE  /\ \A o \in Objects : Holds(o, m) =>
                 /\ \A x \in Objects : m \notin Range(queue[x].buf)
                 /\ \A k \in Conns : ~Says(chan[k].st.unacked, m)
           /\ \A k \in Conns : Says(handler[k].todo, m) =>
                 /\ \A o \in Objects : m \notin Range(queue[o].buf)
                 /\ \A x \in Conns : ~Says(chan[x].st.unacked, m)
<1>1. \A p, q \in Places(m) : p = q
  BY DEF OnceUp, OnePlace
<1>2. ASSUME NEW o \in Objects, Holds(o, m), NEW x \in Objects, m \in Range(queue[x].buf) PROVE FALSE
  <2>1. <<"held", o>> \in Places(m) /\ <<"queued", x>> \in Places(m)
    BY <1>2, PlacesHave
  <2> QED
    BY <1>1, <2>1
<1>3. ASSUME NEW o \in Objects, Holds(o, m), NEW k \in Conns, Says(chan[k].st.unacked, m) PROVE FALSE
  <2>1. <<"held", o>> \in Places(m) /\ <<"unacked", k>> \in Places(m)
    BY <1>3, PlacesHave
  <2> QED
    BY <1>1, <2>1
<1>4. ASSUME NEW k \in Conns, Says(handler[k].todo, m), NEW x \in Objects, m \in Range(queue[x].buf)
      PROVE  FALSE
  <2>1. <<"todo", k>> \in Places(m) /\ <<"queued", x>> \in Places(m)
    BY <1>4, PlacesHave
  <2> QED
    BY <1>1, <2>1
<1>5. ASSUME NEW k \in Conns, Says(handler[k].todo, m), NEW x \in Conns, Says(chan[x].st.unacked, m)
      PROVE  FALSE
  <2>1. <<"todo", k>> \in Places(m) /\ <<"unacked", x>> \in Places(m)
    BY <1>5, PlacesHave
  <2> QED
    BY <1>1, <2>1
<1> QED
  BY <1>2, <1>3, <1>4, <1>5

(* Sequences and sets of records that hold each message once. *)
LEMMA AppendOnce ==
    ASSUME NEW s \in Seq(Messages), OnceIn(s), NEW m \in Messages, m \notin Range(s)
    PROVE  OnceIn(Append(s, m))
<1>1. /\ \A i \in 1..Len(s) : Append(s, m)[i] = s[i] /\ s[i] # m
      /\ Append(s, m)[Len(s) + 1] = m
      /\ DOMAIN s = 1..Len(s) /\ DOMAIN Append(s, m) = 1..(Len(s) + 1) /\ Len(s) \in Nat
  BY DEF Range
<1>2. ASSUME NEW i \in 1..(Len(s) + 1), NEW j \in 1..(Len(s) + 1), Append(s, m)[i] = Append(s, m)[j]
      PROVE  i = j
  <2>1. i \in 1..Len(s) \/ i = Len(s) + 1
    BY <1>1
  <2>2. j \in 1..Len(s) \/ j = Len(s) + 1
    BY <1>1
  <2> QED
    BY <1>1, <1>2, <2>1, <2>2 DEF OnceIn
<1> QED
  BY <1>1, <1>2 DEF OnceIn

LEMMA TailOnce ==
    ASSUME NEW s \in Seq(Messages), OnceIn(s), s # <<>>
    PROVE  OnceIn(Tail(s)) /\ Head(s) \notin Range(Tail(s))
<1>1. /\ Head(s) = s[1] /\ Len(s) \in Nat \ {0} /\ DOMAIN s = 1..Len(s)
      /\ DOMAIN Tail(s) = 1..(Len(s) - 1)
      /\ \A i \in 1..(Len(s) - 1) : Tail(s)[i] = s[i + 1]
  OBVIOUS
<1>2. \A i \in 1..(Len(s) - 1) : i + 1 \in 1..Len(s) /\ i + 1 # 1 /\ 1 \in 1..Len(s)
  BY <1>1
<1>3. \A i \in 1..(Len(s) - 1) : Tail(s)[i] # Head(s)
  BY <1>1, <1>2 DEF OnceIn
<1>4. ASSUME NEW i \in 1..(Len(s) - 1), NEW j \in 1..(Len(s) - 1), Tail(s)[i] = Tail(s)[j]
      PROVE  i = j
  <2>1. i + 1 = j + 1
    BY <1>1, <1>2, <1>4 DEF OnceIn
  <2> QED
    BY <2>1
<1> QED
  BY <1>1, <1>3, <1>4 DEF OnceIn, Range

LEMMA MarkedDistinct ==
    ASSUME NEW s \in ChannelDeliveryState, Distinct(s.unacked)
    PROVE  /\ Distinct(DetachQueue(s, Name).unacked)
           /\ \A C : Distinct(DetachConsumers(s, C).unacked)
<1>1. \A r \in s.unacked : r \in DeliveryRecord /\ MarkDeleted(r).msg = r.msg /\ MarkCancelled(r).msg = r.msg
  BY MarkMsg DEF ChannelDeliveryState
<1>2. Distinct(DetachQueue(s, Name).unacked)
  <2>1. \A r \in DetachQueue(s, Name).unacked : \E x \in s.unacked :
           r.msg = x.msg /\ r = IF x \in OfQueue(s, Name) THEN MarkDeleted(x) ELSE x
    BY <1>1, DetachQueueRecords DEF OfQueue
  <2> QED
    BY <2>1 DEF Distinct
<1>3. ASSUME NEW C PROVE Distinct(DetachConsumers(s, C).unacked)
  <2> DEFINE T == UNION {s.byConsumer[c] : c \in C}
             U == {IF r.tag \in T THEN MarkCancelled(r) ELSE r : r \in s.unacked}
  <2>1. DetachConsumers(s, C).unacked = U
    BY DEF DetachConsumers, ChannelDeliveryState
  <2> HIDE DEF T
  <2>2. \A r \in U : \E x \in s.unacked :
           r.msg = x.msg /\ r = IF x.tag \in T THEN MarkCancelled(x) ELSE x
    BY <1>1
  <2> HIDE DEF U
  <2>3. Distinct(U)
    BY <2>2 DEF Distinct
  <2> QED
    BY <2>1, <2>3
<1> QED
  BY <1>2, <1>3


LEMMA PushedOnce ==
    ASSUME TypeOK, OnceUp, NEW o \in Objects, NEW m \in Messages, m \notin Range(queue[o].buf),
           queue' = Pushed(o, m)
    PROVE  /\ \A x \in Objects : queue'[x].buf = queue[x].buf \/ OnceIn(queue'[x].buf)
           /\ \A x \in Objects : \A n \in Range(queue'[x].buf) :
                 n \in Range(queue[x].buf) \/ (n = m /\ x = o)
<1>1. queue \in [Objects -> Queue] /\ queue[o] \in Queue /\ queue[o].buf \in Seq(Messages)
  BY DEF TypeOK, Queue
<1>2. CASE queue[o].stopped
  BY <1>2 DEF Pushed
<1>3. CASE ~queue[o].stopped
  <2> DEFINE b == Append(queue[o].buf, m)
             q == [queue[o] EXCEPT !.buf = b]
  <2>1. b \in Seq(Messages) /\ Range(b) = Range(queue[o].buf) \cup {m} /\ OnceIn(b)
    BY <1>1, AppendRange, AppendOnce DEF OnceUp
  <2>2. queue' = [queue EXCEPT ![o] = q]
    BY <1>1, <1>3 DEF Pushed
  <2> HIDE DEF b
  <2>3. q.buf = b
    BY <1>1, <2>1 DEF Queue
  <2> HIDE DEF q
  <2>4. queue'[o].buf = b /\ \A x \in Objects : x # o => queue'[x] = queue[x]
    BY <1>1, <2>2, <2>3
  <2> QED
    BY <2>1, <2>4
<1> QED
  BY <1>2, <1>3

LEMMA TakenOnce ==
    ASSUME TypeOK, OnceUp, NEW o \in Objects, queue[o].buf # <<>>,
           queue' = [queue EXCEPT ![o].buf = Tail(@)]
    PROVE  /\ \A x \in Objects : /\ queue'[x].buf = queue[x].buf \/ OnceIn(queue'[x].buf)
                                 /\ Range(queue'[x].buf) \subseteq Range(queue[x].buf)
           /\ Head(queue[o].buf) \in Messages
           /\ Head(queue[o].buf) \in Range(queue[o].buf) /\ Head(queue[o].buf) \notin Range(queue'[o].buf)
<1>1. queue \in [Objects -> Queue] /\ queue[o] \in Queue /\ queue[o].buf \in Seq(Messages)
  BY DEF TypeOK, Queue
<1>2. /\ \A x \in Objects : x # o => queue'[x].buf = queue[x].buf
      /\ Range(queue[o].buf) = Range(queue'[o].buf) \cup {Head(queue[o].buf)}
      /\ Head(queue[o].buf) \in Messages
  BY TailFields
<1> DEFINE b == Tail(queue[o].buf)
           q == [queue[o] EXCEPT !.buf = b]
<1>3. OnceIn(b) /\ Head(queue[o].buf) \notin Range(b)
  BY <1>1, TailOnce DEF OnceUp
<1>4. queue' = [queue EXCEPT ![o] = q]
  BY <1>1
<1> HIDE DEF b
<1>5. q.buf = b
  BY <1>1 DEF Queue
<1> HIDE DEF q
<1>6. queue'[o].buf = b
  BY <1>1, <1>4, <1>5
<1> QED
  BY <1>2, <1>3, <1>6

(* A consumer's cancellation and a queue's deletion only mark deliveries. *)
MarksOnly ==
    \A k \in Conns : /\ Distinct(chan'[k].st.unacked)
                     /\ \A r \in chan'[k].st.unacked : Says(chan[k].st.unacked, r.msg)

LEMMA DetachedMarks ==
    ASSUME TypeOK, OnceUp, NEW C, chan' = Detached(C)
    PROVE  MarksOnly
<1> SUFFICES ASSUME NEW k \in Conns
             PROVE  /\ Distinct(chan'[k].st.unacked)
                    /\ \A r \in chan'[k].st.unacked : Says(chan[k].st.unacked, r.msg)
  BY DEF MarksOnly
<1>1. PICK s \in ChannelDeliveryState : s = chan[k].st /\ chan[k] \in Channel
  BY DEF TypeOK, Channel
<1> DEFINE d == DetachConsumers(s, C)
           e == [chan[k] EXCEPT !.st = d]
<1>2. chan'[k] = e
  BY <1>1 DEF Detached
<1>3. Distinct(d.unacked)
  BY <1>1, MarkedDistinct DEF OnceUp
<1>4. \A r \in d.unacked : Says(s.unacked, r.msg)
  <2>1. \A r \in d.unacked : \E x \in s.unacked : x.msg = r.msg
    BY DetachConsumersFields
  <2> HIDE DEF d
  <2> QED
    BY <2>1 DEF Says
<1> HIDE DEF d
<1>5. e.st = d
  BY <1>1 DEF Channel
<1> HIDE DEF e
<1> QED
  BY <1>1, <1>2, <1>3, <1>4, <1>5

LEMMA MarksSay ==
    ASSUME MarksOnly, NEW m, NEW k \in Conns, Says(chan'[k].st.unacked, m)
    PROVE  Says(chan[k].st.unacked, m)
BY DEF MarksOnly, Says

-----------------------------------------------------------------------------
(* The delivery loops. *)
LEMMA LoopOnce ==
    ASSUME OnceUp, NEW o \in Objects, LoopMoved(o), loop'[o].pc # "untrack", UNCHANGED <<home, handler>>,
           \A m \in Messages : Keeps(m) \/ Moves(m),
           \A x \in Objects : queue'[x].buf = queue[x].buf \/ OnceIn(queue'[x].buf),
           \A k \in Conns : chan'[k].st.unacked \subseteq chan[k].st.unacked
                              \/ Distinct(chan'[k].st.unacked)
    PROVE  OnceStep
<1>1. \A x \in Objects : loop'[x].pc # "untrack"
  BY DEF LoopMoved, OnceUp
<1> QED
  BY <1>1 DEF OnceStep

(* Loops other than o hold what they held. *)
LEMMA HoldsElsewhere ==
    ASSUME NEW o \in Objects, LoopMoved(o), NEW x \in Objects, x # o, NEW m, Holds(x, m)'
    PROVE  Holds(x, m)
BY DEF LoopMoved, Holds

LEMMA HoldsStill ==
    ASSUME NEW o \in Objects, LoopMoved(o), loop'[o].msg = loop[o].msg,
           loop[o].pc \notin Idling \cup {"send", "untrack"}, NEW x \in Objects, NEW m, Holds(x, m)'
    PROVE  Holds(x, m)
BY HoldsElsewhere DEF Holds

LEMMA HoldsNothing ==
    ASSUME NEW o \in Objects, LoopMoved(o), loop'[o].pc \in Idling, NEW x \in Objects, NEW m, Holds(x, m)'
    PROVE  Holds(x, m)
BY HoldsElsewhere DEF Holds

LEMMA MovesOnlyOnce ==
    ASSUME OnceUp, NEW o \in Objects, MovesOnly(o)
    PROVE  OnceStep
<1>1. /\ LoopMoved(o) /\ loop'[o].pc # "untrack" /\ UNCHANGED <<home, handler, settled>>
      /\ \A x \in Objects : queue'[x].buf = queue[x].buf
      /\ \A k \in Conns : chan'[k].st.unacked = chan[k].st.unacked
  BY DEF MovesOnly, Rest, QuietQueues, QuietChannels
<1>2. ASSUME NEW m \in Messages PROVE Keeps(m)
  <2>1. ASSUME NEW x \in Objects, Holds(x, m)' PROVE Holds(x, m)
    <3>1. CASE loop[o].pc \in Idling
      BY <1>1, <2>1, <3>1, HoldsNothing DEF MovesOnly
    <3>2. CASE loop[o].pc \notin Idling
      BY <1>1, <2>1, <3>2, HoldsStill DEF MovesOnly, OnceUp
    <3> QED
      BY <3>1, <3>2
  <2> QED
    BY <1>1, <2>1, PlacesKept
<1> QED
  BY <1>1, <1>2, LoopOnce

LEMMA TakeMessageOnce ==
    ASSUME BaseInv, OnceUp, NEW o \in Objects, TakeMessage(o)
    PROVE  OnceStep
<1>1. UNCHANGED <<home, handler, settled, chan>> /\ loop[o].pc = "select" /\ TypeOK
  BY DEF TakeMessage, LoopOnly, BaseInv
<1>2. /\ LoopMoved(o) /\ loop'[o].pc = "lookup" /\ loop'[o].msg = Head(queue[o].buf)
      /\ queue[o].buf # <<>> /\ queue' = [queue EXCEPT ![o].buf = Tail(@)]
  BY TakeMessageFields
<1>3. PICK g : g = Head(queue[o].buf)
  OBVIOUS
<1>4. /\ \A x \in Objects : /\ queue'[x].buf = queue[x].buf \/ OnceIn(queue'[x].buf)
                            /\ Range(queue'[x].buf) \subseteq Range(queue[x].buf)
      /\ g \in Range(queue[o].buf) /\ g \notin Range(queue'[o].buf)
  BY <1>1, <1>2, <1>3, TakenOnce
<1>5. \A m \in Messages : \A x \in Objects : Holds(x, m)' => Holds(x, m) \/ (x = o /\ m = g)
  BY <1>2, <1>3, HoldsElsewhere DEF Holds
<1>6. ASSUME NEW m \in Messages PROVE Keeps(m) \/ Moves(m)
  <2>1. CASE m # g
    BY <1>1, <1>4, <1>5, <2>1, PlacesKept
  <2>2. CASE m = g
    <3>1. Adds(m, <<"held", o>>)
      BY <1>1, <1>4, <1>5 DEF Adds
    <3>2. <<"queued", o>> \in Places(m) /\ <<"queued", o>> \notin Places(m)'
      BY <1>4, <2>2, PlacesHave, PlacesHaveNot
    <3> QED
      BY <3>1, <3>2, PlacesGrow DEF Moves
  <2> QED
    BY <2>1, <2>2
<1> QED
  BY <1>1, <1>2, <1>4, <1>6, LoopOnce

LEMMA PushBackOnce ==
    ASSUME BaseInv, OnceUp, NEW o \in Objects, PushBack(o)
    PROVE  OnceStep
<1>1. UNCHANGED <<home, handler, settled, chan>> /\ loop[o].pc = "push" /\ Goto(o, "top")
      /\ queue' = Pushed(o, loop[o].msg) /\ TypeOK /\ "top" \in LoopPC /\ loop[o] \in Loop
  BY DEF PushBack, LoopOnly, BaseInv, TypeOK, LoopPC
<1>2. LoopMoved(o) /\ loop'[o].pc = "top"
  BY <1>1, GotoFields
<1>3. PICK g \in Messages : g = loop[o].msg
  BY <1>1 DEF Loop
<1>4. Holds(o, g) /\ ~Holds(o, g)'
  BY <1>1, <1>2, <1>3 DEF Holds, Idling
<1>5. g \notin Range(queue[o].buf)
  BY <1>4, NotInTwo
<1>6. /\ \A x \in Objects : queue'[x].buf = queue[x].buf \/ OnceIn(queue'[x].buf)
      /\ \A x \in Objects : \A n \in Range(queue'[x].buf) : n \in Range(queue[x].buf) \/ (n = g /\ x = o)
  BY <1>1, <1>3, <1>5, PushedOnce
<1>7. \A m \in Messages : \A x \in Objects : Holds(x, m)' => Holds(x, m)
  BY <1>2, HoldsNothing DEF Idling
<1>8. ASSUME NEW m \in Messages PROVE Keeps(m) \/ Moves(m)
  <2>1. CASE m # g
    BY <1>1, <1>6, <1>7, <2>1, PlacesKept
  <2>2. CASE m = g
    <3>1. Adds(m, <<"queued", o>>)
      BY <1>1, <1>6, <1>7 DEF Adds
    <3>2. <<"held", o>> \in Places(m) /\ <<"held", o>> \notin Places(m)'
      BY <1>4, <2>2, PlacesHave, PlacesHaveNot
    <3> QED
      BY <3>1, <3>2, PlacesGrow DEF Moves
  <2> QED
    BY <2>1, <2>2
<1> QED
  BY <1>1, <1>2, <1>6, <1>8, LoopOnce

LEMMA CreateStateOnce ==
    ASSUME BaseInv, OnceUp, NEW o \in Objects, CreateState(o)
    PROVE  OnceStep
<1>1. UNCHANGED <<home, handler, settled, queue>> /\ TypeOK
  BY DEF CreateState, BaseInv
<1>2. PICK k \in Conns : k = ConnOf[loop[o].at]
  BY CreateStateFields
<1>3. /\ loop[o].pc = "create" /\ chan' = [chan EXCEPT ![k] = Created(k)]
      /\ LoopMoved(o) /\ loop'[o].pc = "track" /\ loop'[o].msg = loop[o].msg
  BY <1>2, CreateStateFields
<1>4. \A x \in Conns : chan'[x].st.unacked = chan[x].st.unacked
  <2>1. Created(k).st.unacked = chan[k].st.unacked
    BY CreatedFields
  <2> QED
    BY <1>1, <1>3, <2>1 DEF TypeOK
<1>5. \A m \in Messages : \A x \in Objects : Holds(x, m)' => Holds(x, m)
  BY <1>3, HoldsStill DEF Idling
<1>6. \A m \in Messages : Keeps(m)
  BY <1>1, <1>4, <1>5, PlacesKept
<1> QED
  BY <1>1, <1>3, <1>4, <1>6, LoopOnce

(* The loop gives its message to the record, or keeps it for a no-ack      *)
(* consumer.                                                               *)
LEMMA TrackOnce ==
    ASSUME BaseInv, OnceUp, NEW o \in Objects, Track(o), cons[loop[o].at] = "active"
    PROVE  OnceStep
<1>1. UNCHANGED <<home, handler, settled, queue>> /\ TypeOK
  BY DEF Track, BaseInv
<1>2. PICK c \in Consumers, k \in Conns, g \in Messages, s \in ChannelDeliveryState :
        TrackedAs(o, c, k, g, s)
  BY TrackFields
<1>3. /\ LoopMoved(o) /\ loop[o].pc = "track" /\ loop'[o].pc = "send" /\ loop'[o].msg = g
      /\ g = loop[o].msg /\ loop'[o].at = c
      /\ \A x \in Conns \ {k} : chan'[x] = chan[x]
      /\ chan'[k].st = TrackedState(s, c, g) /\ s = chan[k].st
  BY <1>2 DEF TrackedAs
<1> DEFINE d == TrackedState(s, c, g)
           n == NewRecord(s.last + 1, c, Name, g)
<1>4. n.msg = g /\ d.unacked = IF c \in NoAck THEN s.unacked ELSE s.unacked \cup {n}
  BY TrackedStateFields
<1>5. chan'[k].st = d
  BY <1>3
<1> HIDE DEF d, n
<1>6. \A m \in Messages : \A x \in Objects : Holds(x, m)' => Holds(x, m)
  BY <1>3, HoldsStill DEF Idling
<1>7. Holds(o, g)
  BY <1>3 DEF Holds, Idling
<1>8. ~Says(s.unacked, g)
  BY <1>3, <1>7, NotInTwo
<1>9. Distinct(s.unacked)
  BY <1>3 DEF OnceUp
<1>10. Distinct(d.unacked)
  BY <1>4, <1>8, <1>9 DEF Distinct, Says
<1>11. \A x \in Conns : chan'[x].st.unacked \subseteq chan[x].st.unacked \/ Distinct(chan'[x].st.unacked)
  BY <1>3, <1>5, <1>10
<1>12. ASSUME NEW m \in Messages PROVE Keeps(m) \/ Moves(m)
  <2>1. CASE m # g \/ c \in NoAck
    <3>1. Says(d.unacked, m) => Says(s.unacked, m)
      BY <1>4, <2>1 DEF Says
    <3>2. \A x \in Conns : Says(chan'[x].st.unacked, m) => Says(chan[x].st.unacked, m)
      BY <1>3, <1>5, <3>1
    <3> QED
      BY <1>1, <1>6, <3>2, PlacesKept
  <2>2. CASE m = g /\ c \notin NoAck
    <3>1. Adds(m, <<"unacked", k>>)
      BY <1>1, <1>3, <1>6 DEF Adds
    <3>2. ~Holds(o, m)'
      BY <1>3, <2>2 DEF Holds
    <3>3. <<"held", o>> \in Places(m) /\ <<"held", o>> \notin Places(m)'
      BY <1>7, <2>2, <3>2, PlacesHave, PlacesHaveNot
    <3> QED
      BY <3>1, <3>3, PlacesGrow DEF Moves
  <2> QED
    BY <2>1, <2>2
<1> QED
  BY <1>1, <1>3, <1>11, <1>12, LoopOnce

LEMMA SendOnce ==
    ASSUME BaseInv, AllUp, OnceUp, NEW o \in Objects, Send(o)
    PROVE  OnceStep
<1>1. UNCHANGED <<home, handler, queue, chan>> /\ TypeOK /\ loop[o].pc = "send" /\ loop[o] \in Loop
      /\ "top" \in LoopPC
  BY DEF Send, BaseInv, TypeOK, LoopPC
<1>2. loop[o].at \in Consumers
  BY <1>1 DEF BaseInv, LoopsInv, LoopOf, Aiming
<1>3. conn[ConnOf[loop[o].at]] = "up"
  BY <1>2, DeliveryAssumption DEF AllUp
<1>4. Goto(o, "top") /\ settled' = IF loop[o].at \in NoAck THEN settled \cup {loop[o].msg} ELSE settled
  BY <1>3 DEF Send, Trying
<1>5. LoopMoved(o) /\ loop'[o].pc = "top"
  BY <1>1, <1>4, GotoFields
<1>6. \A m \in Messages : \A x \in Objects : Holds(x, m)' => Holds(x, m)
  BY <1>5, HoldsNothing DEF Idling
<1>7. ASSUME NEW m \in Messages PROVE Keeps(m) \/ Moves(m)
  <2>1. CASE loop[o].at \notin NoAck \/ m # loop[o].msg
    BY <1>1, <1>4, <1>6, <2>1, PlacesKept
  <2>2. CASE loop[o].at \in NoAck /\ m = loop[o].msg
    <3>1. Adds(m, <<"settled", 0>>)
      BY <1>1, <1>6 DEF Adds
    <3>2. Holds(o, m) /\ ~Holds(o, m)'
      BY <1>1, <1>5, <2>2 DEF Holds, Idling
    <3>3. <<"held", o>> \in Places(m) /\ <<"held", o>> \notin Places(m)'
      BY <3>2, PlacesHave, PlacesHaveNot
    <3> QED
      BY <3>1, <3>3, PlacesGrow DEF Moves
  <2> QED
    BY <2>1, <2>2
<1> QED
  BY <1>1, <1>5, <1>7, LoopOnce

LEMMA RemoveFailedOnce ==
    ASSUME BaseInv, OnceUp, NEW o \in Objects, RemoveFailedConsumer(o)
    PROVE  OnceStep
<1>1. UNCHANGED <<home, handler, settled>> /\ TypeOK /\ loop[o].pc = "remove" /\ Goto(o, "refresh")
      /\ "refresh" \in LoopPC
  BY DEF RemoveFailedConsumer, BaseInv, LoopPC
<1>2. LoopMoved(o) /\ loop'[o].pc = "refresh" /\ loop'[o].msg = loop[o].msg
  BY <1>1, GotoFields
<1>3. PICK C \in SUBSET Consumers :
        (\A c \in C : cons[c] = "active") /\ CancelLocked(C) /\ chan' = Detached(C)
  BY RemoveFailedFields
<1>4. \A x \in Objects : queue'[x].buf = queue[x].buf
  BY <1>3, CancelFields DEF QuietQueues
<1>5. MarksOnly
  BY <1>1, <1>3, DetachedMarks
<1>6. \A m \in Messages : \A x \in Objects : Holds(x, m)' => Holds(x, m)
  BY <1>1, <1>2, HoldsStill DEF Idling
<1>7. \A m \in Messages : Keeps(m)
  BY <1>1, <1>4, <1>5, <1>6, MarksSay, PlacesKept
<1> QED
  BY <1>1, <1>2, <1>4, <1>5, <1>7, LoopOnce DEF MarksOnly

LEMMA LoopOnceStep ==
    ASSUME BaseInv, AllUp, OnceUp, NEW o \in Objects, LoopStep(o)
    PROVE  OnceStep
<1>1. ASSUME MovesOnly(o) PROVE OnceStep
  BY <1>1, MovesOnlyOnce
<1>2. CASE LoopTop(o) \/ LoopWoken(o) \/ Lookup(o) \/ Round(o) \/ Try(o) \/ WaitThrottled(o)
             \/ LockSend(o) \/ Failed(o)
  BY <1>1, <1>2, LoopTopMoves, LoopWokenMoves, LookupMoves, RoundMoves, TryMoves, WaitMoves,
     LockSendMoves, FailedMoves
<1>3. CASE Track(o)
  BY <1>1, <1>3, TrackFailMoves, TrackOnce
<1>4. CASE Untrack(o)
  BY <1>4 DEF Untrack, OnceUp
<1> QED
  BY <1>2, <1>3, <1>4, TakeMessageOnce, PushBackOnce, CreateStateOnce, SendOnce, RemoveFailedOnce
  DEF LoopStep


-----------------------------------------------------------------------------
(* The methods of a connection and the goroutine that runs them. *)
LEMMA HandlerOnce ==
    ASSUME OnceUp, NEW k \in Conns, HandlerMoved(k),
           handler'[k].todo \subseteq handler[k].todo \/ Distinct(handler'[k].todo),
           \A m \in Messages : home[m] # 0 => home'[m] # 0,
           \A m \in Messages : Keeps(m) \/ Moves(m) \/ Arrives(m),
           \A o \in Objects : queue'[o].buf = queue[o].buf \/ OnceIn(queue'[o].buf),
           \A o \in Objects : loop'[o].pc # "untrack",
           \A x \in Conns : chan'[x].st.unacked \subseteq chan[x].st.unacked
                              \/ Distinct(chan'[x].st.unacked)
    PROVE  OnceStep
BY DEF OnceStep, HandlerMoved

LEMMA TodoElsewhere ==
    ASSUME NEW k \in Conns, HandlerMoved(k), NEW x \in Conns, x # k, NEW m, Says(handler'[x].todo, m)
    PROVE  Says(handler[x].todo, m)
BY DEF HandlerMoved

LEMMA HoldsSame ==
    ASSUME loop' = loop, NEW x \in Objects, NEW m, Holds(x, m)'
    PROVE  Holds(x, m)
BY DEF Holds

(* Steps that leave messages where they are. *)
LEMMA QuietOnce ==
    ASSUME OnceUp, UNCHANGED <<home, settled>>, MarksOnly,
           \A o \in Objects : queue'[o].buf = queue[o].buf /\ loop'[o].pc # "untrack",
           \A m \in Messages : \A o \in Objects : Holds(o, m)' => Holds(o, m),
           \A k \in Conns : handler'[k].todo \subseteq handler[k].todo
    PROVE  OnceStep
<1>1. ASSUME NEW m \in Messages PROVE Keeps(m)
  <2>1. \A k \in Conns : Says(handler'[k].todo, m) => Says(handler[k].todo, m)
    BY DEF Says
  <2> QED
    BY <2>1, MarksSay, PlacesKept
<1> QED
  BY <1>1 DEF OnceStep, MarksOnly

LEMMA SameMarks ==
    ASSUME OnceUp, chan' = chan
    PROVE  MarksOnly
BY DEF MarksOnly, OnceUp, Says

LEMMA SameLoops ==
    ASSUME OnceUp, loop' = loop
    PROVE  /\ \A o \in Objects : loop'[o].pc # "untrack"
           /\ \A m \in Messages : \A o \in Objects : Holds(o, m)' => Holds(o, m)
BY HoldsSame DEF OnceUp

LEMMA PublishOnce ==
    ASSUME BaseInv, OnceUp, NEW k \in Conns, NEW g \in Messages, Publish(k, g)
    PROVE  OnceStep
<1>1. UNCHANGED <<current, loop, chan, settled>> /\ home[g] = 0 /\ TypeOK
  BY DEF Publish, BaseInv
<1>2. HandlerMoved(k) /\ \A x \in Conns : handler'[x].todo = handler[x].todo
  BY BeginReady DEF Publish
<1>3. PICK o \in Objects : o = current /\ o # 0
  BY DeclaredObject DEF Publish
<1>4. /\ home'[g] # 0 /\ \A m \in Messages : home[m] # 0 => home'[m] # 0
  BY <1>1, <1>3 DEF Publish, TypeOK
<1>5. g \notin Range(queue[o].buf)
  <2>1. BufferHomes(o) /\ 0 \notin 1..o
    BY DEF BaseInv, HomesInv, Objects
  <2> QED
    BY <1>1, <2>1 DEF BufferHomes
<1>6. queue' = Pushed(o, g)
  BY <1>3 DEF Publish
<1>7. /\ \A x \in Objects : queue'[x].buf = queue[x].buf \/ OnceIn(queue'[x].buf)
      /\ \A x \in Objects : \A n \in Range(queue'[x].buf) : n \in Range(queue[x].buf) \/ (n = g /\ x = o)
  BY <1>1, <1>5, <1>6, PushedOnce
<1>8. ASSUME NEW m \in Messages PROVE Keeps(m) \/ Arrives(m)
  <2>1. CASE m # g
    BY <1>1, <1>2, <1>7, <2>1, HoldsSame, PlacesKept
  <2>2. CASE m = g
    <3>1. Adds(m, <<"queued", o>>)
      BY <1>1, <1>2, <1>7, HoldsSame DEF Adds
    <3> QED
      BY <1>1, <1>4, <2>2, <3>1, PlacesGrow DEF Arrives
  <2> QED
    BY <2>1, <2>2
<1> QED
  BY <1>1, <1>2, <1>4, <1>7, <1>8, HandlerOnce, SameLoops

LEMMA DeclareOnce ==
    ASSUME BaseInv, OnceUp, NEW k \in Conns, Declare(k)
    PROVE  OnceStep
<1>1. UNCHANGED <<queue, loop, chan, home, settled>>
  BY DEF Declare
<1>2. \A x \in Conns : handler'[x].todo = handler[x].todo
  BY BeginReady DEF Declare
<1> QED
  BY <1>1, <1>2, QuietOnce, SameMarks, SameLoops

LEMMA DeleteOnce ==
    ASSUME BaseInv, OnceUp, NEW k \in Conns, Delete(k)
    PROVE  OnceStep
<1>1. UNCHANGED <<loop, home, settled>> /\ TypeOK /\ current \in Objects
  BY DeclaredObject DEF Delete, BaseInv
<1>2. \A x \in Conns : handler'[x].todo = handler[x].todo
  BY BeginReady DEF Delete
<1>3. \A x \in Objects : queue'[x].buf = queue[x].buf
  <2> DEFINE b == loop[current].pc # "off"
             q == [queue[current] EXCEPT !.stopped = TRUE, !.done = b]
  <2>1. queue' = [queue EXCEPT ![current] = q] /\ queue[current] \in Queue
    BY <1>1 DEF Delete, TypeOK
  <2> HIDE DEF b
  <2>2. q.buf = queue[current].buf
    BY <2>1 DEF Queue
  <2> HIDE DEF q
  <2> QED
    BY <1>1, <2>1, <2>2 DEF TypeOK
<1>4. MarksOnly
  <2> SUFFICES ASSUME NEW x \in Conns
               PROVE  /\ Distinct(chan'[x].st.unacked)
                      /\ \A r \in chan'[x].st.unacked : Says(chan[x].st.unacked, r.msg)
    BY DEF MarksOnly
  <2>1. PICK s \in ChannelDeliveryState : s = chan[x].st /\ chan[x] \in Channel
    BY <1>1 DEF TypeOK, Channel
  <2> DEFINE d == DetachQueue(s, Name)
             e == [chan[x] EXCEPT !.st = d]
  <2>2. chan'[x] = e
    BY <2>1 DEF Delete
  <2>3. Distinct(d.unacked)
    BY <2>1, MarkedDistinct DEF OnceUp
  <2>4. \A r \in d.unacked : \E y \in s.unacked : y.msg = r.msg
    BY DetachQueueFollows
  <2> HIDE DEF d
  <2>5. e.st = d
    BY <2>1 DEF Channel
  <2> HIDE DEF e
  <2> QED
    BY <2>1, <2>2, <2>3, <2>4, <2>5 DEF Says
<1> QED
  BY <1>1, <1>2, <1>3, <1>4, QuietOnce, SameLoops

LEMMA ConsumeOnce ==
    ASSUME BaseInv, BaseInv', OnceUp, NEW k \in Conns, NEW c \in Consumers, Consume(k, c)
    PROVE  OnceStep
<1>1. UNCHANGED <<loop, chan, home, settled>> /\ TypeOK /\ current \in Objects /\ queue \in [Objects -> Queue]
      /\ handler[k] \in Handler /\ byQueue' \in ConsumerList
  BY DeclaredObject DEF Consume, BaseInv, TypeOK
<1> DEFINE h == [handler[k] EXCEPT !.pc = "start", !.obj = current]
<1>2. h \in Handler /\ h.todo = handler[k].todo
  BY <1>1 DEF Handler
<1>3. Begin(k, "consume", h)
  BY DEF Consume
<1> HIDE DEF h
<1>4. HandlerMoved(k) /\ handler'[k].todo = handler[k].todo
  BY <1>1, <1>2, <1>3, BeginFields
<1>5. \A x \in Objects : queue'[x].buf = queue[x].buf
  <2> DEFINE i == Cardinality(Members(byQueue'))
             q == [queue[current] EXCEPT !.mirror = i]
  <2>1. queue' = [queue EXCEPT ![current] = q] /\ queue[current] \in Queue
    BY <1>1 DEF Consume
  <2> HIDE DEF i
  <2>2. q.buf = queue[current].buf
    BY <2>1 DEF Queue
  <2> HIDE DEF q
  <2> QED
    BY <1>1, <2>1, <2>2
<1> QED
  BY <1>1, <1>4, <1>5, QuietOnce, SameMarks, SameLoops DEF HandlerMoved

LEMMA CancelOnce ==
    ASSUME BaseInv, OnceUp, NEW k \in Conns, Close(k) \/ \E c \in Consumers : Cancel(k, c)
    PROVE  OnceStep
<1>1. UNCHANGED <<loop, home, settled>> /\ TypeOK /\ handler[k] \in Handler
  BY DEF Close, Cancel, BaseInv, TypeOK
<1>2. ASSUME NEW C \in SUBSET Consumers, \A x \in C : cons[x] = "active", CancelLocked(C),
             chan' = Detached(C), \A x \in Conns : handler'[x].todo = handler[x].todo
      PROVE  OnceStep
  <2>1. \A x \in Objects : queue'[x].buf = queue[x].buf
    BY <1>2, CancelFields DEF QuietQueues
  <2>2. MarksOnly
    BY <1>1, <1>2, DetachedMarks
  <2> QED
    BY <1>1, <1>2, <2>1, <2>2, QuietOnce, SameLoops
<1>3. ASSUME NEW c \in Consumers, Cancel(k, c) PROVE OnceStep
  <2>1. \A x \in Conns : handler'[x].todo = handler[x].todo
    BY <1>3, BeginReady DEF Cancel
  <2>2. {c} \in SUBSET Consumers /\ (\A x \in {c} : cons[x] = "active")
        /\ CancelLocked({c}) /\ chan' = Detached({c})
    BY <1>3 DEF Cancel
  <2> QED
    BY <1>2, <2>1, <2>2
<1>4. CASE Close(k)
  <2> DEFINE C == Registered(k)
             h == [handler[k] EXCEPT !.pc = "barrier", !.wait = C]
  <2>1. C \in SUBSET Consumers /\ \A x \in C : cons[x] = "active"
    BY DEF Registered, ConsumersOf
  <2>2. CancelLocked(C) /\ chan' = Detached(C) /\ Begin(k, "close", h)
    BY <1>4 DEF Close
  <2> HIDE DEF C
  <2>3. h \in Handler /\ h.todo = handler[k].todo
    BY <1>1, <2>1 DEF Handler
  <2> HIDE DEF h
  <2>4. HandlerMoved(k) /\ handler'[k].todo = handler[k].todo
    BY <1>1, <2>2, <2>3, BeginFields
  <2>5. \A x \in Conns : handler'[x].todo = handler[x].todo
    BY <2>4 DEF HandlerMoved
  <2> QED
    BY <1>2, <2>1, <2>2, <2>5
<1> QED
  BY <1>3, <1>4

(* popUnackedRecords leaves nothing of what it returns. *)
LEMMA PopTakesAll ==
    ASSUME BaseInv, NEW k \in Conns, NEW t, NEW multiple, Pop(k, t, multiple),
           NEW r \in chan'[k].st.unacked
    PROVE  r \notin AckedRecords(chan[k].st, t, multiple)
<1>1. TypeOK /\ chan \in [Conns -> Channel]
  BY DEF BaseInv, TypeOK
<1>2. PICK s \in ChannelDeliveryState : s = chan[k].st
  BY <1>1 DEF Channel
<1> DEFINE A == AckedRecords(s, t, multiple)
           d == PopUnacked(s, t, multiple)
           u == DeleteUnacked(s, Tags(A))
<1>3. d \in ChannelDeliveryState /\ d.unacked = u.unacked
  BY PopUnackedType, PopUnackedFields
<1>4. u.unacked = {x \in s.unacked : x.tag \notin Tags(A)}
  BY DeleteUnackedFields
<1>5. chan' = [chan EXCEPT ![k].st = d]
  BY <1>1, <1>2 DEF Pop
<1> HIDE DEF d, u
<1>6. chan'[k].st = d
  BY <1>1, <1>3, <1>5, ChannelSet
<1> QED
  BY <1>2, <1>3, <1>4, <1>6 DEF Tags

LEMMA AckOnce ==
    ASSUME BaseInv, OnceUp, NEW k \in Conns, NEW t, NEW multiple, Ack(k, t, multiple)
    PROVE  OnceStep
<1> DEFINE A == AckedRecords(chan[k].st, t, multiple)
<1>1. UNCHANGED <<queue, loop, home>> /\ Pop(k, t, multiple) /\ settled' = settled \cup {r.msg : r \in A}
  BY DEF Ack, Pop
<1>2. HandlerMoved(k) /\ \A x \in Conns : handler'[x].todo = handler[x].todo
  BY BeginReady DEF Ack
<1>3. /\ \A x \in Conns \ {k} : chan'[x] = chan[x]
      /\ chan'[k].st.unacked \subseteq chan[k].st.unacked
  BY <1>1, PopTakes
<1>4. A \subseteq chan[k].st.unacked /\ \A r \in chan'[k].st.unacked : r \notin A
  BY <1>1, PopTakesAll DEF AckedRecords
<1> HIDE DEF A
<1>5. ASSUME NEW m \in Messages, NEW x \in Conns, Says(chan'[x].st.unacked, m) PROVE Says(chan[x].st.unacked, m)
  BY <1>3, <1>5 DEF Says
<1>6. ASSUME NEW m \in Messages PROVE Keeps(m) \/ Moves(m)
  <2>1. CASE m \notin {r.msg : r \in A}
    BY <1>1, <1>2, <1>5, <2>1, HoldsSame, PlacesKept
  <2>2. ASSUME NEW r \in A, r.msg = m PROVE Moves(m)
    <3>1. Adds(m, <<"settled", 0>>)
      BY <1>1, <1>2, <1>5, HoldsSame DEF Adds
    <3>2. Says(chan[k].st.unacked, m)
      BY <1>4, <2>2 DEF Says
    <3>3. ~Says(chan'[k].st.unacked, m)
      <4>1. Distinct(chan[k].st.unacked)
        BY DEF OnceUp
      <4> QED
        BY <1>3, <1>4, <2>2, <4>1 DEF Distinct, Says
    <3>4. <<"unacked", k>> \in Places(m) /\ <<"unacked", k>> \notin Places(m)'
      BY <3>2, <3>3, PlacesHave, PlacesHaveNot
    <3> QED
      BY <3>1, <3>4, PlacesGrow DEF Moves
  <2> QED
    BY <2>1, <2>2
<1> QED
  BY <1>1, <1>2, <1>3, <1>6, HandlerOnce, SameLoops

(* basic.nack, basic.recover and channel.close: deliveries leave the       *)
(* channel state, and some of them go to the handler.                      *)
LEMMA TakesOnce ==
    ASSUME OnceUp, NEW k \in Conns, HandlerMoved(k), UNCHANGED <<queue, loop, home, settled>>,
           \A x \in Conns \ {k} : chan'[x] = chan[x], chan'[k].st.unacked \subseteq chan[k].st.unacked,
           handler'[k].todo \subseteq chan[k].st.unacked \ chan'[k].st.unacked
    PROVE  OnceStep
<1>1. Distinct(chan[k].st.unacked)
  BY DEF OnceUp
<1>2. Distinct(handler'[k].todo)
  BY <1>1 DEF Distinct
<1>3. ASSUME NEW m \in Messages, NEW x \in Conns, Says(chan'[x].st.unacked, m) PROVE Says(chan[x].st.unacked, m)
  BY <1>3 DEF Says
<1>4. ASSUME NEW m \in Messages PROVE Keeps(m) \/ Moves(m)
  <2>1. \A x \in Conns : x # k /\ Says(handler'[x].todo, m) => Says(handler[x].todo, m)
    BY TodoElsewhere
  <2>2. CASE ~Says(handler'[k].todo, m)
    BY <1>3, <2>1, <2>2, HoldsSame, PlacesKept
  <2>3. CASE Says(handler'[k].todo, m)
    <3>1. Adds(m, <<"todo", k>>)
      BY <1>3, <2>1, HoldsSame DEF Adds
    <3>2. Says(chan[k].st.unacked, m) /\ ~Says(chan'[k].st.unacked, m)
      BY <1>1, <2>3 DEF Says, Distinct
    <3>3. <<"unacked", k>> \in Places(m) /\ <<"unacked", k>> \notin Places(m)'
      BY <3>2, PlacesHave, PlacesHaveNot
    <3> QED
      BY <3>1, <3>3, PlacesGrow DEF Moves
  <2> QED
    BY <2>2, <2>3
<1> QED
  BY <1>2, <1>4, HandlerOnce, SameLoops

LEMMA NackOnce ==
    ASSUME BaseInv, OnceUp, NEW k \in Conns, NEW t, NEW multiple, Nack(k, t, multiple)
    PROVE  OnceStep
<1>1. UNCHANGED <<queue, loop, home, settled>> /\ Pop(k, t, multiple)
  BY DEF Nack, Pop
<1>2. PICK R \in SUBSET chan[k].st.unacked : R = AckedRecords(chan[k].st, t, multiple)
  BY DEF AckedRecords
<1>3. Begin(k, "nack", Requeue(k, R))
  BY <1>2 DEF Nack
<1>4. HandlerMoved(k) /\ handler'[k].todo = {r \in R : ~r.deleted}
  BY <1>3, RequeueFields
<1>5. /\ \A x \in Conns \ {k} : chan'[x] = chan[x]
      /\ chan'[k].st.unacked \subseteq chan[k].st.unacked
      /\ \A r \in chan'[k].st.unacked : r \notin R
  BY <1>1, <1>2, PopTakes, PopTakesAll
<1>6. handler'[k].todo \subseteq chan[k].st.unacked \ chan'[k].st.unacked
  BY <1>4, <1>5
<1> QED
  BY <1>1, <1>4, <1>5, <1>6, TakesOnce

LEMMA RecoverOnce ==
    ASSUME BaseInv, OnceUp, NEW k \in Conns, Recover(k)
    PROVE  OnceStep
<1>1. UNCHANGED <<queue, loop, home, settled>> /\ TypeOK /\ chan \in [Conns -> Channel]
  BY DEF Recover, BaseInv, TypeOK
<1>2. PICK s \in ChannelDeliveryState : s = chan[k].st
  BY <1>1 DEF Channel
<1> DEFINE d == ClearIndexes(s)
<1>3. d \in ChannelDeliveryState /\ d.unacked = {}
  BY ClearIndexesType DEF ClearIndexes, ChannelDeliveryState
<1>4. chan' = [chan EXCEPT ![k].st = d]
  BY <1>1, <1>2 DEF Recover
<1> HIDE DEF d
<1>5. (\A x \in Conns \ {k} : chan'[x] = chan[x]) /\ chan'[k].st.unacked = {}
  BY <1>1, <1>3, <1>4, ChannelSet
<1>6. PICK R \in SUBSET chan[k].st.unacked : R = FetchUnacked(chan[k].st)
  BY DEF FetchUnacked
<1>7. Begin(k, "recover", Requeue(k, R))
  BY <1>6 DEF Recover
<1>8. HandlerMoved(k) /\ handler'[k].todo = {r \in R : ~r.deleted}
  BY <1>7, RequeueFields
<1>9. handler'[k].todo \subseteq chan[k].st.unacked \ chan'[k].st.unacked
  BY <1>5, <1>8
<1> QED
  BY <1>1, <1>5, <1>8, <1>9, TakesOnce

LEMMA GetOnce ==
    ASSUME BaseInv, OnceUp, NEW k \in Conns, Get(k)
    PROVE  OnceStep
<1>1. UNCHANGED <<loop, chan, home, settled>> /\ TypeOK /\ handler[k] \in Handler
  BY DEF Get, BaseInv, TypeOK
<1>2. PICK o \in Objects : o = current /\ queue[o].buf # <<>> /\ queue' = [queue EXCEPT ![o].buf = Tail(@)]
  BY DeclaredObject DEF Get
<1>3. PICK g : g = Head(queue[o].buf)
  OBVIOUS
<1>4. /\ \A x \in Objects : /\ queue'[x].buf = queue[x].buf \/ OnceIn(queue'[x].buf)
                            /\ Range(queue'[x].buf) \subseteq Range(queue[x].buf)
      /\ g \in Messages /\ g \in Range(queue[o].buf) /\ g \notin Range(queue'[o].buf)
  BY <1>1, <1>2, <1>3, TakenOnce
<1> DEFINE r == NewRecord(0, NoConsumer, Name, g)
           h == [handler[k] EXCEPT !.pc = "got", !.todo = {r}]
<1>5. r \in DeliveryRecord /\ r.msg = g
  BY <1>4, NameType, NewRecordType DEF NewRecord
<1>6. Begin(k, "get", h)
  BY <1>2, <1>3 DEF Get
<1> HIDE DEF r
<1>7. h \in Handler /\ h.todo = {r}
  BY <1>1, <1>5 DEF Handler
<1> HIDE DEF h
<1>8. HandlerMoved(k) /\ handler'[k].todo = {r}
  BY <1>1, <1>6, <1>7, BeginFields
<1>9. Distinct(handler'[k].todo)
  BY <1>8 DEF Distinct
<1>10. ASSUME NEW m \in Messages PROVE Keeps(m) \/ Moves(m)
  <2>1. \A x \in Conns : Says(handler'[x].todo, m) => Says(handler[x].todo, m) \/ (x = k /\ m = g)
    <3>1. Says(handler'[k].todo, m) => m = g
      BY <1>5, <1>8 DEF Says
    <3> QED
      BY <1>8, <3>1, TodoElsewhere
  <2>2. CASE m # g
    BY <1>1, <1>4, <2>1, <2>2, HoldsSame, PlacesKept
  <2>3. CASE m = g
    <3>1. Adds(m, <<"todo", k>>)
      BY <1>1, <1>4, <2>1, HoldsSame DEF Adds
    <3>2. <<"queued", o>> \in Places(m) /\ <<"queued", o>> \notin Places(m)'
      BY <1>4, <2>3, PlacesHave, PlacesHaveNot
    <3> QED
      BY <3>1, <3>2, PlacesGrow DEF Moves
  <2> QED
    BY <2>2, <2>3
<1> QED
  BY <1>1, <1>4, <1>8, <1>9, <1>10, HandlerOnce, SameLoops

LEMMA MethodOnceStep ==
    ASSUME BaseInv, BaseInv', OnceUp, NEW k \in Conns, Method(k)
    PROVE  OnceStep
BY PublishOnce, DeclareOnce, DeleteOnce, RecoverOnce, GetOnce, CancelOnce, ConsumeOnce, AckOnce,
   NackOnce DEF Method


LEMMA StartLoopOnce ==
    ASSUME BaseInv, OnceUp, NEW k \in Conns, StartLoop(k)
    PROVE  OnceStep
<1>1. UNCHANGED <<chan, home, settled>>
  BY DEF StartLoop
<1>2. TypeOK /\ handler[k] \in Handler /\ HandlerOf(k) /\ handler[k].pc = "start" /\ MaxQueues \in Nat
      /\ made \in Objects
  BY DeliveryAssumption DEF BaseInv, TypeOK, HandlersInv, StartLoop
<1>3. PICK o \in Objects : o = handler[k].obj
  BY <1>2 DEF HandlerOf, Objects
<1>4. \A x \in Conns : handler'[x].todo = handler[x].todo
  <2> DEFINE h == [handler[k] EXCEPT !.pc = "ready", !.obj = 0]
  <2>1. h \in Handler /\ h.todo = handler[k].todo
    BY <1>2 DEF Handler
  <2>2. handler' = [handler EXCEPT ![k] = h]
    BY <1>2 DEF StartLoop, TypeOK
  <2> HIDE DEF h
  <2> QED
    BY <1>2, <2>1, <2>2, HandlerSet DEF HandlerMoved
<1>5. \A x \in Objects : queue'[x].buf = queue[x].buf
  <2> DEFINE q == [queue[o] EXCEPT !.wake = TRUE]
  <2>1. queue' = [queue EXCEPT ![o] = q] /\ queue[o] \in Queue
    BY <1>2, <1>3 DEF StartLoop, TypeOK
  <2>2. q \in Queue /\ q.buf = queue[o].buf
    BY <2>1 DEF Queue
  <2> HIDE DEF q
  <2> QED
    BY <1>2, <2>1, <2>2 DEF TypeOK
<1>6. /\ \A x \in Objects : loop'[x].pc # "untrack"
      /\ \A m \in Messages : \A x \in Objects : Holds(x, m)' => Holds(x, m)
  <2>1. CASE loop[o].pc # "off"
    <3>1. loop' = loop
      BY <1>3, <2>1 DEF StartLoop
    <3> QED
      BY <3>1, SameLoops
  <2>2. CASE loop[o].pc = "off"
    <3>1. Goto(o, "top") /\ "top" \in LoopPC
      BY <1>3, <2>2 DEF StartLoop, Goto, LoopPC
    <3>2. LoopMoved(o) /\ loop'[o].pc = "top"
      BY <1>2, <3>1, GotoFields
    <3>3. loop'[o].pc \in Idling
      BY <3>2 DEF Idling
    <3>4. \A m \in Messages : \A x \in Objects : Holds(x, m)' => Holds(x, m)
      BY <3>2, <3>3, HoldsNothing
    <3> QED
      BY <3>2, <3>4 DEF LoopMoved, OnceUp
  <2> QED
    BY <2>1, <2>2
<1> QED
  BY <1>1, <1>4, <1>5, <1>6, QuietOnce, SameMarks

(* One record of the handler's goes back to a queue, or nowhere. *)
LEMMA PutBackOnce ==
    ASSUME BaseInv, OnceUp, NEW k \in Conns, NEW r \in handler[k].todo,
           handler' = [handler EXCEPT ![k].todo = @ \ {r}], UNCHANGED <<loop, chan, home, settled>>,
           queue' = queue \/ \E o \in Objects : queue' = Pushed(o, r.msg)
    PROVE  OnceStep
<1>1. TypeOK /\ r.msg \in Messages /\ Says(handler[k].todo, r.msg) /\ Distinct(handler[k].todo)
  BY DEF BaseInv, TypeOK, Handler, DeliveryRecord, Says, OnceUp
<1>2. HandlerMoved(k) /\ handler'[k].todo = handler[k].todo \ {r}
  BY <1>1, PutBackFields
<1>3. ~Says(handler'[k].todo, r.msg)
  BY <1>1, <1>2 DEF Says, Distinct
<1>4. ASSUME NEW m \in Messages, NEW x \in Conns, Says(handler'[x].todo, m) PROVE Says(handler[x].todo, m)
  BY <1>2, <1>4 DEF HandlerMoved, Says
<1>5. CASE queue' = queue
  <2>1. \A m \in Messages : Keeps(m)
    BY <1>4, <1>5, HoldsSame, PlacesKept
  <2> QED
    BY <1>2, <1>5, <2>1, HandlerOnce, SameLoops
<1>6. ASSUME NEW o \in Objects, queue' = Pushed(o, r.msg) PROVE OnceStep
  <2>1. r.msg \notin Range(queue[o].buf)
    BY <1>1, NotInTwo
  <2>2. /\ \A x \in Objects : queue'[x].buf = queue[x].buf \/ OnceIn(queue'[x].buf)
        /\ \A x \in Objects : \A n \in Range(queue'[x].buf) :
              n \in Range(queue[x].buf) \/ (n = r.msg /\ x = o)
    BY <1>1, <1>6, <2>1, PushedOnce
  <2>3. ASSUME NEW m \in Messages PROVE Keeps(m) \/ Moves(m)
    <3>1. CASE m # r.msg
      BY <1>4, <2>2, <3>1, HoldsSame, PlacesKept
    <3>2. CASE m = r.msg
      <4>1. Adds(m, <<"queued", o>>)
        BY <1>4, <2>2, HoldsSame DEF Adds
      <4>2. <<"todo", k>> \in Places(m) /\ <<"todo", k>> \notin Places(m)'
        BY <1>1, <1>3, <3>2, PlacesHave, PlacesHaveNot
      <4> QED
        BY <4>1, <4>2, PlacesGrow DEF Moves
    <3> QED
      BY <3>1, <3>2
  <2> QED
    BY <1>2, <2>2, <2>3, HandlerOnce, SameLoops
<1> QED
  BY <1>5, <1>6

LEMMA RequeueOnce ==
    ASSUME BaseInv, OnceUp, NEW k \in Conns, RequeueOne(k) \/ Release(k)
    PROVE  OnceStep
<1>1. UNCHANGED <<loop, chan, home, settled>>
  BY DEF RequeueOne, Release
<1>2. handler[k] \in Handler /\ HandlerOf(k) /\ MaxQueues \in Nat /\ made \in Objects
  BY DeliveryAssumption DEF BaseInv, TypeOK, HandlersInv
<1>3. CASE RequeueOne(k)
  <2>1. PICK r \in handler[k].todo :
          /\ queue' = IF current = 0 THEN queue ELSE Pushed(current, r.msg)
          /\ handler' = [handler EXCEPT ![k].todo = @ \ {r}]
    BY <1>3 DEF RequeueOne
  <2>2. current = 0 \/ current \in Objects
    BY DEF BaseInv, TypeOK
  <2>3. queue' = queue \/ \E o \in Objects : queue' = Pushed(o, r.msg)
    BY <2>1, <2>2
  <2> QED
    BY <1>1, <2>1, <2>3, PutBackOnce
<1>4. CASE Release(k)
  <2>1. PICK r \in handler[k].todo : r = First(handler[k].todo)
    BY <1>2, <1>4, FirstIsIn DEF Handler, Release
  <2>2. queue' = Pushed(handler[k].obj, r.msg) /\ handler' = [handler EXCEPT ![k].todo = @ \ {r}]
    BY <1>4, <2>1 DEF Release
  <2>3. handler[k].obj \in Objects
    BY <1>2, <1>4 DEF HandlerOf, Release, Objects
  <2> QED
    BY <1>1, <2>1, <2>2, <2>3, PutBackOnce
<1> QED
  BY <1>3, <1>4

LEMMA TrackGotOnce ==
    ASSUME BaseInv, OnceUp, NEW k \in Conns, TrackGot(k)
    PROVE  OnceStep
<1>1. UNCHANGED <<queue, loop, home, settled>>
  BY DEF TrackGot
<1>2. TypeOK /\ handler[k] \in Handler /\ handler[k].pc = "got" /\ chan \in [Conns -> Channel]
  BY DEF BaseInv, TypeOK, TrackGot
<1>3. PICK r \in handler[k].todo :
        chan' = [chan EXCEPT ![k] = [Created(k) EXCEPT !.st = TrackGet(@, Name, r.msg)]]
  BY DEF TrackGot
<1>4. PICK g \in Messages : g = r.msg
  BY <1>2 DEF Handler, DeliveryRecord
<1>5. Says(handler[k].todo, g) /\ (\A x \in Conns : ~Says(chan[x].st.unacked, g))
  <2>1. Says(handler[k].todo, g)
    BY <1>3, <1>4 DEF Says
  <2> QED
    BY <2>1, NotInTwo
<1>6. HandlerMoved(k) /\ handler'[k].todo = {}
  <2> DEFINE h == [handler[k] EXCEPT !.pc = "ready", !.todo = {}]
  <2>1. h \in Handler /\ h.todo = {}
    BY <1>2 DEF Handler
  <2>2. handler' = [handler EXCEPT ![k] = h]
    BY <1>2 DEF TypeOK, TrackGot
  <2> HIDE DEF h
  <2> QED
    BY <1>2, <2>1, <2>2, HandlerSet
<1>7. PICK C \in Channel : C = Created(k) /\ C.st.unacked = chan[k].st.unacked
  BY CreatedFields
<1>8. PICK s \in ChannelDeliveryState : s = C.st
  BY DEF Channel
<1> DEFINE d == TrackGet(s, Name, g)
           n == NewRecord(s.last + 1, NoConsumer, Name, g)
           e == [C EXCEPT !.st = d]
<1>9. d \in ChannelDeliveryState /\ d.unacked = s.unacked \cup {n} /\ n.msg = g
  BY TrackGetFields
<1>10. chan' = [chan EXCEPT ![k] = e]
  BY <1>3, <1>4, <1>7, <1>8
<1> HIDE DEF d, n
<1>11. e \in Channel /\ e.st = d
  BY <1>9 DEF Channel
<1> HIDE DEF e
<1>12. chan'[k].st.unacked = chan[k].st.unacked \cup {n} /\ \A x \in Conns \ {k} : chan'[x] = chan[x]
  BY <1>2, <1>7, <1>8, <1>9, <1>10, <1>11
<1>13. Distinct(chan'[k].st.unacked)
  <2>1. Distinct(chan[k].st.unacked) /\ \A x \in chan[k].st.unacked : x.msg # g
    BY <1>5 DEF OnceUp, Says
  <2> QED
    BY <1>9, <1>12, <2>1 DEF Distinct
<1>14. ASSUME NEW m \in Messages PROVE Keeps(m) \/ Moves(m)
  <2>1. \A x \in Conns : Says(handler'[x].todo, m) => Says(handler[x].todo, m)
    BY <1>6, TodoElsewhere DEF Says
  <2>2. \A x \in Conns : Says(chan'[x].st.unacked, m) => Says(chan[x].st.unacked, m) \/ (x = k /\ m = g)
    <3>1. Says(chan'[k].st.unacked, m) => Says(chan[k].st.unacked, m) \/ m = g
      BY <1>9, <1>12 DEF Says
    <3> QED
      BY <1>12, <3>1
  <2>3. CASE m # g
    BY <1>1, <2>1, <2>2, <2>3, HoldsSame, PlacesKept
  <2>4. CASE m = g
    <3>1. Adds(m, <<"unacked", k>>)
      BY <1>1, <2>1, <2>2, HoldsSame DEF Adds
    <3>2. ~Says(handler'[k].todo, m)
      BY <1>6 DEF Says
    <3>3. <<"todo", k>> \in Places(m) /\ <<"todo", k>> \notin Places(m)'
      BY <1>5, <2>4, <3>2, PlacesHave, PlacesHaveNot
    <3> QED
      BY <3>1, <3>3, PlacesGrow DEF Moves
  <2> QED
    BY <2>3, <2>4
<1> QED
  BY <1>1, <1>6, <1>12, <1>13, <1>14, HandlerOnce, SameLoops

LEMMA TakeStateOnce ==
    ASSUME BaseInv, OnceUp, NEW k \in Conns, TakeState(k)
    PROVE  OnceStep
<1>1. UNCHANGED <<queue, loop, home, settled>>
  BY DEF TakeState
<1>2. TypeOK /\ handler[k] \in Handler /\ chan \in [Conns -> Channel] /\ current \in {0} \cup Objects
  BY DEF BaseInv, TypeOK
<1>3. PICK T : T = IF current = 0 THEN {} ELSE FetchUnacked(chan[k].st)
  OBVIOUS
<1>4. T \subseteq chan[k].st.unacked
  BY <1>3 DEF FetchUnacked
<1>5. HandlerMoved(k) /\ handler'[k].todo = T
  <2> DEFINE h == [handler[k] EXCEPT !.pc = "release", !.wait = {}, !.obj = current, !.todo = T]
  <2>1. T \subseteq DeliveryRecord
    BY <1>2, <1>4 DEF Channel, ChannelDeliveryState
  <2>2. h \in Handler /\ h.todo = T
    BY <1>2, <2>1 DEF Handler
  <2>3. handler' = [handler EXCEPT ![k] = h]
    BY <1>2, <1>3 DEF TypeOK, TakeState
  <2> HIDE DEF h
  <2> QED
    BY <1>2, <2>2, <2>3, HandlerSet
<1>6. chan'[k] = NoState(k) /\ \A x \in Conns \ {k} : chan'[x] = chan[x]
  BY <1>2 DEF TakeState
<1>7. chan'[k].st.unacked = {}
  BY <1>6 DEF NoState, NewChannelState
<1> QED
  BY <1>1, <1>4, <1>5, <1>6, <1>7, TakesOnce

LEMMA HandlerOnceStep ==
    ASSUME BaseInv, OnceUp, NEW k \in Conns, HandlerStep(k)
    PROVE  OnceStep
<1>1. CASE RequeueDone(k) \/ CloseOk(k)
  <2>1. UNCHANGED <<queue, loop, chan, home, settled>>
    BY <1>1 DEF RequeueDone, CloseOk
  <2>2. \A x \in Conns : handler'[x].todo = handler[x].todo
    <3>1. TypeOK /\ handler[k] \in Handler
      BY DEF BaseInv, TypeOK
    <3> DEFINE g == [handler[k] EXCEPT !.pc = "ready"]
               h == [handler[k] EXCEPT !.pc = "ready", !.obj = 0]
    <3>2. g \in Handler /\ g.todo = handler[k].todo /\ h \in Handler /\ h.todo = handler[k].todo
      BY <3>1 DEF Handler
    <3>3. handler' = [handler EXCEPT ![k] = g] \/ handler' = [handler EXCEPT ![k] = h]
      BY <1>1, <3>1 DEF TypeOK, RequeueDone, CloseOk
    <3> HIDE DEF g, h
    <3> QED
      BY <3>1, <3>2, <3>3, HandlerSet DEF HandlerMoved
  <2> QED
    BY <2>1, <2>2, QuietOnce, SameMarks, SameLoops
<1> QED
  BY <1>1, StartLoopOnce, RequeueOnce, TrackGotOnce, TakeStateOnce DEF HandlerStep

-----------------------------------------------------------------------------
LEMMA StillOnce ==
    ASSUME OnceUp, UNCHANGED <<queue, loop, chan, handler, home, settled>>
    PROVE  OnceStep
BY QuietOnce, SameMarks, SameLoops

LEMMA NextOnce ==
    ASSUME BaseInv, OnceInv, [Next]_vars
    PROVE  BaseInv' /\ OnceInv'
<1>1. BaseInv' /\ TypeOK'
  BY NextKeeps DEF BaseInv
<1> SUFFICES ASSUME AllUp' PROVE OnceUp'
  BY <1>1 DEF OnceInv
<1>2. AllUp
  <2>1. ASSUME NEW k \in Conns, conn[k] # "up" PROVE conn'[k] # "up"
    <3>1. conn \in [Conns -> {"up", "dead", "gone"}]
      BY DEF BaseInv, TypeOK
    <3>2. conn' = conn \/ \E x \in Conns : \/ conn' = [conn EXCEPT ![x] = "dead"]
                                           \/ conn' = [conn EXCEPT ![x] = "gone"]
      <4>1. ASSUME NEW o \in Objects, LoopStep(o) PROVE conn' = conn
        BY <4>1 DEF LoopStep, LoopTop, LoopWoken, TakeMessage, Lookup, Round, Try, WaitThrottled, LockSend,
           CreateState, Track, Send, Untrack, Failed, RemoveFailedConsumer, PushBack, LoopOnly
      <4>2. ASSUME NEW x \in Conns, Method(x) \/ HandlerStep(x) PROVE conn' = conn
        BY <4>2 DEF Method, Publish, Declare, Delete, Recover, Get, Close, Consume, Cancel, Ack, Nack, Pop,
           HandlerStep, StartLoop, RequeueOne, RequeueDone, TrackGot, TakeState, Release, CloseOk
      <4>3. ASSUME NEW x \in Conns, SocketDies(x) \/ CleanupConnection(x) \/ CleanerRequeue(x)
            PROVE  conn' = conn \/ conn' = [conn EXCEPT ![x] = "dead"] \/ conn' = [conn EXCEPT ![x] = "gone"]
        BY <4>3 DEF SocketDies, CleanupConnection, CleanerRequeue
      <4>4. ASSUME NEW c \in Consumers, NotifyCancel(c) PROVE conn' = conn
        BY <4>4 DEF NotifyCancel
      <4>5. CASE UNCHANGED vars
        BY <4>5 DEF vars
      <4> QED
        BY <4>1, <4>2, <4>3, <4>4, <4>5 DEF Next
    <3> QED
      BY <2>1, <3>1, <3>2
  <2> QED
    BY <2>1 DEF AllUp
<1>3. OnceUp
  BY <1>2 DEF OnceInv
<1>4. SUFFICES OnceStep
  BY <1>1, <1>3, OnceKept
<1>5. ASSUME NEW o \in Objects, LoopStep(o) PROVE OnceStep
  BY <1>2, <1>3, <1>5, LoopOnceStep
<1>6. ASSUME NEW k \in Conns, Method(k) PROVE OnceStep
  BY <1>1, <1>3, <1>6, MethodOnceStep
<1>7. ASSUME NEW k \in Conns, HandlerStep(k) PROVE OnceStep
  BY <1>3, <1>7, HandlerOnceStep
<1>8. ASSUME NEW k \in Conns, CleanupConnection(k) \/ CleanerRequeue(k) PROVE FALSE
  <2>1. conn[k] = "up" /\ CleanerOf(k)
    BY <1>2 DEF AllUp, BaseInv, HandlersInv
  <2> QED
    BY <1>8, <2>1 DEF CleanerOf, CleanupConnection, CleanerRequeue
<1>9. ASSUME NEW k \in Conns, SocketDies(k) PROVE OnceStep
  BY <1>3, <1>9, StillOnce DEF SocketDies
<1>10. ASSUME NEW c \in Consumers, NotifyCancel(c) PROVE OnceStep
  BY <1>3, <1>10, StillOnce DEF NotifyCancel
<1>11. CASE UNCHANGED vars
  BY <1>3, <1>11, StillOnce DEF vars
<1> QED
  BY <1>5, <1>6, <1>7, <1>8, <1>9, <1>10, <1>11 DEF Next


-----------------------------------------------------------------------------
(* The places NoDuplicate counts. *)
LEMMA AtMostOne ==
    ASSUME NEW S, \A x, y \in S : x = y
    PROVE  IF S = {} THEN Cardinality(S) = 0 ELSE Cardinality(S) = 1
<1>1. CASE S = {}
  BY <1>1, FS_EmptySet
<1>2. ASSUME NEW x \in S PROVE Cardinality(S) = 1
  <2>1. S = {x}
    BY <1>2
  <2> QED
    BY <2>1, FS_Singleton
<1> QED
  BY <1>1, <1>2

LEMMA OnceCounted ==
    ASSUME BaseInv, AllUp, OnceUp, NEW m \in Messages
    PROVE  Copies(m) + (IF m \in settled THEN 1 ELSE 0) <= 1
<1> DEFINE B == Buffered(m)
           H == {o \in Objects : InHand(o, m)}
           U == UNION {{k} \X Of(m, FetchUnacked(chan[k].st)) : k \in Conns}
           T == UNION {{k} \X Of(m, handler[k].todo) : k \in Conns}
           C == UNION {{k} \X Of(m, cleaner[k].todo) : k \in Conns}
<1>1. \A p, q \in Places(m) : p = q
  BY DEF OnceUp, OnePlace
<1>2. ASSUME NEW b \in B
      PROVE  \E o \in Objects : \E n \in DOMAIN queue[o].buf :
                b = <<o, n>> /\ queue[o].buf[n] = m /\ <<"queued", o>> \in Places(m)
  <2>1. PICK o \in Objects : b \in {o} \X {n \in DOMAIN queue[o].buf : queue[o].buf[n] = m}
    BY DEF Buffered
  <2>2. PICK n \in DOMAIN queue[o].buf : b = <<o, n>> /\ queue[o].buf[n] = m
    BY <2>1
  <2>3. m \in Range(queue[o].buf)
    BY <2>2 DEF Range
  <2> QED
    BY <2>2, <2>3, PlacesHave
<1>3. ASSUME NEW o \in H PROVE o \in Objects /\ <<"held", o>> \in Places(m)
  <2>1. Holds(o, m)
    BY DEF InHand, Holds, Idling, Trying
  <2> QED
    BY <2>1, PlacesHave
<1>4. ASSUME NEW u \in U
      PROVE  \E k \in Conns : \E r \in chan[k].st.unacked :
                u = <<k, r>> /\ r.msg = m /\ <<"unacked", k>> \in Places(m)
  <2>1. PICK k \in Conns : u \in {k} \X Of(m, FetchUnacked(chan[k].st))
    OBVIOUS
  <2>2. PICK r \in chan[k].st.unacked : u = <<k, r>> /\ r.msg = m
    BY <2>1 DEF Of, FetchUnacked
  <2> QED
    BY <2>2, PlacesHave DEF Says
<1>5. ASSUME NEW t \in T
      PROVE  \E k \in Conns : \E r \in handler[k].todo :
                t = <<k, r>> /\ r.msg = m /\ <<"todo", k>> \in Places(m)
  <2>1. PICK k \in Conns : t \in {k} \X Of(m, handler[k].todo)
    OBVIOUS
  <2>2. PICK r \in handler[k].todo : t = <<k, r>> /\ r.msg = m
    BY <2>1 DEF Of
  <2> QED
    BY <2>2, PlacesHave DEF Says
<1>6. C = {}
  <2>1. \A k \in Conns : cleaner[k].todo = {}
    BY DEF AllUp, BaseInv, HandlersInv, CleanerOf
  <2> QED
    BY <2>1 DEF Of
<1>7. m \in settled => <<"settled", 0>> \in Places(m)
  BY PlacesHave
<1>8. Copies(m) = Cardinality(B) + Cardinality(H) + Cardinality(U) + Cardinality(T) + Cardinality(C)
  BY DEF Copies
<1> HIDE DEF B, H, U, T, C
<1>9. \A x, y \in B : x = y
  <2> SUFFICES ASSUME NEW x \in B, NEW y \in B PROVE x = y
    OBVIOUS
  <2>1. PICK o \in Objects : \E n \in DOMAIN queue[o].buf :
          x = <<o, n>> /\ queue[o].buf[n] = m /\ <<"queued", o>> \in Places(m)
    BY <1>2
  <2>2. PICK n \in DOMAIN queue[o].buf : x = <<o, n>> /\ queue[o].buf[n] = m /\ <<"queued", o>> \in Places(m)
    BY <2>1
  <2>3. PICK p \in Objects : \E i \in DOMAIN queue[p].buf :
          y = <<p, i>> /\ queue[p].buf[i] = m /\ <<"queued", p>> \in Places(m)
    BY <1>2
  <2>4. PICK i \in DOMAIN queue[p].buf : y = <<p, i>> /\ queue[p].buf[i] = m /\ <<"queued", p>> \in Places(m)
    BY <2>3
  <2>5. <<"queued", o>> = <<"queued", p>>
    BY <1>1, <2>2, <2>4
  <2>6. o = p
    BY <2>5
  <2>7. n = i
    BY <2>2, <2>4, <2>6 DEF OnceUp, OnceIn
  <2> QED
    BY <2>2, <2>4, <2>6, <2>7
<1>10. \A x, y \in H : x = y
  <2> SUFFICES ASSUME NEW x \in H, NEW y \in H PROVE x = y
    OBVIOUS
  <2>1. <<"held", x>> = <<"held", y>>
    BY <1>1, <1>3
  <2> QED
    BY <2>1
<1>11. \A x, y \in U : x = y
  <2> SUFFICES ASSUME NEW x \in U, NEW y \in U PROVE x = y
    OBVIOUS
  <2>1. PICK k \in Conns : \E r \in chan[k].st.unacked :
          x = <<k, r>> /\ r.msg = m /\ <<"unacked", k>> \in Places(m)
    BY <1>4
  <2>2. PICK r \in chan[k].st.unacked : x = <<k, r>> /\ r.msg = m /\ <<"unacked", k>> \in Places(m)
    BY <2>1
  <2>3. PICK l \in Conns : \E s \in chan[l].st.unacked :
          y = <<l, s>> /\ s.msg = m /\ <<"unacked", l>> \in Places(m)
    BY <1>4
  <2>4. PICK s \in chan[l].st.unacked : y = <<l, s>> /\ s.msg = m /\ <<"unacked", l>> \in Places(m)
    BY <2>3
  <2>5. <<"unacked", k>> = <<"unacked", l>>
    BY <1>1, <2>2, <2>4
  <2>6. k = l
    BY <2>5
  <2>7. r = s
    BY <2>2, <2>4, <2>6 DEF OnceUp, Distinct
  <2> QED
    BY <2>2, <2>4, <2>6, <2>7
<1>12. \A x, y \in T : x = y
  <2> SUFFICES ASSUME NEW x \in T, NEW y \in T PROVE x = y
    OBVIOUS
  <2>1. PICK k \in Conns : \E r \in handler[k].todo :
          x = <<k, r>> /\ r.msg = m /\ <<"todo", k>> \in Places(m)
    BY <1>5
  <2>2. PICK r \in handler[k].todo : x = <<k, r>> /\ r.msg = m /\ <<"todo", k>> \in Places(m)
    BY <2>1
  <2>3. PICK l \in Conns : \E s \in handler[l].todo :
          y = <<l, s>> /\ s.msg = m /\ <<"todo", l>> \in Places(m)
    BY <1>5
  <2>4. PICK s \in handler[l].todo : y = <<l, s>> /\ s.msg = m /\ <<"todo", l>> \in Places(m)
    BY <2>3
  <2>5. <<"todo", k>> = <<"todo", l>>
    BY <1>1, <2>2, <2>4
  <2>6. k = l
    BY <2>5
  <2>7. r = s
    BY <2>2, <2>4, <2>6 DEF OnceUp, Distinct
  <2> QED
    BY <2>2, <2>4, <2>6, <2>7
(* At most one of them is not empty. *)
<1>13. (B # {} => \E o : <<"queued", o>> \in Places(m)) /\ (H # {} => \E o : <<"held", o>> \in Places(m))
  BY <1>2, <1>3
<1>14. (U # {} => \E k : <<"unacked", k>> \in Places(m)) /\ (T # {} => \E k : <<"todo", k>> \in Places(m))
  BY <1>4, <1>5
<1>15. /\ B # {} => H = {} /\ U = {} /\ T = {} /\ m \notin settled
       /\ H # {} => U = {} /\ T = {} /\ m \notin settled
       /\ U # {} => T = {} /\ m \notin settled
       /\ T # {} => m \notin settled
  <2>1. \A a, b : \A v, w : <<a, v>> \in Places(m) /\ <<b, w>> \in Places(m) => a = b
    <3> SUFFICES ASSUME NEW a, NEW b, NEW v, NEW w, <<a, v>> \in Places(m), <<b, w>> \in Places(m)
                 PROVE  a = b
      OBVIOUS
    <3>1. <<a, v>> = <<b, w>>
      BY <1>1
    <3> QED
      BY <3>1
  <2>2. B # {} => H = {} /\ U = {} /\ T = {} /\ m \notin settled
    BY <1>7, <1>13, <1>14, <2>1
  <2>3. H # {} => U = {} /\ T = {} /\ m \notin settled
    BY <1>7, <1>13, <1>14, <2>1
  <2>4. U # {} => T = {} /\ m \notin settled
    BY <1>7, <1>14, <2>1
  <2>5. T # {} => m \notin settled
    BY <1>7, <1>14, <2>1
  <2> QED
    BY <2>2, <2>3, <2>4, <2>5
<1>16. /\ IF B = {} THEN Cardinality(B) = 0 ELSE Cardinality(B) = 1
       /\ IF H = {} THEN Cardinality(H) = 0 ELSE Cardinality(H) = 1
       /\ IF U = {} THEN Cardinality(U) = 0 ELSE Cardinality(U) = 1
       /\ IF T = {} THEN Cardinality(T) = 0 ELSE Cardinality(T) = 1
       /\ Cardinality(C) = 0
  BY <1>6, <1>9, <1>10, <1>11, <1>12, AtMostOne, FS_EmptySet
<1> QED
  BY <1>8, <1>15, <1>16

(***************************************************************************)
(* As long as no socket dies, no interleaving of delivery loops with       *)
(* basic.ack, basic.nack, basic.recover, basic.get, channel.close, and     *)
(* deletions and new declarations of the queue, puts a message in two      *)
(* places, or brings back one that was acked (popUnackedRecords,           *)
(* ReleaseChannelDeliveries, requeueOnShutdown).                           *)
(***************************************************************************)
THEOREM NothingTwice == Spec => []NoDuplicate
<1>1. Init => BaseInv /\ OnceInv
  <2> SUFFICES ASSUME Init PROVE OnceUp
    BY InitBase DEF OnceInv
  <2>1. ASSUME NEW o \in Objects
        PROVE  loop[o].pc = "off" /\ queue[o].buf = <<>> /\ OnceIn(queue[o].buf) /\ Range(queue[o].buf) = {}
    BY DEF Init, Resting, NewQueue, OnceIn, Range
  <2>2. \A k \in Conns : handler[k].todo = {} /\ chan[k].st.unacked = {}
    BY DEF Init, NewChannelState
  <2>3. settled = {}
    BY DEF Init
  <2>4. ASSUME NEW m \in Messages PROVE Places(m) = {}
    <3>1. \A o \in Objects : m \notin Range(queue[o].buf) /\ ~Holds(o, m)
      BY <2>1 DEF Holds, Idling
    <3>2. \A k \in Conns : ~Says(chan[k].st.unacked, m) /\ ~Says(handler[k].todo, m)
      BY <2>2 DEF Says
    <3> QED
      BY <2>3, <3>1, <3>2 DEF Places
  <2> QED
    BY <2>1, <2>2, <2>3, <2>4 DEF OnceUp, OnePlace, Distinct
<1>2. BaseInv /\ OnceInv /\ [Next]_vars => BaseInv' /\ OnceInv'
  BY NextOnce
<1>3. BaseInv /\ OnceInv => NoDuplicate
  BY OnceCounted DEF OnceInv, NoDuplicate, AllUp
<1> QED
  BY <1>1, <1>2, <1>3, PTL DEF Spec

=============================================================================
