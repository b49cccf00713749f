-------------------------- MODULE QueueBufferProofs --------------------------
(***************************************************************************)
(* Proofs about QueueBuffer: the count is exact and, for a FIFO queue, the *)
(* length limit holds up to the pushes in progress, for any number of      *)
(* goroutines, any limit and any capacity.                                 *)
(***************************************************************************)
EXTENDS QueueBuffer, FiniteSetTheorems, TLAPS

(* The goroutines between EnforceMaxLength and the send. *)
Pushing == {t \in Threads : at[t] = "push"}

(***************************************************************************)
(* The limit as an induction needs it: a goroutine that has made room and  *)
(* not sent yet is counted as if it had.                                   *)
(***************************************************************************)
RoomLeft ==
    (Fifo /\ MaxLength > 0) =>
        Len(buf) + Cardinality(Pushing) <= MaxLength - 1 + Cardinality(Threads)

IInv == TypeOK /\ CountExact /\ RoomLeft

-----------------------------------------------------------------------------
(* There are finitely many goroutines, so the ones in a push can be counted. *)
LEMMA ThreadsFinite ==
    /\ IsFiniteSet(Threads)
    /\ \A S \in SUBSET Threads : /\ IsFiniteSet(S)
                                 /\ Cardinality(S) \in Nat
                                 /\ Cardinality(S) <= Cardinality(Threads)
<1>1. IsFiniteSet(Threads)
  BY BufferAssumption, FS_AddElement DEF Threads
<1> QED
  BY <1>1, FS_Subset, FS_CardinalityType

(* What DropFirst and Without leave of a sequence. *)
LEMMA DropFirstType ==
    ASSUME NEW s \in Seq(Messages), NEW k \in Nat, k <= Len(s)
    PROVE  /\ DropFirst(s, k) \in Seq(Messages)
           /\ Len(DropFirst(s, k)) = Len(s) - k
<1>1. Len(s) - k \in Nat
  OBVIOUS
<1>2. \A n \in 1..(Len(s) - k) : n + k \in 1..Len(s) /\ s[n + k] \in Messages
  OBVIOUS
<1>3. DropFirst(s, k) \in [1..(Len(s) - k) -> Messages]
  BY <1>2 DEF DropFirst
<1> QED
  BY <1>1, <1>3

LEMMA WithoutType ==
    ASSUME NEW s \in Seq(Messages), NEW i \in DOMAIN s
    PROVE  /\ Without(s, i) \in Seq(Messages)
           /\ Len(Without(s, i)) = Len(s) - 1
<1>1. Len(s) - 1 \in Nat /\ i \in 1..Len(s)
  OBVIOUS
<1>2. \A n \in 1..(Len(s) - 1) : s[n] \in Messages /\ s[n + 1] \in Messages
  OBVIOUS
<1>3. Without(s, i) \in [1..(Len(s) - 1) -> Messages]
  BY <1>2 DEF Without
<1> QED
  BY <1>1, <1>3

(***************************************************************************)
(* EnforceMaxLength makes room for one message: it evicts at most what is  *)
(* there, and leaves at most MaxLength - 1 of a FIFO queue with a limit,   *)
(* because the count is never below the length.                            *)
(***************************************************************************)
LEMMA EvictingMakesRoom ==
    ASSUME TypeOK, CountExact
    PROVE  /\ Evicting \in Nat
           /\ Evicting <= Len(buf)
           /\ (Fifo /\ MaxLength > 0) => Len(buf) - Evicting <= MaxLength - 1
<1>1. Len(buf) \in Nat /\ count \in Nat /\ count >= Len(buf) /\ MaxLength \in Nat
  BY BufferAssumption DEF TypeOK, CountExact
<1> QED
  BY <1>1 DEF Evicting, Excess

(* A step that ends EnforceMaxLength of a goroutine keeps the invariant. *)
LEMMA EnforceKeeps ==
    ASSUME IInv, NEW t \in Threads, Enforce(t), at[t] # "took",
           hand' \in [Threads -> Messages], fresh' \subseteq Messages, backs' \in Nat
    PROVE  IInv'
<1> USE DEF IInv
<1>1. /\ buf' \in Seq(Messages)
      /\ Len(buf') = Len(buf) - Evicting
      /\ Evicting \in Nat
  BY EvictingMakesRoom, DropFirstType DEF Enforce, TypeOK
<1>2. at' \in [Threads -> PC] /\ (at'[Loop] = "took" <=> at[Loop] = "took")
  BY DEF Enforce, TypeOK, PC, Threads
<1>3. CountExact'
  BY <1>1, <1>2 DEF CountExact, Enforce, TypeOK
<1>4. TypeOK'
  <2>1. count' \in Nat
    BY <1>1, <1>2, <1>3 DEF CountExact
  <2>2. evicted' \subseteq Messages
    <3>1. \A n \in 1..Evicting : buf[n] \in Messages
      BY EvictingMakesRoom DEF TypeOK
    <3> QED
      BY <3>1 DEF Enforce, TypeOK
  <2> QED
    BY <1>1, <1>2, <2>1, <2>2 DEF TypeOK, Enforce
<1>5. RoomLeft'
  <2>1. SUFFICES ASSUME Fifo, MaxLength > 0
                 PROVE  Len(buf') + Cardinality(Pushing')
                          <= MaxLength - 1 + Cardinality(Threads)
    BY DEF RoomLeft, Fifo
  <2>2. Pushing' \in SUBSET Threads
    BY DEF Pushing
  <2>3. /\ Cardinality(Pushing') \in Nat /\ Cardinality(Threads) \in Nat
        /\ Cardinality(Pushing') <= Cardinality(Threads)
    BY <2>2, ThreadsFinite, FS_CardinalityType
  <2>4. Len(buf') <= MaxLength - 1 /\ Len(buf') \in Nat /\ MaxLength \in Nat
    BY <1>1, <2>1, EvictingMakesRoom, BufferAssumption
  <2> QED
    BY <2>3, <2>4
<1> QED
  BY <1>3, <1>4, <1>5

(* A send takes the place the goroutine was counted for. *)
LEMMA PushKeeps ==
    ASSUME IInv, NEW t \in Threads, Push(t)
    PROVE  IInv'
<1> USE DEF IInv
<1>1. /\ at[t] = "push" /\ at' \in [Threads -> PC] /\ at'[t] # "push"
      /\ \A x \in Threads \ {t} : at'[x] = at[x]
  BY DEF Push, TypeOK, PC
<1>2. at'[Loop] = "took" <=> at[Loop] = "took"
  BY DEF Push, TypeOK, Threads
<1>3. /\ buf' \in Seq(Messages) /\ count' \in Nat /\ signal' \in BOOLEAN
      /\ \/ Len(buf') = Len(buf) + 1 /\ count' = count + 1
         \/ Len(buf') = Len(buf) /\ count' = count
  <2>1. hand[t] \in Messages /\ buf \in Seq(Messages) /\ count \in Nat /\ signal \in BOOLEAN
    BY DEF TypeOK
  <2>2. CASE Cardinality(InLevel(Level(hand[t]))) < Capacity
    <3>1. buf' = Append(buf, hand[t]) /\ count' = count + 1 /\ signal' = (signal \/ ~Fifo)
      BY <2>2 DEF Push
    <3>2. signal' \in BOOLEAN
      BY <3>1
    <3> QED
      BY <2>1, <3>1, <3>2
  <2>3. CASE ~(Cardinality(InLevel(Level(hand[t]))) < Capacity)
    <3>1. buf' = buf /\ count' = count /\ signal' = signal
      BY <2>3 DEF Push
    <3> QED
      BY <2>1, <3>1
  <2> QED
    BY <2>2, <2>3
<1>4. TypeOK'
  BY <1>1, <1>3 DEF TypeOK, Push
<1>5. CountExact'
  BY <1>2, <1>3 DEF CountExact, TypeOK
<1>6. Pushing' = Pushing \ {t} /\ t \in Pushing
  BY <1>1 DEF Pushing
<1>7. /\ Cardinality(Pushing') = Cardinality(Pushing) - 1
      /\ Cardinality(Pushing) \in Nat /\ Cardinality(Threads) \in Nat
  <2>1. Pushing \in SUBSET Threads
    BY DEF Pushing
  <2> QED
    BY <2>1, <1>6, ThreadsFinite, FS_RemoveElement, FS_CardinalityType
<1>8. RoomLeft'
  <2>1. Len(buf) \in Nat /\ Len(buf') <= Len(buf) + 1 /\ Len(buf') \in Nat /\ MaxLength \in Nat
    BY <1>3, BufferAssumption DEF TypeOK
  <2> QED
    BY <2>1, <1>7 DEF RoomLeft, Fifo
<1> QED
  BY <1>4, <1>5, <1>8

(* Any other step: the buffer does not grow, and nobody enters or leaves a push. *)
LEMMA OthersKeep ==
    ASSUME IInv, TypeOK', CountExact', Len(buf') <= Len(buf),
           \A t \in Threads : at'[t] = "push" <=> at[t] = "push"
    PROVE  IInv'
<1>1. Pushing' = Pushing
  BY DEF Pushing
<1>2. /\ Cardinality(Pushing) \in Nat /\ Cardinality(Threads) \in Nat
      /\ Len(buf) \in Nat /\ Len(buf') \in Nat /\ MaxLength \in Nat
  <2>1. Pushing \in SUBSET Threads
    BY DEF Pushing
  <2> QED
    BY <2>1, ThreadsFinite, FS_CardinalityType, BufferAssumption DEF IInv, TypeOK
<1> QED
  BY <1>1, <1>2 DEF IInv, RoomLeft, Fifo

(* A step of the loop that only moves it, to a phase that is not a push. *)
LEMMA LoopMoves ==
    ASSUME IInv, NEW pc \in PC, pc \notin {"push", "took"}, LoopTo(pc),
           at[Loop] \notin {"push", "took"}
    PROVE  /\ at' \in [Threads -> PC]
           /\ \A t \in Threads : at'[t] = "push" <=> at[t] = "push"
           /\ at[Loop] # "took" /\ at'[Loop] # "took"
BY DEF IInv, TypeOK, LoopTo, Threads, PC

-----------------------------------------------------------------------------
LEMMA InitIInv == Init => IInv
<1> SUFFICES ASSUME Init PROVE IInv
  OBVIOUS
<1>1. TypeOK
  <2>1. (CHOOSE m \in Messages : TRUE) \in Messages
    BY BufferAssumption
  <2>2. hand \in [Threads -> Messages]
    BY <2>1 DEF Init
  <2>3. at \in [Threads -> PC]
    BY DEF Init, PC
  <2>4. buf \in Seq(Messages) /\ count \in Nat /\ changes \in Nat /\ backs \in Nat
    BY DEF Init
  <2> QED
    BY <2>2, <2>3, <2>4 DEF Init, TypeOK
<1>2. CountExact
  BY DEF Init, CountExact, Threads
<1>3. RoomLeft
  <2>1. Pushing = {} /\ Cardinality(Pushing) = 0
    BY FS_EmptySet DEF Init, Pushing
  <2>2. Loop \in Threads /\ Cardinality(Threads) \in Nat /\ Cardinality(Threads) # 0
    BY ThreadsFinite, FS_CardinalityType, FS_EmptySet DEF Threads
  <2>3. MaxLength \in Nat /\ Len(buf) = 0
    BY BufferAssumption DEF Init
  <2> QED
    BY <2>1, <2>2, <2>3 DEF RoomLeft
<1> QED
  BY <1>1, <1>2, <1>3 DEF IInv

LEMMA NextIInv == IInv /\ [Next]_vars => IInv'
<1> SUFFICES ASSUME IInv, [Next]_vars PROVE IInv'
  OBVIOUS
<1>1. ASSUME NEW p \in Pushers, NEW m \in Messages, Publish(p, m) PROVE IInv'
  <2>1. p \in Threads /\ Enforce(p) /\ at[p] # "took"
    BY <1>1 DEF Publish, Threads
  <2>2. hand' \in [Threads -> Messages] /\ fresh' \subseteq Messages /\ backs' \in Nat
    BY <1>1, <2>1 DEF Publish, IInv, TypeOK
  <2> QED
    BY <2>1, <2>2, EnforceKeeps
<1>2. ASSUME NEW p \in Pushers, Push(p) PROVE IInv'
  BY <1>2, PushKeeps DEF Threads
<1>3. ASSUME NEW i \in DOMAIN buf, PopNext(i), UNCHANGED at PROVE
        /\ buf' \in Seq(Messages) /\ Len(buf') <= Len(buf) /\ count' \in Nat /\ CountExact'
  BY <1>3, WithoutType DEF PopNext, IInv, TypeOK, CountExact
<1>4. CASE Get
  <2>1. PICK i \in DOMAIN buf : PopNext(i)
    BY <1>4 DEF Get
  <2>2. UNCHANGED at
    BY <1>4 DEF Get
  <2>3. TypeOK' /\ CountExact' /\ Len(buf') <= Len(buf)
    BY <1>4, <1>3, <2>1, <2>2 DEF Get, IInv, TypeOK
  <2> QED
    BY <2>2, <2>3, OthersKeep
<1>5. CASE Purge
  <2>1. Len(buf') = 0 /\ Len(buf) \in Nat /\ buf' \in Seq(Messages) /\ CountExact'
    BY <1>5 DEF Purge, IInv, TypeOK, CountExact
  <2>2. TypeOK' /\ UNCHANGED at
    BY <1>5, <2>1 DEF Purge, IInv, TypeOK, CountExact
  <2> QED
    BY <2>1, <2>2, OthersKeep
<1>6. CASE ConsumersChange
  <2>1. TypeOK' /\ CountExact' /\ UNCHANGED <<buf, at>>
    BY <1>6 DEF ConsumersChange, IInv, TypeOK, CountExact
  <2> QED
    BY <2>1, OthersKeep DEF IInv, TypeOK
<1>7. CASE LoopTop \/ LoopWoken \/ TakeSignal \/ Drain \/ LeaveDrain \/ Delivered
  <2>1. PICK pc \in PC : LoopTo(pc) /\ pc \notin {"push", "took"}
    BY <1>7 DEF LoopTop, LoopWoken, TakeSignal, Drain, LeaveDrain, Delivered, PC
  <2>2. at[Loop] \notin {"push", "took"}
    BY <1>7 DEF LoopTop, LoopWoken, TakeSignal, Drain, LeaveDrain, Delivered
  <2>3. /\ at' \in [Threads -> PC] /\ at[Loop] # "took" /\ at'[Loop] # "took"
        /\ \A t \in Threads : at'[t] = "push" <=> at[t] = "push"
    BY <2>1, <2>2, LoopMoves
  <2>4. UNCHANGED <<buf, count, consumers, hand, fresh, evicted, changes, backs>>
        /\ signal' \in BOOLEAN /\ wake' \in BOOLEAN
    BY <1>7 DEF LoopTop, LoopWoken, TakeSignal, Drain, LeaveDrain, Delivered, IInv, TypeOK
  <2>5. TypeOK' /\ CountExact' /\ Len(buf') <= Len(buf)
    BY <2>3, <2>4 DEF IInv, TypeOK, CountExact
  <2> QED
    BY <2>3, <2>5, OthersKeep
<1>8. CASE Receive
  <2>1. /\ buf' \in Seq(Messages) /\ Len(buf') = Len(buf) - 1 /\ buf[1] \in Messages
    BY <1>8, DropFirstType DEF Receive, IInv, TypeOK
  <2>2. /\ at' \in [Threads -> PC] /\ at[Loop] = "select" /\ at'[Loop] = "took"
        /\ \A t \in Threads : at'[t] = "push" <=> at[t] = "push"
    BY <1>8 DEF Receive, LoopTo, IInv, TypeOK, PC, Threads
  <2>3. CountExact' /\ Len(buf') <= Len(buf)
    BY <1>8, <2>1, <2>2 DEF Receive, IInv, TypeOK, CountExact
  <2>4. TypeOK'
    BY <1>8, <2>1, <2>2 DEF Receive, IInv, TypeOK
  <2> QED
    BY <2>2, <2>3, <2>4, OthersKeep
<1>9. CASE CountDown
  <2>1. /\ at' \in [Threads -> PC] /\ at[Loop] = "took" /\ at'[Loop] = "have"
        /\ \A t \in Threads : at'[t] = "push" <=> at[t] = "push"
    BY <1>9 DEF CountDown, LoopTo, IInv, TypeOK, PC, Threads
  <2>2. CountExact' /\ count' \in Nat /\ Len(buf') <= Len(buf)
    BY <1>9, <2>1 DEF CountDown, IInv, TypeOK, CountExact
  <2>3. TypeOK'
    BY <1>9, <2>1, <2>2 DEF CountDown, IInv, TypeOK
  <2> QED
    BY <2>1, <2>2, <2>3, OthersKeep
<1>10. CASE DrainOne
  <2>1. at[Loop] = "pop"
    BY <1>10 DEF DrainOne
  <2>2. CASE buf = <<>>
    <3>1. LoopTo("top") /\ UNCHANGED <<buf, count, hand>>
      BY <1>10, <2>2 DEF DrainOne
    <3>2. /\ at' \in [Threads -> PC] /\ at'[Loop] # "took"
          /\ \A t \in Threads : at'[t] = "push" <=> at[t] = "push"
      BY <2>1, <3>1, LoopMoves DEF PC
    <3>3. TypeOK' /\ CountExact' /\ Len(buf') <= Len(buf)
      BY <1>10, <2>1, <3>1, <3>2 DEF DrainOne, IInv, TypeOK, CountExact
    <3> QED
      BY <3>2, <3>3, OthersKeep
  <2>3. CASE buf # <<>>
    <3>1. PICK i \in DOMAIN buf : /\ PopNext(i) /\ LoopTo("have")
                                  /\ hand' = [hand EXCEPT ![Loop] = buf[i]]
      BY <1>10, <2>3 DEF DrainOne
    <3>2. /\ at' \in [Threads -> PC] /\ at'[Loop] # "took"
          /\ \A t \in Threads : at'[t] = "push" <=> at[t] = "push"
      BY <2>1, <3>1, LoopMoves DEF PC
    <3>3. /\ buf' \in Seq(Messages) /\ Len(buf') = Len(buf) - 1 /\ count' = count - 1
          /\ buf[i] \in Messages
      BY <3>1, WithoutType DEF PopNext, IInv, TypeOK
    <3>4. CountExact' /\ count' \in Nat /\ Len(buf') <= Len(buf)
      BY <2>1, <3>2, <3>3 DEF IInv, TypeOK, CountExact
    <3>5. TypeOK'
      BY <1>10, <3>1, <3>2, <3>3, <3>4 DEF DrainOne, IInv, TypeOK
    <3> QED
      BY <3>2, <3>4, <3>5, OthersKeep
  <2> QED
    BY <2>2, <2>3
<1>11. CASE GiveBack
  <2>1. Loop \in Threads /\ Enforce(Loop) /\ at[Loop] # "took"
    BY <1>11 DEF GiveBack, Threads
  <2>2. hand' \in [Threads -> Messages] /\ fresh' \subseteq Messages /\ backs' \in Nat
    BY <1>11 DEF GiveBack, IInv, TypeOK
  <2> QED
    BY <2>1, <2>2, EnforceKeeps
<1>12. CASE Push(Loop)
  BY <1>12, PushKeeps DEF Threads
<1>13. CASE UNCHANGED vars
  <2>1. TypeOK' /\ CountExact' /\ UNCHANGED <<buf, at>>
    BY <1>13 DEF vars, IInv, TypeOK, CountExact
  <2> QED
    BY <2>1, OthersKeep DEF IInv, TypeOK
<1> QED
  BY <1>1, <1>2, <1>4, <1>5, <1>6, <1>7, <1>8, <1>9, <1>10, <1>11, <1>12, <1>13
     DEF Next, LoopStep

LEMMA Inductive == Spec => []IInv
BY InitIInv, NextIInv, PTL DEF Spec

(***************************************************************************)
(* q.count is the number of messages in the buffer, but for the one the    *)
(* loop has received and not counted, whatever publishes, gets, purges and *)
(* evictions interleave (queue.go, qll.go).                                *)
(***************************************************************************)
THEOREM CountIsExact == Spec => [](TypeOK /\ CountExact)
<1>1. IInv => TypeOK /\ CountExact
  BY DEF IInv
<1> QED
  BY <1>1, Inductive, PTL

(* The count of messages is never negative and every goroutine is at a     *)
(* place of its operation, whatever pushes, pops, purges and evictions     *)
(* interleave (q.count in push, PopNext, StreamPurge, EnforceMaxLength).   *)
THEOREM BufferTyped == Spec => []TypeOK
  BY CountIsExact, PTL

(***************************************************************************)
(* A FIFO queue with x-max-length exceeds it by fewer messages than there  *)
(* are goroutines pushing to it (EnforceMaxLength, push).                  *)
(***************************************************************************)
THEOREM LengthIsBounded == ASSUME Fifo PROVE Spec => []LengthBounded
<1>1. IInv => LengthBounded
  <2> SUFFICES ASSUME IInv, MaxLength > 0
               PROVE  Len(buf) <= MaxLength - 1 + Cardinality(Threads)
    BY DEF LengthBounded
  <2>1. Pushing \in SUBSET Threads
    BY DEF Pushing
  <2>2. Cardinality(Pushing) \in Nat /\ Cardinality(Threads) \in Nat /\ Len(buf) \in Nat
        /\ MaxLength \in Nat
    BY <2>1, ThreadsFinite, FS_CardinalityType, BufferAssumption DEF IInv, TypeOK
  <2> QED
    BY <2>2 DEF IInv, RoomLeft
<1> QED
  BY <1>1, Inductive, PTL

(***************************************************************************)
(* EnforceMaxLength evicts no more than it takes to make room for one      *)
(* message, and one more only while the loop holds a message it has not    *)
(* counted yet: the stale count costs at most one message.                 *)
(***************************************************************************)
THEOREM EvictionStops == Spec => EvictsForOne
<1> DEFINE taken == IF at[Loop] = "took" THEN 1 ELSE 0
<1>1. ASSUME IInv, NEW t \in Threads, Enforce(t), evicted' # evicted
      PROVE  Len(buf') >= MaxLength - 1 - taken
  <2>1. /\ buf \in Seq(Messages) /\ Len(buf) \in Nat /\ count \in Nat
        /\ MaxLength \in Nat
        /\ count = Len(buf) + taken
    BY <1>1, BufferAssumption DEF IInv, TypeOK, CountExact
  <2>2. Excess \in Nat /\ Evicting \in Nat /\ Evicting <= Len(buf)
    BY <2>1 DEF Excess, Evicting
  <2>3. Len(buf') = Len(buf) - Evicting
    BY <1>1, <2>1, <2>2, DropFirstType DEF Enforce
  <2>4. Evicting # 0
    <3>1. Evicting = 0 => {buf[n] : n \in 1..Evicting} = {}
      OBVIOUS
    <3> QED
      BY <1>1, <3>1 DEF Enforce
  <2>5. Evicting <= Excess /\ Excess = count - MaxLength + 1
    BY <2>1, <2>2, <2>4 DEF Evicting, Excess
  <2> QED
    BY <2>1, <2>2, <2>3, <2>5
<1>2. ASSUME IInv, Next, evicted' # evicted PROVE \E t \in Threads : Enforce(t)
  BY <1>2 DEF Next, LoopStep, Publish, Push, Get, Purge, ConsumersChange, LoopTop, LoopWoken,
     Receive, CountDown, TakeSignal, Drain, LeaveDrain, DrainOne, Delivered, GiveBack, Threads
<1>3. IInv /\ [Next]_vars =>
        [evicted' # evicted => Len(buf') >= MaxLength - 1 - taken]_vars
  BY <1>1, <1>2
<1> QED
  BY <1>3, Inductive, PTL DEF Spec, EvictsForOne
=============================================================================
