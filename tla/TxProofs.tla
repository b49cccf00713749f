------------------------------ MODULE TxProofs ------------------------------
(***************************************************************************)
(* Proofs about Tx: what is discarded has no effect, what is committed is  *)
(* committed once, and tx.commit-ok is complete for an exchange that is    *)
(* not a topic exchange, for any number of messages, deliveries,           *)
(* transactions and changes of the routing.                                *)
(***************************************************************************)
EXTENDS Tx, TLAPS

(* One transaction at a time: those before it have ended, those after it   *)
(* have not begun, and a tx.commit in progress is the current one's, with  *)
(* the buffers the client filled.                                          *)
OneAtATime ==
    /\ \A n \in Txns : n < txn => outcome[n] \in {"ok", "failed", "discarded"}
    /\ \A n \in Txns : n > txn => outcome[n] = "open" /\ ops[n] = Empty
    /\ work.pc # "idle" <=> outcome[txn] = "committing"
    /\ work.pc # "idle" => work.buf = ops[txn]
    /\ work.pc = "publish" => HasPublish
    /\ work.at > 0

(* While the channel takes methods, the buffers hold this transaction's    *)
(* operations only: what a failed commit left is out of reach.             *)
BuffersAreCurrent ==
    /\ ~tx.on => tx.buf = Empty
    /\ chan # "closing" /\ conn = "up" /\ CanEnd => tx.buf = ops[txn]

(* Each message is published once by the client. *)
PublishedOnce ==
    \A n1, n2 \in Txns :
        \A i1 \in 1..Len(ops[n1].pubs), i2 \in 1..Len(ops[n2].pubs) :
            ops[n1].pubs[i1] = ops[n2].pubs[i2] => n1 = n2 /\ i1 = i2

(* A tx.commit is past the i-th publish of transaction n. *)
Processed(n, i) ==
    \/ outcome[n] \in {"ok", "failed"}
    \/ /\ outcome[n] = "committing"
       /\ work.pc = "ack" \/ (work.pc \in {"check", "publish"} /\ i < work.at)

Touched(m) == copies[m] > 0 \/ m \in returned

(* What was published or returned was processed by some tx.commit. *)
TouchedWasProcessed ==
    \A m \in Messages : Touched(m) =>
        \E n \in Txns : \E i \in 1..Len(ops[n].pubs) : ops[n].pubs[i] = m /\ Processed(n, i)

(* A tag is settled by a transaction that acked it, and is no longer       *)
(* outstanding then.                                                       *)
SettledWasAcked ==
    \A t \in 1..MaxTag : settled[t] # 0 =>
        /\ Attempted(settled[t])
        /\ \E i \in 1..Len(ops[settled[t]].acks) : Covers(ops[settled[t]].acks[i], t)
SettledIsGone ==
    /\ \A t \in unacked : t <= last
    /\ \A t \in 1..MaxTag : t \in unacked \/ t > last => settled[t] = 0

(* What a tx.commit without an error so far, or one answered with          *)
(* commit-ok, has done.                                                    *)
PubsDone(n) ==
    \A i \in 1..Len(ops[n].pubs) :
        Processed(n, i) /\ ops[n].pubs[i] \in Mandatory => copies[ops[n].pubs[i]] = 1
Acked(n, i) == outcome[n] = "ok" \/ (work.pc = "ack" /\ i < work.at)
AcksDone(n) ==
    \A i \in 1..Len(ops[n].acks) :
        Acked(n, i) /\ ops[n].acks[i].tag # 0 => settled[ops[n].acks[i].tag] = n
ErrorFree(n) == outcome[n] = "ok" \/ (outcome[n] = "committing" /\ ~work.errors)
DoneSoFar ==
    \A n \in Txns : ErrorFree(n) => (~Topic => PubsDone(n)) /\ AcksDone(n)

Bookkeeping == TypeOK /\ OneAtATime /\ BuffersAreCurrent
PublishInv == PublishedOnce /\ TouchedWasProcessed /\ CommittedOnce
SettleInv == SettledWasAcked /\ SettledIsGone
IInv == Bookkeeping /\ PublishInv /\ SettleInv /\ DoneSoFar

-----------------------------------------------------------------------------
(* The records are updated field by field; these lemmas say what becomes   *)
(* of each field.                                                          *)
PCs == {"idle", "dry", "check", "publish", "ack"}
WorkType == [pc : PCs, buf : Buffers, at : Nat, errors : BOOLEAN]
TxType == [on : BOOLEAN, buf : Buffers]

LEMMA EmptyBuffers ==
    /\ Empty \in Buffers /\ Empty.pubs = <<>> /\ Empty.acks = <<>>
    /\ Len(Empty.pubs) = 0 /\ Len(Empty.acks) = 0
  BY DEF Buffers, Empty

LEMMA IdleFields ==
    /\ Idle \in WorkType /\ Idle.pc = "idle" /\ Idle.at = 1 /\ Idle.buf = Empty /\ ~Idle.errors
    /\ NotInTx \in TxType /\ ~NotInTx.on /\ NotInTx.buf = Empty
  BY EmptyBuffers DEF Idle, NotInTx, WorkType, TxType, PCs

LEMMA PubsAppended ==
    ASSUME NEW b \in Buffers, NEW m \in Messages, NEW c, c = [b EXCEPT !.pubs = Append(@, m)]
    PROVE  /\ c \in Buffers /\ c.acks = b.acks
           /\ c.pubs = Append(b.pubs, m) /\ Len(c.pubs) = Len(b.pubs) + 1
<1>1. Append(b.pubs, m) \in Seq(Messages) /\ Len(Append(b.pubs, m)) = Len(b.pubs) + 1
  BY DEF Buffers
<1>2. c.pubs = Append(b.pubs, m) /\ c.acks = b.acks
  BY DEF Buffers
<1>3. c \in Buffers
  BY <1>1 DEF Buffers
<1> QED
  BY <1>1, <1>2, <1>3

LEMMA AcksAppended ==
    ASSUME NEW b \in Buffers, NEW a \in BufferedAck, NEW c, c = [b EXCEPT !.acks = Append(@, a)]
    PROVE  /\ c \in Buffers /\ c.pubs = b.pubs
           /\ c.acks = Append(b.acks, a) /\ Len(c.acks) = Len(b.acks) + 1
<1>1. Append(b.acks, a) \in Seq(BufferedAck) /\ Len(Append(b.acks, a)) = Len(b.acks) + 1
  BY DEF Buffers
<1>2. c.acks = Append(b.acks, a) /\ c.pubs = b.pubs
  BY DEF Buffers
<1>3. c \in Buffers
  BY <1>1 DEF Buffers
<1> QED
  BY <1>1, <1>2, <1>3

LEMMA BufSet ==
    ASSUME tx \in TxType, NEW b \in Buffers, tx' = [tx EXCEPT !.buf = b]
    PROVE  tx' \in TxType /\ tx'.on = tx.on /\ tx'.buf = b
  BY DEF TxType

LEMMA WorkMoved ==
    ASSUME work \in WorkType, NEW pc \in PCs, NEW at \in Nat,
           work' = [work EXCEPT !.pc = pc, !.at = at]
    PROVE  /\ work' \in WorkType /\ work'.pc = pc /\ work'.at = at
           /\ work'.buf = work.buf /\ work'.errors = work.errors
  BY DEF WorkType

LEMMA WorkBegun ==
    ASSUME NEW b \in Buffers, work' = [Idle EXCEPT !.pc = "dry", !.buf = b]
    PROVE  /\ work' \in WorkType /\ work'.pc = "dry" /\ work'.at = 1
           /\ work'.buf = b /\ ~work'.errors
  BY EmptyBuffers DEF Idle, WorkType, PCs

LEMMA OpDone ==
    ASSUME work \in WorkType, NEW e \in BOOLEAN, NextOp(e)
    PROVE  /\ work' \in WorkType
           /\ work'.pc = IF work.pc = "publish" THEN "check" ELSE work.pc
           /\ work'.at = work.at + 1
           /\ work'.errors = (work.errors \/ e)
           /\ work'.buf = work.buf
<1> DEFINE pc == IF work.pc = "publish" THEN "check" ELSE work.pc
           er == work.errors \/ e
           at == work.at + 1
<1>1. work' = [work EXCEPT !.pc = pc, !.at = at, !.errors = er]
  BY DEF NextOp
<1>2. at \in Nat /\ er \in BOOLEAN /\ pc \in PCs
  BY DEF WorkType, PCs
<1> HIDE DEF pc, er, at
<1>3. /\ work' \in WorkType /\ work'.pc = pc /\ work'.at = at
      /\ work'.errors = er /\ work'.buf = work.buf
  BY <1>1, <1>2 DEF WorkType
<1> QED
  BY <1>3 DEF pc, er, at

(* What the type invariant says of the records. *)
LEMMA RecordTypes ==
    ASSUME TypeOK
    PROVE  /\ work \in WorkType /\ tx \in TxType
           /\ work.pc \in PCs /\ work.at \in Nat /\ work.errors \in BOOLEAN
           /\ work.buf \in Buffers /\ tx.buf \in Buffers /\ tx.on \in BOOLEAN
           /\ work.buf.pubs \in Seq(Messages) /\ work.buf.acks \in Seq(BufferedAck)
           /\ tx.buf.pubs \in Seq(Messages) /\ tx.buf.acks \in Seq(BufferedAck)
           /\ \A n \in Txns : /\ ops[n] \in Buffers
                              /\ ops[n].pubs \in Seq(Messages) /\ ops[n].acks \in Seq(BufferedAck)
<1>1. work \in WorkType /\ tx \in TxType
  BY DEF TypeOK, WorkType, TxType, PCs
<1>2. /\ work.pc \in PCs /\ work.at \in Nat /\ work.errors \in BOOLEAN
      /\ work.buf \in Buffers /\ tx.buf \in Buffers /\ tx.on \in BOOLEAN
  BY <1>1 DEF WorkType, TxType
<1>3. \A b \in Buffers : b.pubs \in Seq(Messages) /\ b.acks \in Seq(BufferedAck)
  BY DEF Buffers
<1> QED
  BY <1>1, <1>2, <1>3 DEF TypeOK

LEMMA TypeInit == Init => TypeOK
  BY TxAssumption, EmptyBuffers, IdleFields DEF Init, TypeOK, Txns, WorkType, TxType, PCs

-----------------------------------------------------------------------------
(* What the actions that change a record do, field by field. *)
Untouched == UNCHANGED <<copies, returned, settled>>

LEMMA SelectStep ==
    ASSUME TypeOK, Select
    PROVE  /\ ~tx.on /\ tx' \in TxType /\ tx'.on /\ tx'.buf = Empty
           /\ UNCHANGED <<route, chan, conn, work, unacked, last, txn, outcome, ops, changes>>
           /\ Untouched
  BY EmptyBuffers DEF Select, Log, Effects, Untouched, TxType

(* A buffered operation: the current transaction's buffers are b. *)
Buffered(b) ==
    /\ b \in Buffers /\ tx' \in TxType /\ tx'.on = tx.on /\ tx'.buf = b
    /\ ops' = [ops EXCEPT ![txn] = b]

LEMMA BufferStep ==
    ASSUME TypeOK, NEW b \in Buffers, Buffer(b)
    PROVE  Buffered(b)
  BY RecordTypes, BufSet DEF Buffer, Buffered

LEMMA PublishStep ==
    ASSUME TypeOK, NEW m \in Messages, Publish(m)
    PROVE  /\ Ready /\ tx.on /\ CanEnd
           /\ UNCHANGED <<route, work, last, txn, outcome, changes>> /\ Untouched
           /\ \/ /\ UNCHANGED <<tx, ops>>
                 /\ \/ UNCHANGED conn /\ chan' = "closing" /\ unacked' = {}
                    \/ conn' = "closing" /\ UNCHANGED <<chan, unacked>>
              \/ /\ UNCHANGED <<chan, conn, unacked>> /\ Unpublished(m)
                 /\ Len(tx.buf.pubs) < MaxBuffer
                 /\ \E b : /\ Buffered(b) /\ b.acks = tx.buf.acks
                           /\ b.pubs = Append(tx.buf.pubs, m) /\ Len(b.pubs) = Len(tx.buf.pubs) + 1
<1>1. /\ Ready /\ tx.on /\ CanEnd
      /\ UNCHANGED <<route, work, last, txn, outcome, changes>> /\ Untouched
  BY DEF Publish, Effects, Untouched
<1>2. CASE route = "missing" /\ SendChannelClosing /\ UNCHANGED <<conn, tx, ops>>
  BY <1>1, <1>2 DEF SendChannelClosing, ReleaseDeliveries, Ready
<1>3. CASE ConnectionError /\ UNCHANGED <<chan, unacked, tx, ops>>
  BY <1>1, <1>3 DEF ConnectionError
<1>4. CASE /\ Len(tx.buf.pubs) < MaxBuffer /\ Unpublished(m)
           /\ Buffer([tx.buf EXCEPT !.pubs = Append(@, m)])
           /\ UNCHANGED <<chan, conn, unacked>>
  <2> DEFINE b == [tx.buf EXCEPT !.pubs = Append(@, m)]
  <2>1. /\ b \in Buffers /\ b.acks = tx.buf.acks
        /\ b.pubs = Append(tx.buf.pubs, m) /\ Len(b.pubs) = Len(tx.buf.pubs) + 1
    BY RecordTypes, PubsAppended
  <2>2. Buffer(b)
    BY <1>4
  <2> HIDE DEF b
  <2>3. Buffered(b)
    BY <2>1, <2>2, BufferStep
  <2> QED
    BY <1>1, <1>4, <2>1, <2>3
<1> QED
  BY <1>2, <1>3, <1>4 DEF Publish

LEMMA AcknowledgeStep ==
    ASSUME TypeOK, NEW a \in BufferedAck, Acknowledge(a)
    PROVE  /\ Ready /\ tx.on /\ CanEnd
           /\ UNCHANGED <<route, chan, work, unacked, last, txn, outcome, changes>> /\ Untouched
           /\ \/ UNCHANGED <<tx, ops>> /\ conn' = "closing"
              \/ /\ UNCHANGED conn /\ Len(tx.buf.acks) < MaxBuffer
                 /\ \E b : /\ Buffered(b) /\ b.pubs = tx.buf.pubs
                           /\ b.acks = Append(tx.buf.acks, a) /\ Len(b.acks) = Len(tx.buf.acks) + 1
<1>1. /\ Ready /\ tx.on /\ CanEnd
      /\ UNCHANGED <<route, chan, work, unacked, last, txn, outcome, changes>> /\ Untouched
  BY DEF Acknowledge, Effects, Untouched
<1>2. CASE Len(tx.buf.acks) >= MaxBuffer
  BY <1>1, <1>2 DEF Acknowledge, ConnectionError
<1>3. CASE ~(Len(tx.buf.acks) >= MaxBuffer)
  <2> DEFINE b == [tx.buf EXCEPT !.acks = Append(@, a)]
  <2>1. /\ b \in Buffers /\ b.pubs = tx.buf.pubs
        /\ b.acks = Append(tx.buf.acks, a) /\ Len(b.acks) = Len(tx.buf.acks) + 1
    BY RecordTypes, AcksAppended
  <2>2. Buffer(b) /\ UNCHANGED conn
    BY <1>3 DEF Acknowledge
  <2>3. Len(tx.buf.acks) < MaxBuffer
    BY <1>3, RecordTypes, TxAssumption
  <2> HIDE DEF b
  <2>4. Buffered(b)
    BY <2>1, <2>2, BufferStep
  <2> QED
    BY <1>1, <2>1, <2>2, <2>3, <2>4
<1> QED
  BY <1>2, <1>3

LEMMA RollbackStep ==
    ASSUME TypeOK, Rollback
    PROVE  /\ Ready /\ CanEnd
           /\ UNCHANGED <<route, chan, work, unacked, last, ops, changes>> /\ Untouched
           /\ \/ UNCHANGED conn /\ Ends("discarded") /\ tx' \in TxType /\ tx'.on = tx.on /\ tx'.buf = Empty
              \/ conn' = "closing" /\ UNCHANGED <<tx, txn, outcome>>
<1>1. /\ Ready /\ CanEnd
      /\ UNCHANGED <<route, chan, work, unacked, last, ops, changes>> /\ Untouched
  BY DEF Rollback, Effects, Untouched
<1>2. CASE tx.on
  BY <1>1, <1>2, RecordTypes, EmptyBuffers, BufSet DEF Rollback
<1>3. CASE ~tx.on
  BY <1>1, <1>3 DEF Rollback, ConnectionError
<1> QED
  BY <1>2, <1>3

LEMMA CommitStep ==
    ASSUME TypeOK, Commit
    PROVE  /\ Ready /\ CanEnd
           /\ UNCHANGED <<route, chan, tx, unacked, last, txn, ops, changes>> /\ Untouched
           /\ \/ /\ UNCHANGED conn /\ outcome' = [outcome EXCEPT ![txn] = "committing"]
                 /\ work' \in WorkType /\ work'.pc = "dry" /\ work'.at = 1
                 /\ work'.buf = tx.buf /\ ~work'.errors
              \/ conn' = "closing" /\ UNCHANGED <<work, outcome>>
<1>1. /\ Ready /\ CanEnd
      /\ UNCHANGED <<route, chan, tx, unacked, last, txn, ops, changes>> /\ Untouched
  BY DEF Commit, Effects, Untouched
<1>2. CASE tx.on
  BY <1>1, <1>2, RecordTypes, WorkBegun DEF Commit
<1>3. CASE ~tx.on
  BY <1>1, <1>3 DEF Commit, ConnectionError
<1> QED
  BY <1>2, <1>3

(* One operation of a tx.commit, with or without an error. *)
Advance(pc, e) ==
    /\ work' \in WorkType /\ work'.pc = pc /\ work'.at = work.at + 1
    /\ work'.errors = (work.errors \/ e) /\ work'.buf = work.buf

LEMMA DryRunStep ==
    ASSUME TypeOK, DryRun
    PROVE  /\ work.pc = "dry" /\ \E e \in BOOLEAN : Advance("dry", e)
           /\ UNCHANGED <<route, chan, conn, tx, unacked, last, txn, outcome, ops, changes>> /\ Untouched
<1>1. NextOp(route = "missing") /\ (route = "missing") \in BOOLEAN /\ work.pc = "dry"
  BY DEF DryRun
<1>2. Advance("dry", route = "missing")
  BY <1>1, OpDone, RecordTypes DEF Advance
<1> QED
  BY <1>1, <1>2 DEF DryRun, Log, Effects, Untouched

LEMMA EndDryRunStep ==
    ASSUME TypeOK, EndDryRun
    PROVE  /\ work.pc = "dry" /\ UNCHANGED <<route, chan, unacked, last, ops, changes>> /\ Untouched
           /\ \/ /\ work' = Idle /\ tx' \in TxType /\ tx'.on = tx.on /\ tx'.buf = Empty
                 /\ Ends("failed") /\ conn' = IF conn = "gone" THEN conn ELSE "closing"
              \/ /\ work' \in WorkType /\ work'.pc = "check" /\ work'.at = 1
                 /\ work'.buf = work.buf /\ work'.errors = work.errors
                 /\ UNCHANGED <<conn, tx, txn, outcome>>
<1>1. work.pc = "dry" /\ UNCHANGED <<route, chan, unacked, last, ops, changes>> /\ Untouched
  BY DEF EndDryRun, Effects, Untouched
<1>2. CASE work.errors
  BY <1>1, <1>2, RecordTypes, EmptyBuffers, BufSet DEF EndDryRun
<1>3. CASE ~work.errors
  BY <1>1, <1>3, RecordTypes, WorkMoved DEF EndDryRun, PCs
<1> QED
  BY <1>2, <1>3

LEMMA CheckRouteStep ==
    ASSUME TypeOK, CheckRoute
    PROVE  /\ work.pc = "check" /\ HasPublish
           /\ UNCHANGED <<route, chan, conn, tx, unacked, last, copies, settled, changes, txn, outcome, ops>>
           /\ \/ /\ work' \in WorkType /\ work'.pc = "publish" /\ work'.at = work.at
                 /\ work'.buf = work.buf /\ work'.errors = work.errors /\ UNCHANGED returned
              \/ Advance("check", TRUE) /\ Pub \in Mandatory /\ returned' = returned \cup {Pub}
              \/ Advance("check", FALSE) /\ Pub \notin Mandatory /\ UNCHANGED returned
<1>1. /\ work.pc = "check" /\ HasPublish
      /\ UNCHANGED <<route, chan, conn, tx, unacked, last, copies, settled, changes, txn, outcome, ops>>
  BY DEF CheckRoute, Log
<1>2. CASE route = "bound"
  <2>1. work' = [work EXCEPT !.pc = "publish"] /\ UNCHANGED returned
    BY <1>2 DEF CheckRoute
  <2>2. /\ work' \in WorkType /\ work'.pc = "publish" /\ work'.at = work.at
        /\ work'.buf = work.buf /\ work'.errors = work.errors
    BY <2>1, RecordTypes DEF WorkType, PCs
  <2> QED
    BY <1>1, <2>1, <2>2
<1>3. CASE route # "bound" /\ Pub \in Mandatory
  <2>1. NextOp(TRUE) /\ returned' = returned \cup {Pub}
    BY <1>3 DEF CheckRoute
  <2> QED
    BY <1>1, <1>3, <2>1, OpDone, RecordTypes DEF Advance
<1>4. CASE route # "bound" /\ Pub \notin Mandatory
  <2> DEFINE e == Pub \in Mandatory
  <2>1. NextOp(e) /\ UNCHANGED returned /\ e = FALSE
    BY <1>4 DEF CheckRoute
  <2> HIDE DEF e
  <2> QED
    BY <1>1, <1>4, <2>1, OpDone, RecordTypes DEF Advance
<1> QED
  BY <1>2, <1>3, <1>4

(* Without an error, the message was published, or the exchange is a topic *)
(* exchange.                                                               *)
LEMMA PublishOneStep ==
    ASSUME TypeOK, PublishOne
    PROVE  /\ work.pc = "publish"
           /\ UNCHANGED <<route, chan, conn, tx, unacked, last, returned, settled, changes, txn, outcome, ops>>
           /\ \E e \in BOOLEAN :
                /\ Advance("check", e)
                /\ \/ copies' = [copies EXCEPT ![Pub] = @ + 1]
                   \/ UNCHANGED copies /\ (Topic \/ e)
<1> DEFINE e == route = "missing" \/ (route = "unbound" /\ ~Topic)
<1>1. /\ work.pc = "publish"
      /\ UNCHANGED <<route, chan, conn, tx, unacked, last, returned, settled, changes, txn, outcome, ops>>
  BY DEF PublishOne, Log
<1>2. NextOp(e) /\ e \in BOOLEAN
  BY DEF PublishOne
<1>3. \/ copies' = [copies EXCEPT ![Pub] = @ + 1]
      \/ UNCHANGED copies /\ (Topic \/ e)
  BY DEF PublishOne, TypeOK
<1> HIDE DEF e
<1>4. Advance("check", e)
  BY <1>1, <1>2, OpDone, RecordTypes DEF Advance
<1> QED
  BY <1>1, <1>2, <1>3, <1>4

LEMMA EndPublishesStep ==
    ASSUME TypeOK, EndPublishes
    PROVE  /\ work.pc = "check" /\ ~HasPublish
           /\ work' \in WorkType /\ work'.pc = "ack" /\ work'.at = 1
           /\ work'.buf = work.buf /\ work'.errors = work.errors
           /\ UNCHANGED <<route, chan, conn, tx, unacked, last, txn, outcome, ops, changes>> /\ Untouched
  BY RecordTypes, WorkMoved DEF EndPublishes, Log, Effects, Untouched, PCs

LEMMA AckOneStep ==
    ASSUME TypeOK, AckOne
    PROVE  LET a == work.buf.acks[work.at]
               T == IF Known(a) THEN {t \in unacked : Covers(a, t)} ELSE {}
           IN  /\ work.pc = "ack" /\ HasAck
               /\ unacked' = unacked \ T
               /\ settled' = [t \in 1..MaxTag |-> IF t \in T THEN txn ELSE settled[t]]
               /\ \E e \in BOOLEAN : Advance("ack", e) /\ (e \/ Known(a))
               /\ UNCHANGED <<route, chan, conn, tx, last, copies, returned, changes, txn, outcome, ops>>
<1> DEFINE a == work.buf.acks[work.at]
           e == ~Known(a)
<1>1. NextOp(e) /\ e \in BOOLEAN /\ work.pc = "ack"
  BY DEF AckOne
<1> HIDE DEF e
<1>2. Advance("ack", e)
  BY <1>1, OpDone, RecordTypes DEF Advance
<1>3. e \/ Known(a)
  BY DEF e
<1> QED
  BY <1>1, <1>2, <1>3 DEF AckOne, Log

LEMMA EndCommitStep ==
    ASSUME TypeOK, EndCommit
    PROVE  /\ work.pc = "ack" /\ ~HasAck /\ work' = Idle
           /\ UNCHANGED <<route, conn, last, ops, changes>> /\ Untouched
           /\ \/ /\ Ends("failed") /\ UNCHANGED tx
                 /\ \/ conn = "gone" /\ UNCHANGED <<chan, unacked>>
                    \/ chan' = "closing" /\ unacked' = {}
              \/ /\ ~work.errors /\ Ends("ok") /\ UNCHANGED <<chan, unacked>>
                 /\ tx' \in TxType /\ tx'.on = tx.on /\ tx'.buf = Empty
<1>1. /\ work.pc = "ack" /\ ~HasAck /\ work' = Idle
      /\ UNCHANGED <<route, conn, last, ops, changes>> /\ Untouched
  BY DEF EndCommit, Effects, Untouched
<1>2. CASE work.errors
  BY <1>1, <1>2 DEF EndCommit, SendChannelClosing, ReleaseDeliveries
<1>3. CASE ~work.errors
  BY <1>1, <1>3, RecordTypes, EmptyBuffers, BufSet DEF EndCommit
<1> QED
  BY <1>2, <1>3

-----------------------------------------------------------------------------
(* Type correctness, with the types of the records from the lemmas above. *)
LEMMA TypeFromParts ==
    ASSUME route' \in {"missing", "unbound", "bound"},
           chan' \in {"open", "closing", "closed"}, conn' \in {"up", "closing", "gone"},
           tx' \in TxType, Len(tx'.buf.pubs) <= MaxBuffer, Len(tx'.buf.acks) <= MaxBuffer,
           work' \in WorkType, unacked' \subseteq 1..MaxTag, last' \in 0..MaxTag, txn' \in Txns,
           outcome' \in [Txns -> {"open", "committing", "ok", "failed", "discarded"}],
           ops' \in [Txns -> Buffers], copies' \in [Messages -> Nat], returned' \subseteq Messages,
           settled' \in [1..MaxTag -> 0..MaxTxns], changes' \in 0..MaxChanges
    PROVE  TypeOK'
  BY DEF TypeOK, WorkType, TxType, PCs

LEMMA EndsType ==
    ASSUME TypeOK, NEW r \in {"ok", "failed", "discarded"}, Ends(r)
    PROVE  /\ txn' \in Txns
           /\ outcome' \in [Txns -> {"open", "committing", "ok", "failed", "discarded"}]
           /\ \/ txn' = txn /\ txn = MaxTxns
              \/ txn' = txn + 1
           /\ outcome'[txn] = r
           /\ \A n \in Txns \ {txn} : outcome'[n] = outcome[n]
  BY TxAssumption DEF TypeOK, Ends, Txns

LEMMA TypeNext == TypeOK /\ [Next]_vars => TypeOK'
<1> SUFFICES ASSUME TypeOK, [Next]_vars PROVE TypeOK'
  OBVIOUS
<1> USE TxAssumption, RecordTypes, EmptyBuffers, IdleFields
<1> USE DEF Untouched
<1>a. /\ route \in {"missing", "unbound", "bound"}
      /\ chan \in {"open", "closing", "closed"} /\ conn \in {"up", "closing", "gone"}
      /\ Len(tx.buf.pubs) <= MaxBuffer /\ Len(tx.buf.acks) <= MaxBuffer
      /\ unacked \subseteq 1..MaxTag /\ last \in 0..MaxTag /\ txn \in Txns
      /\ outcome \in [Txns -> {"open", "committing", "ok", "failed", "discarded"}]
      /\ ops \in [Txns -> Buffers] /\ copies \in [Messages -> Nat] /\ returned \subseteq Messages
      /\ settled \in [1..MaxTag -> 0..MaxTxns] /\ changes \in 0..MaxChanges
  BY DEF TypeOK
<1>b. \A b \in Buffers : b = Empty => Len(b.pubs) <= MaxBuffer /\ Len(b.acks) <= MaxBuffer
  OBVIOUS
<1>1. CASE Select
  BY <1>1, <1>a, <1>b, SelectStep, TypeFromParts
<1>2. CASE Rollback
  <2>1. CASE UNCHANGED conn /\ Ends("discarded") /\ tx' \in TxType /\ tx'.buf = Empty
    BY <1>2, <1>a, <1>b, <2>1, RollbackStep, EndsType, TypeFromParts
  <2>2. CASE conn' = "closing" /\ UNCHANGED <<tx, txn, outcome>>
    BY <1>2, <1>a, <2>2, RollbackStep, TypeFromParts
  <2> QED
    BY <1>2, <2>1, <2>2, RollbackStep
<1>3. CASE Commit
  BY <1>3, <1>a, CommitStep, TypeFromParts
<1>4. CASE CloseChannel
  BY <1>4, <1>a, EndsType, TypeFromParts DEF CloseChannel, ReleaseDeliveries, Effects
<1>5. CASE OpenChannel
  BY <1>5, <1>a, TypeFromParts DEF OpenChannel, Log, Effects
<1>6. ASSUME NEW m \in Messages, Publish(m) PROVE TypeOK'
  <2>1. CASE UNCHANGED <<tx, ops>>
    BY <1>6, <1>a, <2>1, PublishStep, TypeFromParts
  <2>2. CASE ~UNCHANGED <<tx, ops>>
    <3>1. UNCHANGED <<chan, conn, unacked>> /\ Len(tx.buf.pubs) < MaxBuffer
      BY <1>6, <2>2, PublishStep
    <3>2. PICK b : /\ Buffered(b) /\ b.acks = tx.buf.acks /\ Len(b.pubs) = Len(tx.buf.pubs) + 1
      BY <1>6, <2>2, PublishStep
    <3>3. /\ tx' \in TxType /\ ops' \in [Txns -> Buffers]
          /\ Len(tx'.buf.pubs) <= MaxBuffer /\ Len(tx'.buf.acks) <= MaxBuffer
      BY <1>a, <3>1, <3>2 DEF Buffered
    <3> QED
      BY <1>6, <1>a, <3>1, <3>3, PublishStep, TypeFromParts
  <2> QED
    BY <2>1, <2>2
<1>7. ASSUME NEW a \in BufferedAck, Acknowledge(a) PROVE TypeOK'
  <2>1. CASE UNCHANGED <<tx, ops>>
    BY <1>7, <1>a, <2>1, AcknowledgeStep, TypeFromParts
  <2>2. CASE ~UNCHANGED <<tx, ops>>
    <3>1. UNCHANGED conn /\ Len(tx.buf.acks) < MaxBuffer
      BY <1>7, <2>2, AcknowledgeStep
    <3>2. PICK b : /\ Buffered(b) /\ b.pubs = tx.buf.pubs /\ Len(b.acks) = Len(tx.buf.acks) + 1
      BY <1>7, <2>2, AcknowledgeStep
    <3>3. /\ tx' \in TxType /\ ops' \in [Txns -> Buffers]
          /\ Len(tx'.buf.pubs) <= MaxBuffer /\ Len(tx'.buf.acks) <= MaxBuffer
      BY <1>a, <3>1, <3>2 DEF Buffered
    <3> QED
      BY <1>7, <1>a, <3>1, <3>3, AcknowledgeStep, TypeFromParts
  <2> QED
    BY <2>1, <2>2
<1>8. CASE DryRun
  BY <1>8, <1>a, DryRunStep, TypeFromParts DEF Advance
<1>9. CASE EndDryRun
  <2>1. CASE work' = Idle /\ tx' \in TxType /\ tx'.buf = Empty /\ Ends("failed") /\ conn' \in {conn, "closing"}
    BY <1>9, <1>a, <1>b, <2>1, EndDryRunStep, EndsType, TypeFromParts
  <2>2. CASE work' \in WorkType /\ UNCHANGED <<conn, tx, txn, outcome>>
    BY <1>9, <1>a, <2>2, EndDryRunStep, TypeFromParts
  <2> QED
    BY <1>9, <2>1, <2>2, EndDryRunStep
<1>10. CASE CheckRoute
  BY <1>10, <1>a, CheckRouteStep, TypeFromParts DEF Advance
<1>11. CASE PublishOne
  <2>1. work' \in WorkType
    BY <1>11, PublishOneStep DEF Advance
  <2>2. copies' \in [Messages -> Nat]
    <3>1. CASE UNCHANGED copies
      BY <1>a, <3>1
    <3>2. CASE copies' = [copies EXCEPT ![Pub] = @ + 1]
      <4>1. copies' = [m \in Messages |-> IF m = Pub THEN copies[m] + 1 ELSE copies[m]]
        BY <1>a, <3>2
      <4> QED
        BY <1>a, <4>1
    <3> QED
      BY <1>11, <3>1, <3>2, PublishOneStep
  <2> QED
    BY <1>11, <1>a, <2>1, <2>2, PublishOneStep, TypeFromParts
<1>12. CASE EndPublishes
  BY <1>12, <1>a, EndPublishesStep, TypeFromParts
<1>13. CASE AckOne
  <2>1. settled' \in [1..MaxTag -> 0..MaxTxns]
    BY <1>13, <1>a, AckOneStep DEF Txns
  <2> QED
    BY <1>13, <1>a, <2>1, AckOneStep, TypeFromParts DEF Advance
<1>14. CASE EndCommit
  <2>1. CASE Ends("failed") /\ UNCHANGED tx
    BY <1>14, <1>a, <2>1, EndCommitStep, EndsType, TypeFromParts
  <2>2. CASE Ends("ok") /\ UNCHANGED <<chan, unacked>> /\ tx' \in TxType /\ tx'.buf = Empty
    BY <1>14, <1>a, <1>b, <2>2, EndCommitStep, EndsType, TypeFromParts
  <2> QED
    BY <1>14, <2>1, <2>2, EndCommitStep
<1>15. CASE Deliver
  BY <1>15, <1>a, TypeFromParts DEF Deliver, Log, Effects
<1>16. CASE CleanupConnection
  BY <1>16, <1>a, EndsType, TypeFromParts DEF CleanupConnection, ReleaseDeliveries, Effects
<1>17. ASSUME NEW r \in {"missing", "unbound", "bound"}, ChangeRoute(r) PROVE TypeOK'
  BY <1>17, <1>a, TypeFromParts DEF ChangeRoute, Log, Effects
<1>18. CASE UNCHANGED vars
  BY <1>18 DEF vars, TypeOK
<1> QED
  BY <1>1, <1>2, <1>3, <1>4, <1>5, <1>6, <1>7, <1>8, <1>9, <1>10, <1>11, <1>12, <1>13, <1>14,
     <1>15, <1>16, <1>17, <1>18 DEF Next

-----------------------------------------------------------------------------
(* The bookkeeping of transactions. *)
LEMMA BookkeepingInit == Init => Bookkeeping
  BY TypeInit, TxAssumption, EmptyBuffers, IdleFields
     DEF Init, Bookkeeping, OneAtATime, BuffersAreCurrent, Txns, CanEnd

(* The current transaction ends while no tx.commit runs any more. *)
LEMMA EndsKeeps ==
    ASSUME Bookkeeping, NEW r \in {"ok", "failed", "discarded"}, Ends(r), work'.pc = "idle", work'.at > 0,
           UNCHANGED ops, CanEnd \/ work.pc # "idle"
    PROVE  OneAtATime' /\ (CanEnd' => ops'[txn'] = Empty)
<1>1. TypeOK /\ OneAtATime
  BY DEF Bookkeeping
<1>2. /\ txn' \in Txns
      /\ \/ txn' = txn /\ txn = MaxTxns
         \/ txn' = txn + 1
      /\ outcome'[txn] = r
      /\ \A n \in Txns \ {txn} : outcome'[n] = outcome[n]
  BY <1>1, EndsType
<1>3. txn \in Txns /\ MaxTxns \in Nat
  BY <1>1, TxAssumption DEF TypeOK
<1>4. outcome'[txn'] # "committing" /\ (CanEnd' => ops'[txn'] = Empty)
  BY <1>1, <1>2, <1>3 DEF OneAtATime, Txns, CanEnd
<1> QED
  BY <1>1, <1>2, <1>3, <1>4 DEF OneAtATime, Txns

LEMMA BookkeepingNext == Bookkeeping /\ [Next]_vars => Bookkeeping'
<1> SUFFICES ASSUME Bookkeeping, [Next]_vars PROVE OneAtATime' /\ BuffersAreCurrent'
  BY TypeNext DEF Bookkeeping
<1> USE TxAssumption, RecordTypes, EmptyBuffers, IdleFields
<1>a. TypeOK /\ OneAtATime /\ BuffersAreCurrent
  BY DEF Bookkeeping
<1>b. txn \in Txns /\ outcome \in [Txns -> {"open", "committing", "ok", "failed", "discarded"}]
  BY <1>a DEF TypeOK
<1>1. CASE Select
  BY <1>1, <1>a, SelectStep DEF OneAtATime, BuffersAreCurrent, CanEnd, HasPublish
<1>2. CASE Rollback
  <2>1. CASE Ends("discarded") /\ tx'.on = tx.on /\ tx'.buf = Empty
    <3>1. OneAtATime' /\ (CanEnd' => ops'[txn'] = Empty)
      BY <1>2, <1>a, <2>1, RollbackStep, EndsKeeps DEF Ready, OneAtATime
    <3> QED
      BY <2>1, <3>1 DEF BuffersAreCurrent
  <2>2. CASE conn' = "closing" /\ UNCHANGED <<tx, txn, outcome>>
    BY <1>2, <1>a, <2>2, RollbackStep DEF OneAtATime, BuffersAreCurrent, HasPublish
  <2> QED
    BY <1>2, <1>a, <2>1, <2>2, RollbackStep
<1>3. CASE Commit
  <2>1. CASE UNCHANGED <<work, outcome>>
    BY <1>3, <1>a, <2>1, CommitStep DEF OneAtATime, BuffersAreCurrent, CanEnd, HasPublish
  <2>2. CASE ~UNCHANGED <<work, outcome>>
    <3>1. tx.buf = ops[txn]
      BY <1>3, <1>a, CommitStep DEF BuffersAreCurrent, Ready
    <3>2. /\ outcome' = [outcome EXCEPT ![txn] = "committing"]
          /\ work'.pc = "dry" /\ work'.at = 1 /\ work'.buf = tx.buf
      BY <1>3, <1>a, <2>2, CommitStep
    <3> QED
      BY <1>3, <1>a, <1>b, <3>1, <3>2, CommitStep DEF OneAtATime, BuffersAreCurrent, CanEnd, Txns
  <2> QED
    BY <2>1, <2>2
<1>4. CASE CloseChannel
  <2>1. CASE CanEnd
    BY <1>4, <1>a, <2>1, EndsKeeps DEF CloseChannel, BuffersAreCurrent, OneAtATime
  <2>2. CASE ~CanEnd
    BY <1>4, <1>a, <2>2 DEF CloseChannel, BuffersAreCurrent, OneAtATime, CanEnd, HasPublish
  <2> QED
    BY <2>1, <2>2
<1>5. CASE OpenChannel
  BY <1>5, <1>a DEF OpenChannel, Log, OneAtATime, BuffersAreCurrent, CanEnd, HasPublish
<1>6. ASSUME NEW m \in Messages, Publish(m) PROVE OneAtATime' /\ BuffersAreCurrent'
  <2>1. CASE UNCHANGED <<tx, ops>>
    BY <1>6, <1>a, <2>1, PublishStep DEF OneAtATime, BuffersAreCurrent, CanEnd, HasPublish
  <2>2. CASE ~UNCHANGED <<tx, ops>>
    <3>1. PICK b : Buffered(b)
      BY <1>6, <1>a, <2>2, PublishStep
    <3>2. /\ tx'.on /\ tx'.buf = b /\ ops'[txn] = b /\ \A n \in Txns \ {txn} : ops'[n] = ops[n]
      BY <1>6, <1>a, <1>b, <3>1, PublishStep DEF Buffered, TypeOK
    <3>3. UNCHANGED <<work, txn, outcome>> /\ work.pc = "idle" /\ CanEnd
      BY <1>6, <1>a, PublishStep DEF Ready
    <3>4. OneAtATime'
      BY <1>a, <1>b, <3>2, <3>3 DEF OneAtATime, CanEnd, Txns
    <3> QED
      BY <3>2, <3>3, <3>4 DEF BuffersAreCurrent
  <2> QED
    BY <2>1, <2>2
<1>7. ASSUME NEW a \in BufferedAck, Acknowledge(a) PROVE OneAtATime' /\ BuffersAreCurrent'
  <2>1. CASE UNCHANGED <<tx, ops>>
    BY <1>7, <1>a, <2>1, AcknowledgeStep DEF OneAtATime, BuffersAreCurrent, CanEnd, HasPublish
  <2>2. CASE ~UNCHANGED <<tx, ops>>
    <3>1. PICK b : Buffered(b)
      BY <1>7, <1>a, <2>2, AcknowledgeStep
    <3>2. /\ tx'.on /\ tx'.buf = b /\ ops'[txn] = b /\ \A n \in Txns \ {txn} : ops'[n] = ops[n]
      BY <1>7, <1>a, <1>b, <3>1, AcknowledgeStep DEF Buffered, TypeOK
    <3>3. UNCHANGED <<work, txn, outcome>> /\ work.pc = "idle" /\ CanEnd
      BY <1>7, <1>a, AcknowledgeStep DEF Ready
    <3>4. OneAtATime'
      BY <1>a, <1>b, <3>2, <3>3 DEF OneAtATime, CanEnd, Txns
    <3> QED
      BY <3>2, <3>3, <3>4 DEF BuffersAreCurrent
  <2> QED
    BY <2>1, <2>2
<1>8. CASE DryRun
  BY <1>8, <1>a, DryRunStep DEF Advance, OneAtATime, BuffersAreCurrent, CanEnd
<1>9. CASE EndDryRun
  <2>1. CASE work' = Idle /\ tx'.on = tx.on /\ tx'.buf = Empty /\ Ends("failed")
    BY <1>9, <1>a, <2>1, EndDryRunStep, EndsKeeps DEF BuffersAreCurrent
  <2>2. CASE work'.pc = "check" /\ work'.at = 1 /\ work'.buf = work.buf /\ UNCHANGED <<conn, tx, txn, outcome>>
    BY <1>9, <1>a, <2>2, EndDryRunStep DEF OneAtATime, BuffersAreCurrent, CanEnd
  <2> QED
    BY <1>9, <1>a, <2>1, <2>2, EndDryRunStep
<1>10. CASE CheckRoute
  BY <1>10, <1>a, CheckRouteStep DEF Advance, OneAtATime, BuffersAreCurrent, CanEnd, HasPublish
<1>11. CASE PublishOne
  BY <1>11, <1>a, PublishOneStep DEF Advance, OneAtATime, BuffersAreCurrent, CanEnd
<1>12. CASE EndPublishes
  BY <1>12, <1>a, EndPublishesStep DEF OneAtATime, BuffersAreCurrent, CanEnd
<1>13. CASE AckOne
  BY <1>13, <1>a, AckOneStep DEF Advance, OneAtATime, BuffersAreCurrent, CanEnd
<1>14. CASE EndCommit
  <2>1. CASE Ends("failed") /\ UNCHANGED tx
    BY <1>14, <1>a, <2>1, EndCommitStep, EndsKeeps DEF BuffersAreCurrent
  <2>2. CASE Ends("ok") /\ tx'.on = tx.on /\ tx'.buf = Empty
    BY <1>14, <1>a, <2>2, EndCommitStep, EndsKeeps DEF BuffersAreCurrent
  <2> QED
    BY <1>14, <1>a, <2>1, <2>2, EndCommitStep
<1>15. CASE Deliver
  BY <1>15, <1>a DEF Deliver, Log, OneAtATime, BuffersAreCurrent, CanEnd, HasPublish
<1>16. CASE CleanupConnection
  <2>1. CASE CanEnd
    BY <1>16, <1>a, <2>1, EndsKeeps DEF CleanupConnection, BuffersAreCurrent, OneAtATime, CanEnd
  <2>2. CASE ~CanEnd
    BY <1>16, <1>a, <2>2 DEF CleanupConnection, BuffersAreCurrent, OneAtATime, CanEnd, HasPublish
  <2> QED
    BY <2>1, <2>2
<1>17. ASSUME NEW r \in {"missing", "unbound", "bound"}, ChangeRoute(r) PROVE OneAtATime' /\ BuffersAreCurrent'
  BY <1>17, <1>a DEF ChangeRoute, Log, OneAtATime, BuffersAreCurrent, CanEnd, HasPublish
<1>18. CASE UNCHANGED vars
  BY <1>18, <1>a DEF vars, OneAtATime, BuffersAreCurrent, CanEnd, HasPublish
<1> QED
  BY <1>1, <1>2, <1>3, <1>4, <1>5, <1>6, <1>7, <1>8, <1>9, <1>10, <1>11, <1>12, <1>13, <1>14,
     <1>15, <1>16, <1>17, <1>18 DEF Next
-----------------------------------------------------------------------------
(* A step that runs no part of a tx.commit: the transactions that were     *)
(* attempted, and what they did, stay as they are.                         *)
Quiet ==
    /\ UNCHANGED <<work, copies, returned, settled>>
    /\ \A n \in Txns : Attempted(n) \/ Attempted(n)' => outcome'[n] = outcome[n] /\ ops'[n] = ops[n]

LEMMA DiscardIsQuiet ==
    ASSUME Bookkeeping, CanEnd, Ends("discarded"), UNCHANGED <<work, ops, copies, returned, settled>>
    PROVE  Quiet
<1>1. /\ outcome'[txn] = "discarded" /\ outcome[txn] = "open"
      /\ \A n \in Txns \ {txn} : outcome'[n] = outcome[n]
  BY EndsType DEF Bookkeeping, CanEnd
<1> QED
  BY <1>1 DEF Quiet, Attempted

LEMMA BufferedIsQuiet ==
    ASSUME Bookkeeping, CanEnd, NEW b, Buffered(b), UNCHANGED <<work, outcome, copies, returned, settled>>
    PROVE  Quiet
<1>1. \A n \in Txns \ {txn} : ops'[n] = ops[n]
  BY DEF Buffered, Bookkeeping, TypeOK
<1> QED
  BY <1>1 DEF Quiet, Attempted, CanEnd

LEMMA QuietSteps ==
    ASSUME Bookkeeping, [Next]_vars
    PROVE  \/ Quiet \/ Commit \/ DryRun \/ EndDryRun \/ CheckRoute
           \/ PublishOne \/ EndPublishes \/ AckOne \/ EndCommit
<1> USE DEF Untouched
<1>a. TypeOK
  BY DEF Bookkeeping
<1>1. CASE Select
  BY <1>1, <1>a, SelectStep DEF Quiet
<1>2. CASE Rollback
  BY <1>2, <1>a, RollbackStep, DiscardIsQuiet DEF Quiet
<1>4. CASE CloseChannel
  BY <1>4, DiscardIsQuiet DEF CloseChannel, Effects, Quiet
<1>5. CASE OpenChannel
  BY <1>5 DEF OpenChannel, Log, Effects, Quiet
<1>6. ASSUME NEW m \in Messages, Publish(m) PROVE Quiet
  BY <1>6, <1>a, PublishStep, BufferedIsQuiet DEF Quiet
<1>7. ASSUME NEW a \in BufferedAck, Acknowledge(a) PROVE Quiet
  BY <1>7, <1>a, AcknowledgeStep, BufferedIsQuiet DEF Quiet
<1>15. CASE Deliver
  BY <1>15 DEF Deliver, Log, Effects, Quiet
<1>16. CASE CleanupConnection
  BY <1>16, DiscardIsQuiet DEF CleanupConnection, Effects, Quiet
<1>17. ASSUME NEW r \in {"missing", "unbound", "bound"}, ChangeRoute(r) PROVE Quiet
  BY <1>17 DEF ChangeRoute, Log, Effects, Quiet
<1>18. CASE UNCHANGED vars
  BY <1>18 DEF vars, Quiet
<1> QED
  BY <1>1, <1>2, <1>4, <1>5, <1>6, <1>7, <1>15, <1>16, <1>17, <1>18 DEF Next

(* What a transaction was asked to do and what a tx.commit has passed stay. *)
LEMMA CommitEnds ==
    ASSUME Bookkeeping, NEW r \in {"ok", "failed"}, Ends(r), work.pc # "idle", UNCHANGED ops
    PROVE  \A n \in Txns : Attempted(n) =>
               /\ ops'[n] = ops[n] /\ Attempted(n)'
               /\ outcome[n] \in {"ok", "failed"} => outcome'[n] = outcome[n]
               /\ \A i \in 1..Len(ops[n].pubs) : Processed(n, i) => Processed(n, i)'
<1>1. TypeOK /\ OneAtATime /\ txn \in Txns
  BY DEF Bookkeeping, TypeOK
<1>2. \A n \in Txns : outcome[n] = "committing" => n = txn
  BY <1>1 DEF OneAtATime, Txns
<1>3. outcome[txn] = "committing"
  BY <1>1 DEF OneAtATime
<1>4. outcome'[txn] = r /\ \A n \in Txns \ {txn} : outcome'[n] = outcome[n]
  BY <1>1, EndsType
<1> QED
  BY <1>2, <1>3, <1>4 DEF Attempted, Processed

LEMMA Frozen ==
    ASSUME Bookkeeping, [Next]_vars
    PROVE  \A n \in Txns : Attempted(n) =>
               /\ ops'[n] = ops[n] /\ Attempted(n)'
               /\ outcome[n] \in {"ok", "failed"} => outcome'[n] = outcome[n]
               /\ \A i \in 1..Len(ops[n].pubs) : Processed(n, i) => Processed(n, i)'
<1>a. TypeOK /\ OneAtATime /\ txn \in Txns
  BY DEF Bookkeeping, TypeOK
<1>b. \A n \in Txns : outcome[n] = "committing" => n = txn
  BY <1>a DEF OneAtATime, Txns
<1>c. \A n \in Txns : Len(ops[n].pubs) \in Nat
  BY <1>a, RecordTypes
<1>d. work.at \in Nat
  BY <1>a, RecordTypes
<1>1. CASE Quiet
  BY <1>1 DEF Quiet, Attempted, Processed
<1>2. CASE Commit
  BY <1>2, <1>a, CommitStep DEF Attempted, Processed, CanEnd, Ready, TypeOK
<1>3. CASE DryRun
  BY <1>3, <1>a, <1>b, DryRunStep DEF Attempted, Processed, Advance
<1>4. CASE EndDryRun
  <2>1. CASE Ends("failed")
    BY <1>4, <1>a, <2>1, EndDryRunStep, CommitEnds
  <2>2. CASE work'.pc = "check" /\ UNCHANGED outcome
    BY <1>4, <1>a, <1>b, <2>2, EndDryRunStep DEF Attempted, Processed
  <2> QED
    BY <1>4, <1>a, <2>1, <2>2, EndDryRunStep
<1>5. CASE CheckRoute
  BY <1>5, <1>a, <1>b, <1>c, <1>d, CheckRouteStep DEF Attempted, Processed, Advance
<1>6. CASE PublishOne
  BY <1>6, <1>a, <1>b, <1>c, <1>d, PublishOneStep DEF Attempted, Processed, Advance
<1>7. CASE EndPublishes
  BY <1>7, <1>a, <1>b, EndPublishesStep DEF Attempted, Processed
<1>8. CASE AckOne
  BY <1>8, <1>a, <1>b, AckOneStep DEF Attempted, Processed, Advance
<1>9. CASE EndCommit
  BY <1>9, <1>a, EndCommitStep, CommitEnds
<1> QED
  BY <1>1, <1>2, <1>3, <1>4, <1>5, <1>6, <1>7, <1>8, <1>9, QuietSteps

-----------------------------------------------------------------------------
(* The publishes: what a tx.commit is about to publish or return is        *)
(* untouched, because the client publishes each message once.              *)
LEMMA NotTouched ==
    ASSUME Bookkeeping, PublishInv, work.pc \in {"check", "publish"}, HasPublish
    PROVE  /\ txn \in Txns /\ outcome[txn] = "committing"
           /\ work.at \in 1..Len(ops[txn].pubs) /\ Pub = ops[txn].pubs[work.at] /\ Pub \in Messages
           /\ ~Touched(Pub)
<1>1. TypeOK /\ OneAtATime /\ txn \in Txns
  BY DEF Bookkeeping, TypeOK
<1>2. /\ outcome[txn] = "committing" /\ work.buf = ops[txn]
      /\ work.at \in Nat /\ work.at > 0 /\ ops[txn].pubs \in Seq(Messages)
  BY <1>1, RecordTypes DEF OneAtATime
<1>3. work.at \in 1..Len(ops[txn].pubs) /\ Pub = ops[txn].pubs[work.at] /\ Pub \in Messages
  BY <1>2 DEF HasPublish, Pub
<1>4. ASSUME Touched(Pub) PROVE FALSE
  <2>0. PICK n \in Txns : \E i \in 1..Len(ops[n].pubs) : ops[n].pubs[i] = Pub /\ Processed(n, i)
    BY <1>3, <1>4 DEF PublishInv, TouchedWasProcessed
  <2>1. PICK i \in 1..Len(ops[n].pubs) : ops[n].pubs[i] = Pub /\ Processed(n, i)
    BY <2>0
  <2>2. n = txn /\ i = work.at
    BY <1>1, <1>3, <2>1 DEF PublishInv, PublishedOnce
  <2> QED
    BY <1>2, <2>1, <2>2 DEF Processed
<1> QED
  BY <1>1, <1>2, <1>3, <1>4

(* A step publishes one new message into the current transaction, or none. *)
LEMMA PubsSteps ==
    ASSUME Bookkeeping, [Next]_vars
    PROVE  \/ \A n \in Txns : ops'[n].pubs = ops[n].pubs
           \/ \E m \in Messages :
                /\ Unpublished(m) /\ ops'[txn].pubs = Append(ops[txn].pubs, m)
                /\ \A n \in Txns \ {txn} : ops'[n].pubs = ops[n].pubs
<1>a. TypeOK /\ txn \in Txns
  BY DEF Bookkeeping, TypeOK
<1>b. Ready /\ CanEnd => tx.buf = ops[txn]
  BY DEF Bookkeeping, BuffersAreCurrent, Ready
<1>1. ASSUME NEW m \in Messages, Publish(m), ~UNCHANGED ops
      PROVE  /\ Unpublished(m) /\ ops'[txn].pubs = Append(ops[txn].pubs, m)
             /\ \A n \in Txns \ {txn} : ops'[n].pubs = ops[n].pubs
  <2>1. PICK b : Buffered(b) /\ b.pubs = Append(tx.buf.pubs, m)
    BY <1>1, <1>a, PublishStep
  <2> QED
    BY <1>1, <1>a, <1>b, <2>1, PublishStep DEF Buffered, TypeOK
<1>2. ASSUME NEW a \in BufferedAck, Acknowledge(a), ~UNCHANGED ops
      PROVE  \A n \in Txns : ops'[n].pubs = ops[n].pubs
  <2>1. PICK b : Buffered(b) /\ b.pubs = tx.buf.pubs
    BY <1>2, <1>a, AcknowledgeStep
  <2> QED
    BY <1>2, <1>a, <1>b, <2>1, AcknowledgeStep DEF Buffered, TypeOK
<1>3. CASE UNCHANGED ops
  BY <1>3
<1>4. CASE ~UNCHANGED ops
  <2>1. (\E m \in Messages : Publish(m)) \/ (\E a \in BufferedAck : Acknowledge(a))
    BY <1>4 DEF Next, Select, Rollback, Commit, CloseChannel, OpenChannel, DryRun, EndDryRun, CheckRoute,
       PublishOne, EndPublishes, AckOne, EndCommit, Deliver, CleanupConnection, ChangeRoute, Log, vars
  <2> QED
    BY <1>1, <1>2, <1>4, <2>1
<1> QED
  BY <1>3, <1>4

LEMMA PublishedOnceNext ==
    ASSUME Bookkeeping, PublishedOnce, [Next]_vars
    PROVE  PublishedOnce'
<1>a. txn \in Txns /\ \A n \in Txns : ops[n].pubs \in Seq(Messages)
  BY RecordTypes DEF Bookkeeping, TypeOK
<1>1. CASE \A n \in Txns : ops'[n].pubs = ops[n].pubs
  BY <1>1 DEF PublishedOnce
<1>2. ASSUME NEW m \in Messages, Unpublished(m), ops'[txn].pubs = Append(ops[txn].pubs, m),
             \A n \in Txns \ {txn} : ops'[n].pubs = ops[n].pubs
      PROVE  PublishedOnce'
  <2>1. \A n \in Txns : \A i \in 1..Len(ops[n].pubs) : ops[n].pubs[i] # m
    BY <1>2, <1>a DEF Unpublished, Range
  <2>2. \A n \in Txns : \A i \in 1..Len(ops'[n].pubs) :
            \/ i \in 1..Len(ops[n].pubs) /\ ops'[n].pubs[i] = ops[n].pubs[i]
            \/ n = txn /\ i = Len(ops[txn].pubs) + 1 /\ ops'[n].pubs[i] = m
    <3> TAKE n \in Txns
    <3>1. CASE n # txn
      BY <1>2, <3>1
    <3>2. CASE n = txn
      <4> DEFINE s == ops[txn].pubs
      <4>1. s \in Seq(Messages) /\ ops'[n].pubs = Append(s, m)
        BY <1>2, <1>a, <3>2
      <4> HIDE DEF s
      <4>2. \A i \in 1..Len(Append(s, m)) :
                \/ i \in 1..Len(s) /\ Append(s, m)[i] = s[i]
                \/ i = Len(s) + 1 /\ Append(s, m)[i] = m
        BY <4>1
      <4> QED
        BY <3>2, <4>1, <4>2 DEF s
    <3> QED
      BY <3>1, <3>2
  <2> SUFFICES ASSUME NEW n1 \in Txns, NEW n2 \in Txns,
                      NEW i1 \in 1..Len(ops'[n1].pubs), NEW i2 \in 1..Len(ops'[n2].pubs),
                      ops'[n1].pubs[i1] = ops'[n2].pubs[i2]
               PROVE  n1 = n2 /\ i1 = i2
    BY DEF PublishedOnce
  <2>3. CASE i1 \in 1..Len(ops[n1].pubs) /\ ops'[n1].pubs[i1] = ops[n1].pubs[i1]
    <3>1. CASE i2 \in 1..Len(ops[n2].pubs) /\ ops'[n2].pubs[i2] = ops[n2].pubs[i2]
      <4>1. ops[n1].pubs[i1] = ops[n2].pubs[i2]
        BY <2>3, <3>1
      <4>2. i1 \in 1..Len(ops[n1].pubs) /\ i2 \in 1..Len(ops[n2].pubs)
        BY <2>3, <3>1
      <4> QED
        BY <4>1, <4>2 DEF PublishedOnce
    <3>2. CASE n2 = txn /\ ops'[n2].pubs[i2] = m
      BY <2>1, <2>3, <3>2
    <3> QED
      BY <2>2, <3>1, <3>2
  <2>4. CASE n1 = txn /\ i1 = Len(ops[txn].pubs) + 1 /\ ops'[n1].pubs[i1] = m
    BY <2>1, <2>2, <2>4
  <2> QED
    BY <2>2, <2>3, <2>4
<1> QED
  BY <1>1, <1>2, PubsSteps

LEMMA TouchedNext ==
    ASSUME Bookkeeping, PublishInv, [Next]_vars
    PROVE  TouchedWasProcessed'
<1>a. TypeOK /\ OneAtATime
  BY DEF Bookkeeping
<1> SUFFICES ASSUME NEW m \in Messages, Touched(m)'
             PROVE  \E n \in Txns : \E i \in 1..Len(ops'[n].pubs) : ops'[n].pubs[i] = m /\ Processed(n, i)'
  BY DEF TouchedWasProcessed
<1>1. CASE Touched(m)
  <2>1. PICK n \in Txns : \E i \in 1..Len(ops[n].pubs) : ops[n].pubs[i] = m /\ Processed(n, i)
    BY <1>1 DEF PublishInv, TouchedWasProcessed
  <2>2. Attempted(n)
    BY <2>1 DEF Attempted, Processed
  <2> QED
    BY <2>1, <2>2, Frozen
<1>2. CASE ~Touched(m)
  <2>1. CASE CheckRoute
    <3>1. Advance("check", TRUE) /\ m = Pub
      BY <1>2, <1>a, <2>1, CheckRouteStep DEF Touched
    <3>2. PICK n \in Txns, i \in Nat : n = txn /\ i = work.at
      BY <1>a, RecordTypes DEF TypeOK
    <3>3. outcome'[n] = "committing" /\ ops' = ops /\ work'.pc = "check" /\ i < work'.at
      BY <2>1, <3>1, <3>2, <1>a, CheckRouteStep, NotTouched DEF Advance
    <3>4. i \in 1..Len(ops'[n].pubs) /\ ops'[n].pubs[i] = m
      BY <2>1, <3>1, <3>2, <3>3, <1>a, CheckRouteStep, NotTouched
    <3> QED
      BY <3>3, <3>4 DEF Processed
  <2>2. CASE PublishOne
    <3>1. PICK e \in BOOLEAN : Advance("check", e)
      BY <2>2, <1>a, PublishOneStep
    <3>2. m = Pub
      BY <1>2, <2>2, <1>a, PublishOneStep DEF Touched, TypeOK
    <3>3. HasPublish
      BY <1>a, <2>2 DEF OneAtATime, PublishOne
    <3>4. PICK n \in Txns, i \in Nat : n = txn /\ i = work.at
      BY <1>a, RecordTypes DEF TypeOK
    <3>5. outcome'[n] = "committing" /\ ops' = ops /\ work'.pc = "check" /\ i < work'.at
      BY <2>2, <3>1, <3>3, <3>4, <1>a, PublishOneStep, NotTouched DEF Advance
    <3>6. i \in 1..Len(ops'[n].pubs) /\ ops'[n].pubs[i] = m
      BY <2>2, <3>2, <3>3, <3>4, <3>5, <1>a, PublishOneStep, NotTouched
    <3> QED
      BY <3>5, <3>6 DEF Processed
  <2>3. CASE UNCHANGED <<copies, returned>>
    BY <1>2, <2>3 DEF Touched
  <2> QED
    BY <1>a, <2>1, <2>2, <2>3, QuietSteps, CommitStep, DryRunStep, EndDryRunStep, EndPublishesStep,
       AckOneStep, EndCommitStep DEF Quiet, Untouched
<1> QED
  BY <1>1, <1>2

LEMMA CommittedOnceNext ==
    ASSUME Bookkeeping, PublishInv, [Next]_vars
    PROVE  CommittedOnce'
<1>a. TypeOK /\ OneAtATime /\ copies \in [Messages -> Nat]
  BY DEF Bookkeeping, TypeOK
<1>b. CommittedOnce
  BY DEF PublishInv
<1>1. CASE CheckRoute
  <2>1. CASE UNCHANGED returned
    BY <1>1, <1>a, <1>b, <2>1, CheckRouteStep DEF CommittedOnce
  <2>2. CASE returned' = returned \cup {Pub}
    <3>1. copies[Pub] = 0 /\ Pub \notin returned
      BY <1>1, <1>a, CheckRouteStep, NotTouched DEF Touched
    <3> QED
      BY <1>1, <1>a, <1>b, <2>2, <3>1, CheckRouteStep DEF CommittedOnce
  <2> QED
    BY <1>1, <1>a, <2>1, <2>2, CheckRouteStep
<1>2. CASE PublishOne
  <2>1. copies[Pub] = 0 /\ Pub \notin returned
    BY <1>2, <1>a, PublishOneStep, NotTouched DEF Touched, OneAtATime
  <2>2. CASE UNCHANGED copies
    BY <1>2, <1>a, <1>b, <2>2, PublishOneStep DEF CommittedOnce
  <2>3. CASE copies' = [copies EXCEPT ![Pub] = @ + 1]
    <3>1. copies' = [m \in Messages |-> IF m = Pub THEN copies[m] + 1 ELSE copies[m]]
      BY <1>a, <2>3
    <3> QED
      BY <1>2, <1>a, <1>b, <2>1, <3>1, PublishOneStep DEF CommittedOnce
  <2> QED
    BY <1>2, <1>a, <2>2, <2>3, PublishOneStep
<1>3. CASE UNCHANGED <<copies, returned>>
  BY <1>3, <1>b DEF CommittedOnce
<1> QED
  BY <1>a, <1>1, <1>2, <1>3, QuietSteps, CommitStep, DryRunStep, EndDryRunStep, EndPublishesStep,
     AckOneStep, EndCommitStep DEF Quiet, Untouched

LEMMA PublishInit == Init => PublishInv
  BY EmptyBuffers DEF Init, PublishInv, PublishedOnce, TouchedWasProcessed, Touched, CommittedOnce

LEMMA PublishNext == Bookkeeping /\ PublishInv /\ [Next]_vars => PublishInv'
  BY PublishedOnceNext, TouchedNext, CommittedOnceNext DEF PublishInv

(* Spec implies that every message is published or returned at most once,  *)
(* however many transactions fail and whatever becomes of the routing.     *)
THEOREM EveryMessageOnce == Spec => []CommittedOnce
<1>1. Init => Bookkeeping /\ PublishInv
  BY BookkeepingInit, PublishInit
<1>2. (Bookkeeping /\ PublishInv) /\ [Next]_vars => (Bookkeeping /\ PublishInv)'
  BY BookkeepingNext, PublishNext
<1>3. Bookkeeping /\ PublishInv => CommittedOnce
  BY DEF PublishInv
<1> QED
  BY <1>1, <1>2, <1>3, PTL DEF Spec

-----------------------------------------------------------------------------
(* The acks: a tag is settled once, by the transaction that acks it. *)
LEMMA SettleSteps ==
    ASSUME Bookkeeping, [Next]_vars
    PROVE  \/ AckOne
           \/ UNCHANGED settled /\ unacked' \subseteq unacked /\ UNCHANGED last
           \/ UNCHANGED settled /\ unacked' = unacked \cup {last + 1} /\ last' = last + 1
<1> DEFINE Shrinks == UNCHANGED <<settled, last>> /\ unacked' \subseteq unacked
<1>1. Select \/ Rollback \/ Commit \/ OpenChannel \/ DryRun \/ EndDryRun => Shrinks
  BY DEF Select, Rollback, Commit, OpenChannel, DryRun, EndDryRun, Effects
<1>2. CheckRoute \/ PublishOne \/ EndPublishes \/ UNCHANGED vars => Shrinks
  BY DEF CheckRoute, PublishOne, EndPublishes, Effects, vars
<1>3. CloseChannel \/ CleanupConnection \/ EndCommit => Shrinks
  BY DEF CloseChannel, CleanupConnection, EndCommit, ReleaseDeliveries, SendChannelClosing, Effects
<1>4. ASSUME NEW m \in Messages, Publish(m) PROVE Shrinks
  BY <1>4 DEF Publish, SendChannelClosing, ReleaseDeliveries, Effects
<1>5. (\E a \in BufferedAck : Acknowledge(a)) => Shrinks
  BY DEF Acknowledge, Effects
<1>6. (\E r \in {"missing", "unbound", "bound"} : ChangeRoute(r)) => Shrinks
  BY DEF ChangeRoute, Effects
<1>7. Deliver => UNCHANGED settled /\ unacked' = unacked \cup {last + 1} /\ last' = last + 1
  BY DEF Deliver, Effects
<1> HIDE DEF Shrinks
<1>8. Shrinks \/ AckOne \/ Deliver
  BY <1>1, <1>2, <1>3, <1>4, <1>5, <1>6 DEF Next
<1> QED
  BY <1>7, <1>8 DEF Shrinks

LEMMA SettledIsGoneNext ==
    ASSUME Bookkeeping, SettledIsGone, [Next]_vars
    PROVE  SettledIsGone'
<1>a. TypeOK /\ unacked \subseteq 1..MaxTag /\ last \in 0..MaxTag
  BY DEF Bookkeeping, TypeOK
<1>1. CASE AckOne
  <2> DEFINE T == unacked \ unacked'
  <2>1. /\ unacked' \subseteq unacked /\ UNCHANGED last
        /\ \A t \in 1..MaxTag : t \notin T => settled'[t] = settled[t]
    BY <1>1, <1>a, AckOneStep
  <2>2. \A t \in 1..MaxTag : t \in unacked' \/ t > last => t \notin T
    BY <1>a DEF SettledIsGone
  <2> QED
    BY <2>1, <2>2, <1>a DEF SettledIsGone
<1>2. CASE UNCHANGED settled /\ unacked' \subseteq unacked /\ UNCHANGED last
  BY <1>2, <1>a DEF SettledIsGone
<1>3. CASE UNCHANGED settled /\ unacked' = unacked \cup {last + 1} /\ last' = last + 1
  BY <1>3, <1>a, TxAssumption DEF SettledIsGone
<1> QED
  BY <1>1, <1>2, <1>3, SettleSteps

LEMMA SettledWasAckedNext ==
    ASSUME Bookkeeping, SettledWasAcked, [Next]_vars
    PROVE  SettledWasAcked'
<1>a. TypeOK /\ OneAtATime /\ settled \in [1..MaxTag -> 0..MaxTxns] /\ txn \in Txns
  BY DEF Bookkeeping, TypeOK
<1> SUFFICES ASSUME NEW t \in 1..MaxTag, settled'[t] # 0
             PROVE  /\ Attempted(settled[t])'
                    /\ \E i \in 1..Len(ops'[settled'[t]].acks) : Covers(ops'[settled'[t]].acks[i], t)
  BY DEF SettledWasAcked
<1>1. CASE settled'[t] = settled[t]
  <2>1. PICK n \in Txns : n = settled[t]
    BY <1>1, <1>a, TxAssumption DEF Txns
  <2>2. Attempted(n) /\ \E i \in 1..Len(ops[n].acks) : Covers(ops[n].acks[i], t)
    BY <1>1, <2>1 DEF SettledWasAcked
  <2> QED
    BY <1>1, <2>1, <2>2, Frozen DEF Attempted
<1>2. CASE settled'[t] # settled[t]
  <2>1. AckOne
    BY <1>2, SettleSteps
  <2>2. /\ settled'[t] = txn /\ Covers(work.buf.acks[work.at], t) /\ HasAck /\ work.pc = "ack"
        /\ UNCHANGED <<outcome, ops>>
    BY <1>2, <1>a, <2>1, AckOneStep
  <2>3. outcome[txn] = "committing" /\ work.buf = ops[txn] /\ work.at \in Nat /\ work.at > 0
    BY <1>a, <2>2, RecordTypes DEF OneAtATime
  <2>4. work.at \in 1..Len(ops[txn].acks)
    BY <2>2, <2>3, <1>a, RecordTypes DEF HasAck
  <2> QED
    BY <2>2, <2>3, <2>4 DEF Attempted
<1> QED
  BY <1>1, <1>2

LEMMA SettleInit == Init => SettleInv
  BY TxAssumption DEF Init, SettleInv, SettledWasAcked, SettledIsGone

LEMMA SettleNext == Bookkeeping /\ SettleInv /\ [Next]_vars => SettleInv'
  BY SettledWasAckedNext, SettledIsGoneNext DEF SettleInv

(* Spec implies that what a transaction buffered takes effect only when    *)
(* the client asked to commit it: tx.rollback and the cleanup of a channel *)
(* or a connection discard the buffers.                                    *)
THEOREM RollbackDiscards == Spec => []DiscardedHasNoEffect
<1>1. Init => Bookkeeping /\ PublishInv /\ SettleInv
  BY BookkeepingInit, PublishInit, SettleInit
<1>2. (Bookkeeping /\ PublishInv /\ SettleInv) /\ [Next]_vars => (Bookkeeping /\ PublishInv /\ SettleInv)'
  BY BookkeepingNext, PublishNext, SettleNext
<1>3. Bookkeeping /\ PublishInv /\ SettleInv => DiscardedHasNoEffect
  <2> SUFFICES ASSUME Bookkeeping, PublishInv, SettleInv PROVE DiscardedHasNoEffect
    OBVIOUS
  <2>a. TypeOK /\ settled \in [1..MaxTag -> 0..MaxTxns]
    BY DEF Bookkeeping, TypeOK
  <2>1. ASSUME NEW m \in Messages, copies[m] > 0
        PROVE  \E n \in Txns : Attempted(n) /\ m \in Range(ops[n].pubs)
    <3>1. PICK n \in Txns : \E i \in 1..Len(ops[n].pubs) : ops[n].pubs[i] = m /\ Processed(n, i)
      BY <2>1 DEF PublishInv, TouchedWasProcessed, Touched
    <3>2. Attempted(n)
      BY <3>1 DEF Attempted, Processed
    <3>3. DOMAIN ops[n].pubs = 1..Len(ops[n].pubs)
      BY <2>a, RecordTypes
    <3> QED
      BY <3>1, <3>2, <3>3 DEF Range
  <2>2. ASSUME NEW t \in 1..MaxTag, settled[t] # 0
        PROVE  Attempted(settled[t]) /\ \E a \in Range(ops[settled[t]].acks) : Covers(a, t)
    <3>1. Attempted(settled[t]) /\ \E i \in 1..Len(ops[settled[t]].acks) : Covers(ops[settled[t]].acks[i], t)
      BY <2>2 DEF SettleInv, SettledWasAcked
    <3>2. settled[t] \in Txns
      BY <2>2, <2>a, TxAssumption DEF Txns
    <3>3. DOMAIN ops[settled[t]].acks = 1..Len(ops[settled[t]].acks)
      BY <2>a, <3>2, RecordTypes
    <3> QED
      BY <3>1, <3>3 DEF Range
  <2> QED
    BY <2>1, <2>2 DEF DiscardedHasNoEffect
<1> QED
  BY <1>1, <1>2, <1>3, PTL DEF Spec

-----------------------------------------------------------------------------
(* What a tx.commit has done is not undone by the operations that follow. *)
LEMMA EffectsStay ==
    ASSUME Bookkeeping, PublishInv, SettleInv, [Next]_vars
    PROVE  /\ \A m \in Messages : copies[m] = 1 => copies'[m] = 1
           /\ \A t \in 1..MaxTag : settled[t] # 0 => settled'[t] = settled[t]
<1>a. TypeOK /\ OneAtATime /\ copies \in [Messages -> Nat]
  BY DEF Bookkeeping, TypeOK
<1>1. ASSUME NEW m \in Messages, copies[m] = 1 PROVE copies'[m] = 1
  <2>1. CASE PublishOne
    <3>1. copies[Pub] = 0
      BY <2>1, <1>a, PublishOneStep, NotTouched DEF Touched, OneAtATime
    <3> QED
      BY <1>1, <1>a, <2>1, <3>1, PublishOneStep
  <2>2. CASE UNCHANGED copies
    BY <1>1, <2>2
  <2> QED
    BY <1>a, <2>1, <2>2, QuietSteps, CommitStep, DryRunStep, EndDryRunStep, CheckRouteStep, EndPublishesStep,
       AckOneStep, EndCommitStep DEF Quiet, Untouched
<1>2. ASSUME NEW t \in 1..MaxTag, settled[t] # 0 PROVE settled'[t] = settled[t]
  <2>1. CASE AckOne
    <3>1. t \notin unacked
      BY <1>2 DEF SettleInv, SettledIsGone
    <3> QED
      BY <1>2, <1>a, <2>1, <3>1, AckOneStep
  <2>2. CASE UNCHANGED settled
    BY <1>2, <2>2
  <2> QED
    BY <2>1, <2>2, SettleSteps
<1> QED
  BY <1>1, <1>2

(* The transactions that were committed before stay complete. *)
Done(n) == (~Topic => PubsDone(n)) /\ AcksDone(n)

LEMMA OkStays ==
    ASSUME IInv, [Next]_vars, NEW n \in Txns, outcome[n] = "ok"
    PROVE  outcome'[n] = "ok" /\ Done(n)'
<1>a. TypeOK /\ Bookkeeping /\ PublishInv /\ SettleInv
  BY DEF IInv, Bookkeeping
<1>b. ops[n].pubs \in Seq(Messages) /\ ops[n].acks \in Seq(BufferedAck)
  BY <1>a, RecordTypes
<1>c. \A a \in BufferedAck : a.tag \in 0..MaxTag
  BY DEF BufferedAck
<1>d. n # 0
  BY DEF Txns
<1>1. ops'[n] = ops[n] /\ outcome'[n] = "ok"
  BY <1>a, Frozen DEF Attempted
<1>2. Done(n)
  BY DEF IInv, DoneSoFar, ErrorFree, Done
<1>3. ASSUME ~Topic PROVE PubsDone(n)'
  <2> SUFFICES ASSUME NEW i \in 1..Len(ops[n].pubs), ops[n].pubs[i] \in Mandatory
               PROVE  copies'[ops[n].pubs[i]] = 1
    BY <1>1 DEF PubsDone
  <2>1. copies[ops[n].pubs[i]] = 1 /\ ops[n].pubs[i] \in Messages
    BY <1>2, <1>3, <1>b DEF Done, PubsDone, Processed
  <2> QED
    BY <1>a, <2>1, EffectsStay
<1>4. AcksDone(n)'
  <2> SUFFICES ASSUME NEW i \in 1..Len(ops[n].acks), ops[n].acks[i].tag # 0
               PROVE  settled'[ops[n].acks[i].tag] = n
    BY <1>1 DEF AcksDone
  <2>1. settled[ops[n].acks[i].tag] = n /\ ops[n].acks[i] \in BufferedAck
    BY <1>2, <1>b DEF Done, AcksDone, Acked
  <2>2. ops[n].acks[i].tag \in 1..MaxTag
    BY <1>c, <2>1, TxAssumption
  <2> QED
    BY <1>a, <1>d, <2>1, <2>2, EffectsStay
<1> QED
  BY <1>1, <1>3, <1>4 DEF Done

(* The transaction whose tx.commit runs, operation by operation. *)
LEMMA CommittingStays ==
    ASSUME IInv, [Next]_vars, outcome'[txn] = "committing", ~work'.errors, outcome[txn] = "committing"
    PROVE  \A n \in {txn} : Done(n)'
<1>a. /\ TypeOK /\ OneAtATime /\ Bookkeeping /\ PublishInv /\ SettleInv /\ txn \in Txns /\ txn # 0
      /\ copies \in [Messages -> Nat] /\ settled \in [1..MaxTag -> 0..MaxTxns]
  BY DEF IInv, Bookkeeping, TypeOK, Txns
<1> SUFFICES ASSUME NEW n \in Txns, n = txn PROVE Done(n)'
  BY <1>a
<1>b. ops[n].pubs \in Seq(Messages) /\ ops[n].acks \in Seq(BufferedAck)
  BY <1>a, RecordTypes
<1>g. \A a \in BufferedAck : a.tag \in 0..MaxTag
  BY DEF BufferedAck
<1>c. /\ ops'[n] = ops[n] /\ work.buf = ops[n] /\ work.pc # "idle"
      /\ work.at \in Nat /\ work.errors \in BOOLEAN
  BY <1>a, Frozen, RecordTypes DEF Attempted, OneAtATime
<1>d. ~work.errors => Done(n)
  BY DEF IInv, DoneSoFar, ErrorFree, Done
(* Nothing new is published: a mandatory publish the step passes is done. *)
<1>e. ASSUME ~work.errors,
             \A i \in 1..Len(ops[n].pubs) :
                 Processed(n, i)' /\ ~Processed(n, i) /\ ops[n].pubs[i] \in Mandatory /\ ~Topic
                     => copies'[ops[n].pubs[i]] = 1
      PROVE  ~Topic => PubsDone(n)'
  <2> SUFFICES ASSUME ~Topic, NEW i \in 1..Len(ops[n].pubs), ops[n].pubs[i] \in Mandatory, Processed(n, i)'
               PROVE  copies'[ops[n].pubs[i]] = 1
    BY <1>c DEF PubsDone
  <2>1. CASE Processed(n, i)
    <3>1. copies[ops[n].pubs[i]] = 1 /\ ops[n].pubs[i] \in Messages
      BY <1>b, <1>d, <1>e, <2>1 DEF Done, PubsDone
    <3> QED
      BY <1>a, <3>1, EffectsStay
  <2>2. CASE ~Processed(n, i)
    BY <1>e, <2>2
  <2> QED
    BY <2>1, <2>2
<1>f. ASSUME ~work.errors,
             \A i \in 1..Len(ops[n].acks) :
                 Acked(n, i)' /\ ~Acked(n, i) /\ ops[n].acks[i].tag # 0 => settled'[ops[n].acks[i].tag] = n
      PROVE  AcksDone(n)'
  <2> SUFFICES ASSUME NEW i \in 1..Len(ops[n].acks), ops[n].acks[i].tag # 0, Acked(n, i)'
               PROVE  settled'[ops[n].acks[i].tag] = n
    BY <1>c DEF AcksDone
  <2>1. CASE Acked(n, i)
    <3>1. settled[ops[n].acks[i].tag] = n /\ ops[n].acks[i] \in BufferedAck
      BY <1>b, <1>d, <1>f, <2>1 DEF Done, AcksDone
    <3>2. ops[n].acks[i].tag \in 1..MaxTag
      BY <1>g, <3>1, TxAssumption
    <3> QED
      BY <1>a, <3>1, <3>2, EffectsStay
  <2>2. CASE ~Acked(n, i)
    BY <1>f, <2>2
  <2> QED
    BY <2>1, <2>2
<1>1. CASE Quiet
  <2>1. UNCHANGED work /\ outcome'[n] = outcome[n]
    BY <1>1 DEF Quiet, Attempted
  <2> QED
    BY <2>1, <1>e, <1>f DEF Done, Processed, Acked
<1>2. CASE DryRun
  BY <1>2, <1>a, <1>e, <1>f, DryRunStep DEF Done, Processed, Acked, Advance
<1>3. CASE EndDryRun
  BY <1>3, <1>a, <1>e, <1>f, EndDryRunStep, EndsType DEF Done, Processed, Acked
<1>4. CASE CheckRoute
  <2>1. CASE work'.at = work.at /\ work'.pc = "publish" /\ work'.errors = work.errors
    BY <1>4, <1>a, <1>c, <2>1, <1>e, <1>f, CheckRouteStep DEF Done, Processed, Acked
  <2>2. CASE Advance("check", FALSE) /\ Pub \notin Mandatory
    <3>1. \A i \in 1..Len(ops[n].pubs) : Processed(n, i)' /\ ~Processed(n, i) => i = work.at
      BY <1>4, <1>a, <1>c, <2>2, CheckRouteStep DEF Processed, Advance
    <3>2. Pub = ops[n].pubs[work.at]
      BY <1>c DEF Pub
    <3> QED
      BY <1>4, <1>a, <1>e, <1>f, <2>2, <3>1, <3>2, CheckRouteStep DEF Done, Acked, Advance
  <2> QED
    BY <1>4, <1>a, <2>1, <2>2, CheckRouteStep DEF Advance
<1>5. CASE PublishOne
  <2>1. Advance("check", FALSE) /\ ~work.errors
    BY <1>5, <1>a, <1>c, PublishOneStep DEF Advance
  <2>2. \A i \in 1..Len(ops[n].pubs) : Processed(n, i)' /\ ~Processed(n, i) => i = work.at
    BY <1>5, <1>a, <1>c, <2>1, PublishOneStep DEF Processed, Advance
  <2>3. Pub = ops[n].pubs[work.at] /\ Pub \in Messages /\ copies[Pub] = 0
    BY <1>5, <1>a, <1>c, PublishOneStep, NotTouched DEF Touched, OneAtATime
  <2>4. ~Topic => copies'[Pub] = 1
    <3>1. copies' = [copies EXCEPT ![Pub] = @ + 1] => copies'[Pub] = 1
      BY <1>a, <2>3
    <3> QED
      BY <1>5, <1>a, <2>1, <3>1, <1>c, PublishOneStep DEF Advance
  <2> QED
    BY <1>5, <1>a, <1>e, <1>f, <2>1, <2>2, <2>3, <2>4, PublishOneStep DEF Done, Acked, Advance
<1>6. CASE EndPublishes
  BY <1>6, <1>a, <1>c, <1>e, <1>f, EndPublishesStep, RecordTypes DEF Done, Processed, Acked, HasPublish
<1>7. CASE AckOne
  <2> DEFINE a == work.buf.acks[work.at]
  <2>1. Advance("ack", FALSE) /\ ~work.errors /\ Known(a) /\ HasAck
    BY <1>7, <1>a, <1>c, AckOneStep DEF Advance
  <2>2. \A i \in 1..Len(ops[n].acks) : Acked(n, i)' /\ ~Acked(n, i) => i = work.at
    BY <1>7, <1>a, <1>c, <2>1, AckOneStep DEF Acked, Advance
  <2>3. a = ops[n].acks[work.at]
    BY <1>c
  <2>4. a.tag # 0 => settled'[a.tag] = n
    <3> SUFFICES ASSUME a.tag # 0 PROVE settled'[a.tag] = n
      OBVIOUS
    <3>1. a.tag \in unacked /\ Covers(a, a.tag) /\ a.tag \in 1..MaxTag
      BY <1>a, <2>1 DEF Known, Covers, TypeOK
    <3> QED
      BY <1>7, <1>a, <2>1, <3>1, AckOneStep
  <2>5. \A i : Processed(n, i)' => Processed(n, i)
    BY <1>7, <1>a, <1>c, <2>1, AckOneStep DEF Processed, Advance
  <2> HIDE DEF a
  <2> QED
    BY <1>e, <1>f, <2>1, <2>2, <2>3, <2>4, <2>5 DEF Done
<1>8. ~Commit /\ ~EndCommit
  BY <1>a, <1>c, EndCommitStep, EndsType DEF Commit, Ready
<1> QED
  BY <1>1, <1>2, <1>3, <1>4, <1>5, <1>6, <1>7, <1>8, <1>a, QuietSteps

LEMMA DoneInit == Init => DoneSoFar
  BY EmptyBuffers DEF Init, DoneSoFar, ErrorFree

LEMMA DoneNext == IInv /\ [Next]_vars => DoneSoFar'
<1> SUFFICES ASSUME IInv, [Next]_vars, NEW n \in Txns, ErrorFree(n)' PROVE Done(n)'
  BY DEF DoneSoFar, Done
<1>a. TypeOK /\ OneAtATime /\ Bookkeeping /\ txn \in Txns
  BY DEF IInv, Bookkeeping, TypeOK
<1>1. CASE outcome[n] = "ok"
  BY <1>1, OkStays
<1>2. CASE outcome'[n] = "committing"
  <2>1. CASE outcome[n] = "committing"
    <3>1. n = txn
      BY <1>a, <2>1 DEF OneAtATime, Txns
    <3> QED
      BY <1>2, <2>1, <3>1, CommittingStays DEF ErrorFree
  <2>2. CASE outcome[n] # "committing"
    (* tx.commit begins, and has done nothing yet. *)
    <3>1. ~Quiet
      BY <1>2, <2>2 DEF Quiet, Attempted
    <3>2. ~EndDryRun /\ ~EndCommit
      BY <1>a, <1>2, <2>2, EndDryRunStep, EndCommitStep, EndsType
    <3>3. Commit
      BY <1>a, <1>2, <2>2, <3>1, <3>2, QuietSteps, DryRunStep, CheckRouteStep, PublishOneStep,
         EndPublishesStep, AckOneStep
    <3>4. work'.pc = "dry"
      BY <1>a, <1>2, <2>2, <3>3, CommitStep
    <3> QED
      BY <1>2, <3>4 DEF Done, PubsDone, AcksDone, Processed, Acked
  <2> QED
    BY <2>1, <2>2
<1>3. CASE outcome'[n] = "ok" /\ outcome[n] # "ok"
  (* tx.commit-ok: every publish and every ack was done without an error. *)
  <2>1. ~Quiet
    BY <1>3 DEF Quiet, Attempted
  <2>2. ~EndDryRun
    BY <1>a, <1>3, EndDryRunStep, EndsType
  <2>3. ~Commit
    BY <1>a, <1>3, CommitStep DEF TypeOK
  <2>4. EndCommit
    BY <1>a, <1>3, <2>1, <2>2, <2>3, QuietSteps, DryRunStep, CheckRouteStep, PublishOneStep,
       EndPublishesStep, AckOneStep
  <2>5. n = txn /\ ~work.errors
    BY <1>a, <1>3, <2>4, EndCommitStep, EndsType
  <2>6. work.pc = "ack" /\ ~HasAck /\ UNCHANGED <<ops, copies, settled>>
    BY <1>a, <2>4, EndCommitStep DEF Untouched
  <2>7. outcome[n] = "committing" /\ work.buf = ops[n] /\ work.at \in Nat
    BY <1>a, <2>5, <2>6, RecordTypes DEF OneAtATime
  <2>8. Done(n)
    BY <2>5, <2>7 DEF IInv, DoneSoFar, ErrorFree, Done
  <2>9. \A i \in 1..Len(ops[n].acks) : i < work.at
    BY <1>a, <2>6, <2>7, RecordTypes DEF HasAck
  <2>10. PubsDone(n) => PubsDone(n)'
    BY <2>6, <2>7 DEF PubsDone, Processed
  <2>11. AcksDone(n) => AcksDone(n)'
    BY <2>6, <2>9 DEF AcksDone, Acked
  <2> QED
    BY <2>8, <2>10, <2>11 DEF Done
<1> QED
  BY <1>1, <1>2, <1>3 DEF ErrorFree

LEMMA Inductive == /\ Init => IInv
                   /\ IInv /\ [Next]_vars => IInv'
<1>1. Init => IInv
  BY BookkeepingInit, PublishInit, SettleInit, DoneInit DEF IInv
<1>2. IInv /\ [Next]_vars => IInv'
  BY BookkeepingNext, PublishNext, SettleNext, DoneNext DEF IInv
<1> QED
  BY <1>1, <1>2

(* Spec implies that tx.commit-ok is complete, for every exchange that is  *)
(* not a topic exchange: every mandatory publish was routed and every ack  *)
(* settled its delivery.  For a topic exchange it is false: routeLocked    *)
(* reports no error when the last matching binding goes away between       *)
(* HasRoutingForMessage and Publish.                                       *)
THEOREM CommitOkMeansDone == ASSUME ~Topic PROVE Spec => []CommitOkIsComplete
<1>1. IInv => CommitOkIsComplete
  <2> SUFFICES ASSUME IInv, NEW n \in Txns, outcome[n] = "ok"
               PROVE  /\ \A m \in Range(ops[n].pubs) \cap Mandatory : copies[m] = 1
                      /\ \A a \in Range(ops[n].acks) : a.tag # 0 => settled[a.tag] = n
    BY DEF CommitOkIsComplete
  <2>1. PubsDone(n) /\ AcksDone(n)
    BY DEF IInv, DoneSoFar, ErrorFree
  <2>2. DOMAIN ops[n].pubs = 1..Len(ops[n].pubs) /\ DOMAIN ops[n].acks = 1..Len(ops[n].acks)
    BY RecordTypes DEF IInv, Bookkeeping
  <2> QED
    BY <2>1, <2>2 DEF PubsDone, AcksDone, Processed, Acked, Range
<1> QED
  BY <1>1, Inductive, PTL DEF Spec
=============================================================================
