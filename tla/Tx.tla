--------------------------------- MODULE Tx ---------------------------------
(***************************************************************************)
(* Transactions on one channel (broker/tx.go, vhost/transaction.go, the    *)
(* buffering in broker/basic.go): tx.select, buffered publishes and acks,  *)
(* tx.commit, tx.rollback, and the ends of the channel and the connection. *)
(*                                                                         *)
(* The connection's goroutine runs the client's methods one at a time.     *)
(* tx.commit takes vh.mu once for every routing check, publish and ack, so *)
(* each is a step: bindings and exchanges change between them, and the     *)
(* connection's cleanup, on another goroutine, may run.                    *)
(*                                                                         *)
(* Every transaction is numbered, and its outcome is what the client is    *)
(* told of it.  Publishes and acks outside a transaction are not here.     *)
(***************************************************************************)
EXTENDS Integers, Sequences, Functions, FiniteSets

CONSTANTS Messages,    \* what the client publishes, each message once
          Mandatory,   \* the messages with the mandatory flag
          Topic,       \* the exchange is a topic exchange, else a direct one
          MaxBuffer,   \* MaxTransactionBufferSize (10000 in the code)
          MaxTag,      \* bound on the deliveries of the channel
          MaxTxns,     \* bound on the transactions
          MaxChanges   \* bound on the changes of the routing

ASSUME TxAssumption ==
    /\ Mandatory \subseteq Messages
    /\ Topic \in BOOLEAN
    /\ MaxBuffer \in Nat /\ MaxTag \in Nat /\ MaxTxns \in Nat \ {0} /\ MaxChanges \in Nat

Txns == 1..MaxTxns

(* BufferedAck: an ack, nack or reject; what each does with the message is *)
(* in module Delivery.                                                     *)
BufferedAck == [tag : 0..MaxTag, multiple : BOOLEAN]

VARIABLES route,      \* the exchange and the binding of the routing key
          chan,       \* the channel: ClosingChannel once channel.close is sent
          conn,       \* the connection: ClosingConnection, or cleaned up
          tx,         \* the channel's entry of vh.ChannelTransactions
          work,       \* the tx.commit in progress
          unacked,    \* tags outstanding on the channel
          last,       \* LastDeliveryTag
          txn,        \* the number of the current transaction
          outcome,    \* what became of each transaction
          ops,        \* what was buffered in each transaction
          copies,     \* how often each message was published
          returned,   \* messages sent back with basic.return
          settled,    \* the transaction that acked each tag, or 0
          changes     \* changes of the routing so far

vars == <<route, chan, conn, tx, work, unacked, last, txn, outcome, ops, copies, returned,
          settled, changes>>

Buffers == [pubs : Seq(Messages), acks : Seq(BufferedAck)]
Empty == [pubs |-> <<>>, acks |-> <<>>]
NotInTx == [on |-> FALSE, buf |-> Empty]
Idle == [pc |-> "idle", buf |-> Empty, at |-> 1, errors |-> FALSE]

(* The one type invariant; the buffers respect MaxTransactionBufferSize. *)
TypeOK ==
    /\ route \in {"missing", "unbound", "bound"}
    /\ chan \in {"open", "closing", "closed"} /\ conn \in {"up", "closing", "gone"}
    /\ tx \in [on : BOOLEAN, buf : Buffers]
    /\ Len(tx.buf.pubs) <= MaxBuffer /\ Len(tx.buf.acks) <= MaxBuffer
    /\ work \in [pc : {"idle", "dry", "check", "publish", "ack"}, buf : Buffers, at : Nat,
                 errors : BOOLEAN]
    /\ unacked \subseteq 1..MaxTag /\ last \in 0..MaxTag
    /\ txn \in Txns
    /\ outcome \in [Txns -> {"open", "committing", "ok", "failed", "discarded"}]
    /\ ops \in [Txns -> Buffers]
    /\ copies \in [Messages -> Nat] /\ returned \subseteq Messages
    /\ settled \in [1..MaxTag -> 0..MaxTxns]
    /\ changes \in 0..MaxChanges

Init ==
    /\ route = "bound" /\ chan = "open" /\ conn = "up"
    /\ tx = NotInTx /\ work = Idle
    /\ unacked = {} /\ last = 0
    /\ txn = 1 /\ outcome = [n \in Txns |-> "open"]
    /\ ops = [n \in Txns |-> Empty]
    /\ copies = [m \in Messages |-> 0] /\ returned = {}
    /\ settled = [t \in 1..MaxTag |-> 0]
    /\ changes = 0

-----------------------------------------------------------------------------
Effects == <<copies, returned, settled>>
Log == <<txn, outcome, ops>>

(* processRequest ignores the methods of a channel or a connection that is *)
(* being closed.                                                           *)
Ready == chan = "open" /\ conn = "up" /\ work.pc = "idle"

(* An error that reaches the frame loop closes the connection. *)
ConnectionError == conn' = "closing"

(* The current transaction ends; the next one, if any, begins. *)
Ends(result) ==
    /\ outcome' = [outcome EXCEPT ![txn] = result]
    /\ txn' = IF txn < MaxTxns THEN txn + 1 ELSE txn

CanEnd == outcome[txn] = "open"

(* ReleaseChannelDeliveries takes every unacked message back. *)
ReleaseDeliveries == unacked' = {}

(* sendChannelClosing does nothing once the connection is gone. *)
SendChannelClosing ==
    IF conn = "gone" THEN UNCHANGED <<chan, unacked>>
                     ELSE chan' = "closing" /\ ReleaseDeliveries

Select ==
    /\ Ready /\ ~tx.on
    /\ tx' = [on |-> TRUE, buf |-> Empty]
    /\ UNCHANGED <<route, chan, conn, work, unacked, last, changes, Log, Effects>>

Unpublished(m) == \A n \in Txns : m \notin Range(ops[n].pubs)

Buffer(b) == tx' = [tx EXCEPT !.buf = b] /\ ops' = [ops EXCEPT ![txn] = b]

(* basicPublishHandler in a transaction: an unknown exchange closes the    *)
(* channel, a full buffer the connection; a missing route is let pass.     *)
Publish(m) ==
    /\ Ready /\ tx.on /\ CanEnd
    /\ \/ route = "missing" /\ SendChannelClosing /\ UNCHANGED <<conn, tx, ops>>
       \/ /\ route # "missing" /\ Len(tx.buf.pubs) >= MaxBuffer
          /\ ConnectionError /\ UNCHANGED <<chan, unacked, tx, ops>>
       \/ /\ route # "missing" /\ Len(tx.buf.pubs) < MaxBuffer /\ Unpublished(m)
          /\ Buffer([tx.buf EXCEPT !.pubs = Append(@, m)])
          /\ UNCHANGED <<chan, conn, unacked>>
    /\ UNCHANGED <<route, work, last, txn, outcome, changes, Effects>>

(* bufferAcknowledgeTransaction; the tag is not checked. *)
Acknowledge(a) ==
    /\ Ready /\ tx.on /\ CanEnd
    /\ IF Len(tx.buf.acks) >= MaxBuffer
       THEN ConnectionError /\ UNCHANGED <<tx, ops>>
       ELSE Buffer([tx.buf EXCEPT !.acks = Append(@, a)]) /\ UNCHANGED conn
    /\ UNCHANGED <<route, chan, work, unacked, last, txn, outcome, changes, Effects>>

(* Mutant: the acks stay buffered. *)
RollbackKeepsAcks ==
    /\ Ready /\ CanEnd /\ tx.on
    /\ tx' = [tx EXCEPT !.buf.pubs = <<>>] /\ Ends("discarded")
    /\ UNCHANGED <<route, chan, conn, work, unacked, last, ops, changes, Effects>>

(* tx.rollback; without tx.select, it is an error. *)
Rollback ==
    /\ Ready /\ CanEnd
    /\ IF tx.on THEN tx' = [tx EXCEPT !.buf = Empty] /\ Ends("discarded") /\ UNCHANGED conn
                ELSE ConnectionError /\ UNCHANGED <<tx, txn, outcome>>
    /\ UNCHANGED <<route, chan, work, unacked, last, ops, changes, Effects>>

-----------------------------------------------------------------------------
(***************************************************************************)
(* tx.commit: a dry run of the publishes, the publishes, the acks, and the *)
(* answer.  The handler holds the transaction's state and its lock, so the *)
(* buffers do not change under it, whoever drops the state from the map.   *)
(***************************************************************************)
Commit ==
    /\ Ready /\ CanEnd
    /\ IF tx.on
       THEN /\ work' = [Idle EXCEPT !.pc = "dry", !.buf = tx.buf]
            /\ outcome' = [outcome EXCEPT ![txn] = "committing"]
            /\ UNCHANGED conn
       ELSE ConnectionError /\ UNCHANGED <<work, outcome>>
    /\ UNCHANGED <<route, chan, tx, unacked, last, txn, ops, changes, Effects>>

HasPublish == work.at <= Len(work.buf.pubs)
Pub == work.buf.pubs[work.at]
NextOp(error) == work' = [work EXCEPT !.pc = IF @ = "publish" THEN "check" ELSE @,
                                      !.at = @ + 1, !.errors = @ \/ error]

(* The dry run: only an unknown exchange is an error. *)
DryRun ==
    /\ work.pc = "dry" /\ HasPublish
    /\ NextOp(route = "missing")
    /\ UNCHANGED <<route, chan, conn, tx, unacked, last, changes, Log, Effects>>

(* After a dry run with errors the buffers are cleared and the connection  *)
(* is closed.                                                              *)
EndDryRun ==
    /\ work.pc = "dry" /\ ~HasPublish
    /\ IF work.errors
       THEN /\ work' = Idle /\ tx' = [tx EXCEPT !.buf = Empty]
            /\ Ends("failed")
            /\ conn' = IF conn = "gone" THEN conn ELSE "closing"
       ELSE work' = [work EXCEPT !.pc = "check", !.at = 1] /\ UNCHANGED <<conn, tx, txn, outcome>>
    /\ UNCHANGED <<route, chan, unacked, last, ops, changes, Effects>>

(* HasRoutingForMessage again.  A mandatory message without a route is     *)
(* returned and counts as an error; another one is dropped.                *)
CheckRoute ==
    /\ work.pc = "check" /\ HasPublish
    /\ IF route = "bound"
       THEN work' = [work EXCEPT !.pc = "publish"] /\ UNCHANGED returned
       ELSE /\ NextOp(Pub \in Mandatory)
            /\ returned' = IF Pub \in Mandatory THEN returned \cup {Pub} ELSE returned
    /\ UNCHANGED <<route, chan, conn, tx, unacked, last, copies, settled, changes, Log>>

(* Mutant: an error of vh.Publish is not recorded. *)
PublishUnchecked ==
    /\ work.pc = "publish"
    /\ copies' = IF route = "bound" THEN [copies EXCEPT ![Pub] = @ + 1] ELSE copies
    /\ NextOp(FALSE)
    /\ UNCHANGED <<route, chan, conn, tx, unacked, last, returned, settled, changes, Log>>

(* vh.Publish: routeLocked finds no error in a topic exchange without a    *)
(* matching binding.                                                       *)
PublishOne ==
    /\ work.pc = "publish"
    /\ copies' = IF route = "bound" THEN [copies EXCEPT ![Pub] = @ + 1] ELSE copies
    /\ NextOp(route = "missing" \/ (route = "unbound" /\ ~Topic))
    /\ UNCHANGED <<route, chan, conn, tx, unacked, last, returned, settled, changes, Log>>

EndPublishes ==
    /\ work.pc = "check" /\ ~HasPublish
    /\ work' = [work EXCEPT !.pc = "ack", !.at = 1]
    /\ UNCHANGED <<route, chan, conn, tx, unacked, last, changes, Log, Effects>>

(* popUnackedRecords, as in ChannelState: the tags an ack takes. *)
HasAck == work.at <= Len(work.buf.acks)
Covers(a, t) == t = a.tag \/ (a.multiple /\ (a.tag = 0 \/ t <= a.tag))
Known(a) == a.tag \in unacked \/ (a.multiple /\ a.tag = 0)

AckOne ==
    LET a == work.buf.acks[work.at]
        T == IF Known(a) THEN {t \in unacked : Covers(a, t)} ELSE {}
    IN  /\ work.pc = "ack" /\ HasAck
        /\ unacked' = unacked \ T
        /\ settled' = [t \in 1..MaxTag |-> IF t \in T THEN txn ELSE settled[t]]
        /\ NextOp(~Known(a))
        /\ UNCHANGED <<route, chan, conn, tx, last, copies, returned, changes, Log>>

(* Mutant: a failed commit leaves its publishes and the channel as they are. *)
EndCommitForRetry ==
    /\ work.pc = "ack" /\ ~HasAck
    /\ work' = Idle
    /\ tx' = IF work.errors THEN [tx EXCEPT !.buf.acks = <<>>] ELSE [tx EXCEPT !.buf = Empty]
    /\ Ends(IF work.errors THEN "failed" ELSE "ok")
    /\ UNCHANGED <<route, chan, conn, unacked, last, ops, changes, Effects>>

(* With errors, channel.close, and the buffers stay as they are. *)
EndCommit ==
    /\ work.pc = "ack" /\ ~HasAck
    /\ work' = Idle
    /\ IF work.errors
       THEN SendChannelClosing /\ Ends("failed") /\ UNCHANGED tx
       ELSE /\ tx' = [tx EXCEPT !.buf = Empty] /\ Ends("ok")
            /\ UNCHANGED <<chan, unacked>>
    /\ UNCHANGED <<route, conn, last, ops, changes, Effects>>

-----------------------------------------------------------------------------
(* A delivery on the channel. *)
Deliver ==
    /\ chan = "open" /\ conn = "up" /\ last < MaxTag
    /\ last' = last + 1 /\ unacked' = unacked \cup {last + 1}
    /\ UNCHANGED <<route, chan, conn, tx, work, changes, Log, Effects>>

(* channel.close, or the close-ok after the server's channel.close:        *)
(* CleanupChannel, which drops and resets the transaction state.           *)
CloseChannel ==
    /\ chan # "closed" /\ conn = "up" /\ work.pc = "idle"
    /\ chan' = "closed" /\ ReleaseDeliveries
    /\ tx' = NotInTx
    /\ IF CanEnd THEN Ends("discarded") ELSE UNCHANGED <<txn, outcome>>
    /\ UNCHANGED <<route, conn, work, last, ops, changes, Effects>>

OpenChannel ==
    /\ chan = "closed" /\ conn = "up" /\ work.pc = "idle"
    /\ chan' = "open"
    /\ UNCHANGED <<route, conn, tx, work, unacked, last, changes, Log, Effects>>

(* CleanupConnection, on another goroutine, at any time: the transaction   *)
(* state is dropped from the map and not reset.                            *)
CleanupConnection ==
    /\ conn # "gone" /\ conn' = "gone"
    /\ ReleaseDeliveries
    /\ tx' = NotInTx
    /\ IF CanEnd THEN Ends("discarded") ELSE UNCHANGED <<txn, outcome>>
    /\ UNCHANGED <<route, chan, work, last, ops, changes, Effects>>

(* Other clients bind and unbind, delete and declare the exchange. *)
ChangeRoute(r) ==
    /\ changes < MaxChanges /\ r # route
    /\ changes' = changes + 1 /\ route' = r
    /\ UNCHANGED <<chan, conn, tx, work, unacked, last, Log, Effects>>

Next ==
    \/ Select \/ Rollback \/ Commit \/ CloseChannel \/ OpenChannel
    \/ \E m \in Messages : Publish(m)
    \/ \E a \in BufferedAck : Acknowledge(a)
    \/ DryRun \/ EndDryRun \/ CheckRoute \/ PublishOne \/ EndPublishes \/ AckOne \/ EndCommit
    \/ Deliver \/ CleanupConnection
    \/ \E r \in {"missing", "unbound", "bound"} : ChangeRoute(r)

Spec == Init /\ [][Next]_vars

-----------------------------------------------------------------------------
Attempted(n) == outcome[n] \in {"committing", "ok", "failed"}

(***************************************************************************)
(* A transaction that was rolled back, or ended with its channel or        *)
(* connection, has no effect: what was published or settled was buffered   *)
(* in a transaction the client asked to commit (tx.rollback, and the       *)
(* implicit rollback of CleanupChannel and CleanupConnection).             *)
(***************************************************************************)
DiscardedHasNoEffect ==
    /\ \A m \in Messages : copies[m] > 0 =>
          \E n \in Txns : Attempted(n) /\ m \in Range(ops[n].pubs)
    /\ \A t \in 1..MaxTag : settled[t] # 0 =>
          /\ Attempted(settled[t])
          /\ \E a \in Range(ops[settled[t]].acks) : Covers(a, t)

(***************************************************************************)
(* A message is published or returned, and only once, whatever fails: the  *)
(* buffers a failed tx.commit leaves behind are never committed again      *)
(* (CleanupChannel at the client's close-ok).                              *)
(***************************************************************************)
CommittedOnce ==
    \A m \in Messages : copies[m] + (IF m \in returned THEN 1 ELSE 0) <= 1

(***************************************************************************)
(* tx.commit-ok means that every mandatory publish and every ack of the    *)
(* transaction took effect, though routes and exchanges change while the   *)
(* commit runs.  Not so for a topic exchange (Topic, FALSE in the run),    *)
(* whose publish that finds no route any more returns no error.            *)
(***************************************************************************)
CommitOkIsComplete ==
    \A n \in Txns : outcome[n] = "ok" =>
        /\ \A m \in Range(ops[n].pubs) \cap Mandatory : copies[m] = 1
        /\ \A a \in Range(ops[n].acks) : a.tag # 0 => settled[a.tag] = n

=============================================================================
