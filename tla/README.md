# OtterMQ: specifications, model checks and proofs

OtterMQ is an AMQP 0.9.1 broker in Go. Each connection has a goroutine that
reads methods and runs their handlers; each queue has a goroutine, its delivery
loop, that takes messages and writes them to consumers. They share maps under
`vh.mu`, a channel's delivery state under its own mutex, and queues under
`q.mu`; most operations release one lock before they take the next. Durable
objects and persistent messages are kept in JSON files, one per queue and
exchange. What is hard about the broker lives in the gaps between its locks,
between its file operations, and between the frames of its clients; this project
is about them.

Line numbers in the text refer to `src/`; `PROJECT.json` maps every
definition to the lines it models.

## 1. The system

| Component | State | Operations | Interacts with | What makes it correct |
|---|---|---|---|---|
| Channel delivery state (`vhost/delivery.go`, `ack.go`, `recover.go`) | last delivery tag, `UnackedByTag`, `UnackedByConsumer`, `UnackedByGet`, prefetch, flow | deliver, ack/nack/reject, get, qos, flow, recover, detach on cancel and on queue deletion | loops (deliver), handlers (settle), cleanup (take all) | the three indexes agree; a tag is settled once; a reused consumer tag inherits nothing; prefetch is respected |
| Queue and delivery loop (`vhost/queue.go`, `consumer.go`) | queue registry, consumers by queue, loop per queue, stop flag | declare, delete, consume, cancel, loop rounds, requeue | all of the above, channel close, connection cleanup | no loss, no duplicate, nothing crosses from a deleted queue to its successor, nothing delivered after the client was told, queued messages are delivered |
| Queue buffer (`vhost/queue.go`, `qll.go`) | Go channels, `count`, wake-up tokens | push, pop, purge, `EnforceMaxLength`, drain | publishers, loop, basic.get | count exact, length bounded, no lost wake-up |
| Transactions (`broker/tx.go`, `vhost/transaction.go`, `broker/basic.go`) | `InTransaction`, buffered publishes and acks | select, publish, ack, commit, rollback, channel end | routing, delivery state, channel close | what is discarded has no effect, a commit runs once, commit-ok is complete |
| Exchanges, bindings, routing (`exchange.go`, `binding.go`, `message.go`) | exchanges, bindings | declare, delete, bind, unbind, route, auto-delete | publish, queue deletion, consumers, recovery | routes where bound; no dangling binding; auto-delete happens |
| Dead letters and TTL (`dead-letter.go`, `ttl.go`) | headers of the message | expire, reject, evict, dead-letter | queue buffer, routing, files, the locks of all three | no lock cycle; files follow |
| Persistence of a vhost and its recovery (`vhost.go`, `message.go`, `binding.go`) | what is saved of each object | save, remove, `loadPersistedState` | every operation above | what is held survives a crash, what was settled or deleted stays away |
| Persistent store (`pkg/persistence`) | files, file locks, layout marker | load-change-rewrite of a file by temporary file, sync, rename | crashes, I/O errors | methods are atomic and durable; nothing torn; the broker starts on its own data |
| Connection life cycle (`broker.go`, `connection.go`, `conn_state.go`, `recover.go`, `amqp/client.go`, `main.go`) | connection tables, contexts, heartbeat, shutdown flag, vhosts | accept, handshake, register, serve, panic, close, cleanup, broadcast, shutdown, create and delete vhost | everything | cleaned up once, nothing left, dead clients are noticed, shutdown is complete and ends |
| Framing, parsing, publish assembly (`internal/core/amqp`, `broker/basic.go`, `broker/connection.go`) | negotiated limits, partial method, header, body of a channel | tune, parse, assemble, format | publish, deliver, return | what was sent is what is read; limits hold; a lying length is refused |
| Lock order (everywhere) | `b.mu`, `vh.mu`, transaction and delivery locks, `sendMu`, `q.mu` | | | no circle of waiting goroutines |
| Management API (`internal/core/broker/management`, `web/handlers`) | none of its own | the operations above, for an administrator | vhost, broker | as above |
| Web UI, CLI, metrics, users | pages, counters, SQLite | | | not modelled, see section 8 |

The lock order is transaction lock, `b.mu`, `vh.mu`, then a channel's `mu` or
`q.mu`, then the connection table's lock.

The hazards, each at its line, are in `PROJECT.json`. They are of seven kinds:
checks made under one lock and used under another (throttle, the queue of a
nacked record, the consumer a loop chose); cleanup running beside the handlers
and loops it cleans up after; indexes of the same thing kept by hand, in memory
and on disk; wake-ups that merge or are sent before anyone waits; operations of
several steps that fail, or meet a crash, in the middle; locks held while
another is taken; and lengths and limits at their edges.

## 2. The modules

| Module | Models | Kind |
|---|---|---|
| `ChannelState` | `ChannelDeliveryState`, its records and every function on it, as operators | shared by `ChannelDelivery` and `Delivery` |
| `ChannelDelivery` | one channel: loops, the connection's handler and other connections working on it | specification |
| `ChannelStateProofs` | what the functions of `ChannelState` preserve and compute | lemmas, shared in the same way |
| `ChannelDeliveryProofs` | its theorems | proofs |
| `Delivery` | one queue name, its queue objects and loops, consumers on several connections, channel close, connection cleanup | specification; uses `ChannelState` for each channel |
| `DeliveryProofs` | its theorems | proofs |
| `QueueBuffer` | the Go channels, count, limiter and wake-ups of one queue | specification |
| `QueueBufferProofs` | its theorems | proofs |
| `Tx` | a channel in transaction mode and the routing it commits to | specification |
| `TxProofs` | its theorems | proofs |
| `TopicMatch` | `MatchTopic` and a reference definition | operators |
| `VHost` | exchanges, bindings, queues, what they hold, their files, crashes and recovery | specification; extends `TopicMatch` |
| `VHostProofs` | its theorems | proofs |
| `StoreSpec` | what `persistence.Persistence` promises | abstract specification |
| `JsonStore` | the JSON store in its file system steps | specification; implements `StoreSpec` |
| `JsonStoreProofs` | its theorems, the refinement of `StoreSpec` among them | proofs |
| `Lifecycle` | connections from accept to cleanup, panics, heartbeats, shutdown, vhosts coming and going | specification |
| `ConnectionProofs` | the theorems of `Lifecycle` and of `FrameLoop` | proofs |
| `Locks` | which mutexes each operation takes under which | specification |
| `Framing` | what a frame costs, and which properties survive a parse | operators, shared by `FrameLoop` and `Codec` |
| `FrameLoop` | tuning, the frame loop, publish assembly, deliveries and returns; the codec is a parameter | specification |
| `Codec` | reading and writing of frames, methods, properties and tables | operators |
| `Wire` | the two together, in octets, and single methods | specification; extends `FrameLoop` and `Codec` |
| `MC...` | the instances of each for TLC | for TLC |

The modules divide the broker so that each part's interleavings are explored in
full and the others' appear at the interface. `ChannelDelivery` and `Delivery`
share the operators of `ChannelState`, so the indexes whose consistency is proved
for any number of loops are the ones whose messages `Delivery` follows. `VHost`
takes a store operation for one step, which is what `JsonStore` is shown to
implement; it takes a message as held from its push until it is settled, whose
details are `Delivery`; and it routes with `TopicMatch`'s matcher. `Lifecycle`
has the vhost's cleanup as one step, which `Delivery` takes apart. `FrameLoop` ends where
a whole message is published, where `Tx` and `VHost` begin.

Definitions marked "Mutant" are not part of a specification. Each is a small
error in a definition of the code (a dropped check, a missing signal) that the
property named in `PROJECT.json` detects; they show that the property depends
on that code. Each specification defines a `TypeOK`; it is an invariant of a run
where the proofs build on it and documentation of the state elsewhere.

### ChannelDelivery

State: `ch` is the channel's delivery state, `cons` the consumer registered
under each tag, `thread` what each delivering goroutine holds, `redo` the
records `basic.recover(requeue=false)` has still to redeliver. A delivery is
three steps, as in the code: `Admit` (`shouldThrottle`, under the channel's
mutex), `Track` (`deliverToConsumer` under `sendMu` and the channel's mutex,
after it looked at `Active` again), and `Sent` or `SendFailed`. Between them
anything may happen to the consumer, the queue or the channel. A goroutine that
holds a consumer object whose tag was registered anew holds a dead one: `live`
is that object's `Active`.

`CancelConsumer` is not tied to the channel's own handler because the registry
is looked up by channel number and tag only, so that another connection's
basic.cancel may reach it, and because a loop cancels the consumer it failed to
write to. One loop per queue is assumed here; `Delivery` has the case of a
second one. Tags are bounded by `MaxTag` in place of 2^64.

### Delivery

State: `current` is the queue object the name stands for (0 for none),
`queue` and `loop` each object's buffer and goroutine, `cons` and `byQueue` the
consumers and their order (a list gives each consumer its place, 0 for none; a
round of the loop keeps the list it looked up, who is left in it and whom it is at), `chan` each connection's channel (with an `epoch` to
tell the channel states of one channel number apart), `handler` and `cleaner`
the goroutines of each connection, `conn` its socket, `cancels` the basic.cancel
notifications to be written. `told`, `home` and `settled` are history: the
consumers the client knows to be gone, the queue each message was published to,
and the messages acked.

The loop's program counter follows `startDeliveryLoop` and `deliverMessage`
from lock to lock. Handlers that release `vh.mu` between two accesses are
several steps: consume (register, then start or wake the loop), nack and
recover (pop, then look up and push each record), get (pop, then track), close
(cancel, wait for `sendMu`, take, requeue, close-ok). A socket may die at any
time; cleanup then runs once, beside a handler that may have a method left to
process ("late").

Abstractions: one channel per connection, each consumer registered once, one
prefetch for all; a push is one step with the lookup that precedes it, because
the lookup's result can only change with a deletion, after which the object is
stopped and discards the push; the one-second wait of a throttled loop can
always end, time not being modelled; deletion does not wait for its
notifications, whose wait is bounded by a second. Left out: the redelivered
mark; recover(requeue=false), which is in `ChannelDelivery`; expiry, dead
letters, auto-delete, exclusive queues and persistence, which are in `VHost`.

### QueueBuffer

`buf` holds the messages in arrival order; the priority levels of the code are
its subsequences, each with the capacity of a Go channel. `count`, `signal`
(messageSignal) and `wake` (consumersChanged) are the code's. A push is two
critical sections, `EnforceMaxLength` and the send; the FIFO receive and the
decrement of `count` are two as well. A goroutine's place is in `at`.

### Tx

Each routing check, publish and ack of a commit is a step, since each takes and
releases `vh.mu`; the exchange and its binding change in between
(`ChangeRoute`). The transaction's own lock is never contended: only the
connection's goroutine uses it. `outcome`, `ops`, `copies`, `settled` and
`returned` are history. A message is published in one transaction; ack, nack
and reject are alike here. Publishes and acks outside a transaction are not in
this module.

### VHost and TopicMatch

State: `exchanges` and `queues` are the maps of the vhost, `exFiles` and `qFiles`
what the store has of them, `conn` and `handler` the clients and the management
API (`Admin`) with the request each is in. A queue object has the number it was
`born` with and a binding the one it was made for, as the code's bindings hold
pointers. What `vh.mu` protects is one step: creation, deletion with all its
bindings and auto-delete cascades, binding, routing with the saves, connection
cleanup. What comes before or after it is a step of its own: the if-unused and
if-empty checks, the binding of a new queue to the default exchange, the push of
each routed message, the removal of a settled message from its file. A save may
fail; routing then stops where the code stops, with the earlier queues' files
written. Every other store operation may fail too, and then the code logs the
error and goes on: `Become` changes the registry and, of the files, those whose
operation succeeds (for the deletion of a queue, binding by binding);
`RemoveMessage` may leave the message where it is; a dead letter whose save fails
(`DeadLetterFails`) is lost to its target. A fanout exchange files its bindings
under the empty key and compares keys as the code does, so a queue may have
several bindings there and gets a copy through each. `RequeueExpired` is
`requeueMessage` on a message that has expired: dead-lettered, removed and
pushed back. `Crash` may come at any step and leaves the files; `Recover` is
`loadPersistedState`. Settling covers ack, rejection, expiry, eviction and purge:
they differ in whether the message is dead-lettered and whether its file entry
goes, which is all `Settle` and `DeadLetter` keep of them.

`adrift`, `leaked` and `exposed` are history: they record, at the place in the
code where it happens, each of the paths on which memory and disk part ways
(section 4), so that the properties say that there are no others. `adrift` has the names of
exchanges and queues whose file and registry entry went separate ways: a store operation
failed, one of several fanout bindings was unbound, recovery skipped a queue. `leaked` has the
pairs <<queue, message>> that a code path left in the queue's file, and `exposed` those the
queue may hold without an entry of their own in the file: a message that was dead-lettered to a queue
not done with it (it is in its file, on its way into it, or being removed), that came
through two bindings, or that was requeued although it had expired.

`TopicMatch`: keys are sequences of words; `MatchWords` mirrors the recursion of
`matchWords`; `Means` is the reference: a way to cut the routing key into one
piece per pattern word.

### StoreSpec and JsonStore

`StoreSpec` is the contract: methods on an entity take effect atomically between
call and return, one that returned without an error is durable, and a crash
leaves each entity at a value it had. `value` is what a method finds now and
`maybe` what a crash may leave. A deletion may be undone by a crash: the code does
not sync the directory after it removes a file, and the contract says so. A failed
creation may leave entities `uncertain`, among them ones created later: a crash may
remove those although their methods returned, until a later creation or the crash
settles the matter.

`JsonStore` has a method's steps: create the directory (`mkdirMu`, then the sync of
the parent), take the file's lock stripe, load, write the temporary file, sync
it, rename it, sync the directory. `entry` is what a reader finds, `disk` the set
of contents a crash may leave: the unsynced temporary data that was renamed would
be `Torn`. Every step that writes may fail: the write, the sync, the rename and the final sync of
the directory (`IOError`), the making of the directories and the sync of their
parents (`MkdirError`), the steps of a start (`StartFails`). A directory is `unsynced` once its
sync has failed: `os.Stat` finds it, so nobody syncs it again unless another
directory is made beside it. `AtRisk` are the files below one; a crash may lose them whole.
`Start` is the layout check, which refuses a data directory that has vhosts and no
marker. The refinement maps `entry`, `disk` (with `Missing` for the files at risk) and
the program counters (`AbstractCall`): a method is applied from its rename on and
returns after the sync.

### Lifecycle

Each connection has a client (`peer`), a socket, a serving goroutine, a goroutine
that waits for its context (`monitor`), and entries in the broker's maps
(`connInfos`; `ids` for the three maps under `connectionsMu`). `cleanupConnection`
is three steps under different locks, run by the first goroutine that removed the
entry of `connInfos`. `main` follows main.go from the signal to `Shutdown`. A
panic may leave `b.mu` or `vh.mu` held (`stuck`); what needs the lock then waits, and
the watchdog of recover.go ends the process. A client may answer, fall silent or
go at any time. The management API closes connections and creates and deletes a
vhost meanwhile, and asks for overviews: one that meets a `vh.mu` left held waits for it
with `b.mu` held, for good (`Overview`). Left out: channels and what the vhost's cleanup does, which are
in `Delivery`.

### Codec, FrameLoop and Wire

`Codec` reads and writes octets as decode.go, encode.go and the per-class files do,
with a table per class for the layout of its methods in place of one parse function each,
and every reply the broker sends.

`FrameLoop` has a publisher and a subscriber with limits of their own. The publisher opens
channels, sends method, header and body frames on them in any order, goes on after the broker
has closed on it, and closes; its whole messages are published and delivered. What a header
frame or a delivery looks like, and what the broker reads of one, are constant operators
(`ClientHeader`, `ParsePublish`, `ParseHeader`, `ReturnOctets`, `DeliverOctets`). All that the
frame loop needs of them is `CodecAssumption`: key, size and set of properties are read as they
were written, when the header is read at all.

`Wire` gives those operators their values: the client's side (`HeaderOf`, `ClientFrames`, ...)
is written from the protocol, independently of `Codec`, and so serves as the reference; the
broker's side is `Codec`'s. TLC evaluates `CodecAssumption` for them in the run `wire`. In the
"content" mode a step of `Wire` is a step of `FrameLoop`. In the "methods" mode the client sends
every request whole, cut after any octet, and with the contents of its table of arguments cut
after any octet while the lengths around them are right, and reads every reply. Integers of more than four
octets and floats keep their octets. `Codec` and `Wire` recurse over nested tables and are
only model-checked; `FrameLoop` does not, and has theorems.

### Locks

A program is the sequence of Lock and Unlock calls of an operation, and an
operation the set of its programs; the goroutines are connections' handlers,
queues' loops and the management API. Data is gone except what decides which
locks are taken: queues with dead letter exchanges, limits and expiring messages.
Mutexes under which nothing else is locked are left out.

## 3. The runs

| Run | Checks | Shows |
|---|---|---|
| `channel_indexes` | `TypeOK`, `IndexConsistent`, `NoInheritedDelivery`, `SettledTagStaysSettled`, `PrefetchRespected` | two loops, a reused tag, failed writes, cancels, deletions, recovers in every order |
| `delivery_once` | `NoDuplicate`, `NoDeliveryAfterTold`, `NoLoss` | two connections, one of which may die with a method in hand: nothing lost; nothing duplicated while the sockets live; nothing delivered after close-ok |
| `delivery_recreate` | `NoCrossQueue`, `QueuedIsDelivered` | one client deletes and redeclares its queue while deliveries and requeues are under way; liveness of the loop across consumers that come and go, throttling and deletion |
| `buffer_limit` | `TypeOK`, `CountExact`, `LengthBounded`, `EvictsForOne` | a FIFO queue at its limit, two publishers, the loop pushing back, get, purge |
| `buffer_drain` | `Drained` | a priority queue with full levels: no wake-up is lost when signals merge and consumers leave in the middle of a drain |
| `tx_effects` | `DiscardedHasNoEffect`, `CommittedOnce`, `CommitOkIsComplete` | rollbacks, failed commits, closed and reopened channels, a lost connection, routes that change |
| `vhost` | `BindingsLive`, `RegistrySurvives`, `HeldOnDisk`, `SettledStaysSettled`, `AutoDeleteHappens`, `MatchesAsMeant` | a client and the management API on a topic or a fanout exchange and two queues, with failing saves and removals, a crash and a recovery: bindings lead to live queues, files and registry agree but for the names a failure set adrift, held messages survive, settled and deleted things stay away; all pairs of topic keys of up to four words |
| `store` | `KeptSurvives`, `NeverRefused`, `ImplementsInterface` | two goroutines, two files, I/O errors and a crash at any step: the store implements its interface |
| `lifecycle` | `NothingLeft`, `WaitIsFinal`, `ShutdownReachesAll`, `DeadAreForgotten`, `PanicResolves`, `ShutdownEnds` | a connection against shutdown, panics, heartbeats and the management API: cleaned up once and wholly, does not slip past the shutdown; under fairness, a dead client is forgotten, a lock left held ends in an exit, a shutdown ends, unless an overview is caught by a stuck `vh.mu` |
| `wire` | `PublishedAsSent`, `NothingSwallowed`, `DeliveredAsPublished`, `LimitsRespected`, `RequestsUnderstood`, `TruncatedRefused`, `RepliesReadable` | what is sent is what is read, in both directions, within the limits; cut-off frames are refused |

Two runs end in a counterexample: what a comment or the change log says of the code
is not what it does.

`locks_purge` checks `NoDeadlock`: no goroutines
wait for each other in a circle. vhost.go:23-24 gives the order of the locks, a
queue's mutex inside `vh.mu` and never the reverse, and qll.go:62-63 says why an
evicted message is dead-lettered after the queue's lock is released. `StreamPurge`
(queue.go:745-748) runs its callback under `q.mu`; the callback of a purge expires
messages, and expiring dead-letters, which takes `vh.mu`. basic.get and queue
deletion take `vh.mu` and then `q.mu`. The purge and the other wait for each
other, and the vhost with them. (docs/message-ttl.md:238 recommends queue.purge for
expired messages.) With the callback moved behind the release of `q.mu`, no two of
a connection's handler, the queue's loop, the loop of the dead letter queue and the
management API can deadlock: `Active` set to each pair of them passes, so the
purge is the only culprit among them.

`wire_tables` checks `TablesRefused`, the change log's "AMQP field tables, arrays and strings
that declare more bytes than the frame carries are now rejected" (CHANGELOG.md:246-247), for
the arguments of methods. queue.bind and queue.unbind drop the error (queue.go:222,
queue.go:279 of `amqp`) and go on without arguments. A field cut off inside a table that
is whole is refused by them as well (`TruncatedRefused`).

## 4. What the models showed besides

The properties above are stated around these behaviours; each names its exception
in its comment, also where it is the run's choice of clients and constants that
leaves a behaviour out.

Delivery:

- *A nack that crosses queues.* A nack pops its record, another client deletes and
  redeclares the queue, and the nack pushes the message into the new queue
  (ack.go:152), which consumer.go:423-424 means to rule out. `delivery_recreate` has
  one client and therefore cannot meet it.
- *A get lost in cleanup.* basic.get pops a message, the connection is cleaned up,
  basic.get tracks the message in a channel state nobody releases (basic.go:93
  against consumer.go:658-659). `delivery_once` gives the mortal client no get.
- *A delivery after close-ok.* channel.close waits for the deliveries of consumers it
  cancels itself (consumer.go:481); one to a consumer cancelled just before may be
  written after close-ok (consumer.go:513). The client that closes in `delivery_once`
  does not cancel.
- *Overshoot of the channel-wide prefetch.* The loops of two queues pass
  `shouldThrottle` for the same slot before either tracks its delivery.
  Per-consumer prefetch is safe since one loop serves a consumer.
- *Redelivery past the prefetch.* recover(requeue=false) calls
  `deliverToConsumer` without `shouldThrottle`; hence the premise of
  `PrefetchRespected`. It also walks the channel's consumers after it released `vh.mu`
  (recover.go:49).
- *Duplicate at a dying socket.* A write that fails after `CleanupConnection`
  took the record makes the loop push back a message the cleanup requeues too;
  hence the premise of `NoDuplicate`. AMQP allows a redelivery; two copies in
  the queue are more than that.
- *A second loop.* `RegisterConsumer` starts the loop after it released
  `vh.mu`; a queue deleted in between gets a loop nobody stops, which takes
  consumers by name from the queue declared next.
- docs/amqp-status.md:65 still says that cancelling a consumer requeues its
  deliveries; the code keeps them on the channel, as its comment and AMQP say.

Buffers and transactions:

- `EnforceMaxLength` pops from the FIFO channel only (qll.go:50): priority queues have
  no length limit, against CHANGELOG.md:556.
- *An eviction too many.* The loop receives before it counts, so the limiter may
  evict from a queue below its limit; `EvictsForOne` says by how much.
- A commit that fails at an ack keeps its publishes (tx.go:102), against
  docs/amqp-status.md:149.
- *A mandatory message of a transaction on a topic exchange* whose binding goes
  between the routing check and the publish disappears under commit-ok:
  `routeLocked` returns no error for a topic exchange without a match. With
  `Topic = TRUE` the run `tx_effects` fails; for a direct exchange it passes.
- The pattern `*.#` does not match a key of one word (exchange.go:317), against the
  meaning of `#`; `MatchesAsMeant` excepts it.

The registry, its files and dead letters:

- Messages that leave a queue and stay in its file, to come back after a restart: a
  rejected message that was dead-lettered (ack.go:183-186), one taken by a no-ack
  basic.get, one dropped at a full channel (queue.go:648), the earlier targets of a
  publish whose save failed. A message dead-lettered to a queue that still has it, or has
  it in its file, is saved under the one id it has: whichever copy is settled first takes
  the file's entry away from both (`exposed`). The commonest case is the queue it came from.
- *A queue bound twice to a fanout exchange.* Its bindings are stored under the empty key and
  compared for uniqueness there (binding.go:69-74), but the binding compared is made with the client's
  key before the key is emptied: a queue bound twice with the same non-empty key has two bindings and gets each message
  twice (message.go:191-193). queue.unbind removes one of them and the one entry of both in
  the file (`adrift`, `exposed`).
- *A directory nobody syncs.* atomic.go:77-79 promises that new directories "and the files later
  written into" them survive a crash. A sync that fails (atomic.go:102) is reported, and the
  directories stay; the next save finds them (atomic.go:85), syncs nothing, succeeds, and a crash may
  take its file with the directory. `KeptSurvives` excepts the files `AtRisk`; without the exception TLC finds the
  crash in a few steps. `StoreSpec` has it as `uncertain`.
- Failed saves and removals of exchange, queue and binding files are logged and never tried
  again (exchange.go:190, queue.go:491, queue.go:575, binding.go:93, binding.go:152), and a
  failed DeleteMessage is ignored (ack.go:42, ack.go:190, message.go:366, queue.go:754): what was
  deleted or settled comes back after a restart, what was declared may not. A name that went
  `adrift` stays so until the process restarts, since a later declaration of it writes on top of what is left.
- Recovery skips durable exclusive queues and leaves their files and bindings; it
  loses an exchange's Internal flag, a queue's maximum length and priority, its
  binding to the default exchange (CHANGELOG.md:388: "all queues are already bound to it"), and the time of
  enqueueing, so that x-message-ttl expires recovered messages at once (docs/message-ttl.md:140
  describes a check at recovery that is not there). recovery.go and state_recovery.go
  are not called.
- if-unused, if-empty and the owner are checked before `vh.mu` is taken for a deletion.
  An exclusive queue declared while its connection is being cleaned up is left
  without an owner.
- requeueMessage (recover.go:79-88) ignores what handleTTLExpiration returns: a message
  that expires there is dead-lettered, removed from the file and pushed back as well; `HeldOnDisk` excepts it.
- A purge whose dead letters lead back to the purged queue blocks on the lock it holds.
- A queue bound twice to a direct exchange with different arguments gets two copies.
- The definitions export lists "(AMQP default)", and the import creates it
  (definitions.go:13-19).
- DeleteVHostMetadata takes no file locks; a removed file's directory is not synced.
- A layout marker whose rename was not synced may be lost in a crash: the next start then refuses
  the data written beside it. `NeverRefused` excepts it.

Connections:

- The handshake does not check that the vhost exists, and DeleteVHost sees registered
  connections only: one that is in its handshake ends up in a vhost that is gone.
- main cancels the root context before it broadcasts (main.go:91), so a connection may
  be closed without connection.close; `ShutdownReachesAll` allows that.
- `ActiveConns` may reach zero while the monitor's cleanup of a vhost still runs.
- A panic that leaves `vh.mu` held after its own connection was cleaned up is not
  noticed by the watchdog; `DeadAreForgotten` excepts it, and `PanicResolves` and
  `ShutdownEnds` except an overview that is caught by it. recover.go:17-18 says that a broker whose
  global lock is stuck exits instead of hanging; the overview waits for `vh.mu` with `b.mu` held (broker.go:930,
  broker.go:967-973), and then nobody is served and not even a signal ends the process.

The wire:

- A message with an empty body is never published and its channel publishes nothing more
  (basic.go:191; docs/amqp-status.md:130 lists basic.publish without a caveat);
  `NothingSwallowed` excepts it.
- Header and body frames go to the channel of the last method frame, whatever channel
  they carry; the properties exclude behaviours in which contents of two channels mix.
- A body in several frames is answered with a FRAME_ERROR and no closing flag.
- Decimals in headers become void, and are refused inside arrays; header frames may
  exceed the consumer's frame-max; queue.delete and exchange.delete of
  one-letter names and connection.close with a short text are refused as too short.
- A comment in `amqp/basic.go:614` says that basic.cancel does not accept empty consumer tags; the
  code and `RequestsUnderstood` take them.

## 5. Bounds and fairness

Two queues with one consumer tag, or two connections with one consumer each, are
the smallest settings with two goroutines in the same critical sections and a
tag to reuse. `MaxTag = 2` lets one delivery be settled while another is
outstanding, with a prefetch of one. `Delivery` bounds the methods of each client
(`MaxOps`): six for one client is publish, consume, nack, delete, declare and one
more, every protocol sequence the properties speak of; four and three suffice
for two clients. `MaxQueues = 2` is a queue and its successor. `MaxRounds = 2`
stands for the loop's round limit. In `buffer_limit` five messages against a
limit of two reach the bound of `LengthBounded` with three goroutines;
`buffer_drain` has levels of capacity one, so that pushes are dropped. `Tx` has
two transactions, so that what one leaves behind can reach the next, two
messages of which one is mandatory, and buffers of two operations in place of
10000. Patterns of four words hold two `#` around a word.

`VHost` allows five requests and three queue births: declare, bind, publish,
settle and delete or redeclare, or two bindings to a fanout exchange and a publish or an unbind, with failing store operations and a crash anywhere; one durable exchange
that is topic and auto-delete, or fanout, a durable queue that dead-letters to it, and a
durable queue that is exclusive and auto-delete.
`JsonStore` has four methods of two goroutines, on a queue's and an exchange's file with a
lock stripe each, and one crash, after which every earlier step's durability is observed.
`Lifecycle` has one connection that does everything and one panic; that its safety properties hold for several connections is
proved (section 6). `Wire` has limits of 24 to 97 octets in place of 4096 to 131072, chosen below, at
and above each other, and five messages: with nested headers, with arrays and decimals,
empty, longer than a frame, and of exactly two frames. `locks_purge` needs two goroutines.

Deadlock is not checked where clients may stop sending: a broker without work
is not stuck. `channel_indexes` checks it.

`Delivery!FairSpec` assumes weak fairness of each goroutine's next step: each
queue's loop, the rest of a method already begun, the cleanup of a dead
connection, the notification of a cancelled consumer. Go's scheduler runs
runnable goroutines. One step does depend on a client, the write of a delivery:
there is no write deadline, so fairness of the loop assumes that a client that
keeps its connection alive reads its socket. (One that sends heartbeats and does
not read can block the loops of its queues; nothing in the code promises
otherwise.) Clients are not fair in any other way: they may stop after any
method, and no ack is assumed. `QueueBuffer!FairSpec` is weak fairness
of the loop alone. `Lifecycle!FairSpec` is weak fairness of main, of each
connection's goroutines, of a read on a socket that is closed or whose client is gone,
and of the heartbeat's timer; clients may be silent forever. It takes a handler's method to return
once its locks are free, and so leaves out the deadlock of a purge, which is the subject of `Locks`.

## 6. The proofs

All theorems are for every value of the constants, from the assumptions named in
the modules.

`ChannelDeliveryProofs`, from `ChannelAssumption` and `NoConsumerAssumption`.
The inductive invariant is

    IInv == TypeOK /\ IndexConsistent /\ NoInheritedDelivery
              /\ ThreadsHold /\ RedoHasConsumer

`NoInheritedDelivery` alone is not inductive: `Track` adds a record for whatever
consumer its goroutine holds. `ThreadsHold` says that a goroutine whose consumer
is still `Active` holds the one registered now, on the queue the loop serves;
every deactivation clears it. One group of lemmas gives the type of each operator
of `ChannelState`, another what it does to the three indexes; each action then
has one step. From it:

- `ChannelConsistent`: the indexes agree and nothing is inherited;
- `TagsStaySettled`: no step makes a settled tag outstanding again;
- `PrefetchIsRespected`: as long as nothing is redelivered. It adds the
  invariant `PrefetchInv`: a loop that was admitted, with its consumer still
  active, sees room for one more. That survives the gap between check and
  delivery because only the one loop of the consumer's queue adds to its
  deliveries, and everyone else only removes.

`DeliveryProofs`, from `DeliveryAssumption` and `NoConsumerAssumption`, for any number of
connections, consumers, messages, queues declared one after the other, methods and rounds.
All five theorems rest on `BaseInv`: types; which queue objects are stopped; consumers in
the list are the active ones; what each goroutine holds at each point of its method; a
message is found only in the queue object it was published to or a later one; a record
marked QueueDeleted is of an earlier queue; and `DeliveriesInv`, the reason a loop may
remove the record of a failed write: as long as the channel state is the one it got, the tag
it was given stands for its message. To it each of the others adds what it needs:

- `DeliveryTyped`: the state keeps its type.
- `NothingLost` (`NoLoss`): `LossInv` says where a message of the current queue is, with
  the finer point that a loop writing a delivery no longer counts as holding its message
  unless the consumer is no-ack or the connection is gone: the record does, and the
  connection's cleanup will find it. Premise `GetsLive`: no connection whose socket may die
  uses basic.get (section 4, *A get lost in cleanup*).
- `ToldIsFinal` (`NoDeliveryAfterTold`): nobody takes `sendMu` for a removed consumer, and
  while a close waits at its barrier, a removed consumer whose `sendMu` is still held is one
  it waits for. Premise `CloseWaitsForAll`: a client that closes its channel does not cancel
  a consumer before, and nobody deletes the queue (*A delivery after close-ok*).
- `NoMessageCrosses` (`NoCrossQueue`): buffer, loop, records, handler and cleaner hold
  messages of the queue object they will put them into; the loop of a deleted queue was told
  to stop and finds its consumers removed, so it neither tracks a delivery nor looks
  consumers up again. Premise `DeletesUnheld`: the methods that hold a queue or its messages
  from one critical section to the next (consume, get, nack, recover) are used on no other
  connection than the one that deletes (*A nack that crosses queues*, *A second loop*).
  Publishing, declaring, acking, cancelling and closing, dying sockets and their cleanup are
  free on all of them.
- `NothingTwice` (`NoDuplicate`): `OnceInv` says that, as long as no socket has died, the
  `Places` of a message are at most one, and no place has it twice. The places are more than those
  the property counts, which would not be inductive: what a stopped queue still buffers may yet be
  taken by its loop, a loop between taking and tracking a message holds it, and a delivery of a
  deleted queue may yet be acked. Every step leaves a message where it is, takes it from one
  place to one other, or brings a new one. No further premise: all methods are free on
  all connections.

Each of the three premises excludes exactly a behaviour of the code that TLC shows to break the property
(section 4); the runs choose the clients' methods accordingly. A step is proved to keep the
invariant part by part (`StepFine`, `LossFine`, `ToldStep`, `CrossStep`, `OnceStep`: which parts it leaves
alone and which it re-establishes), with one lemma per action.

`QueueBufferProofs`, from `BufferAssumption`. The invariant is `TypeOK`,
`CountExact` and `RoomLeft`: a goroutine that has passed `EnforceMaxLength` is
counted as if it had pushed already, which is what makes the limit inductive.

- `CountIsExact`, for FIFO and priority queues;
- `LengthIsBounded`, for FIFO queues (priority queues have no limit, section 4);
- `EvictionStops`: what the stale count costs is one message.

`TxProofs`, from `TxAssumption`. `CommittedOnce` says nothing of what is still to come,
so the invariant ties the buffers to the history: while the channel takes methods the
buffers are the current transaction's (`BuffersAreCurrent`: what a failed commit left is
out of reach until the channel is closed, which clears it), the client publishes a message
once, and whatever was published or returned is an operation a commit is past
(`TouchedWasProcessed`). `SettleInv` says the same of the acks. `DoneSoFar` says what a
commit without an error has done up to its position, which at commit-ok is everything.

- `EveryMessageOnce`: a message is published or returned at most once;
- `RollbackDiscards`: what has an effect was asked to be committed;
- `CommitOkMeansDone`, for exchanges other than topic ones. With `Topic` it is false
  (section 4).

`ConnectionProofs`, for `Lifecycle` from `LifecycleAssumption`. `WaitIsFinal` needs to know what the
WaitGroup counts: `ActiveCounts` says it is the connections being served and those the
accept loop has just added, as cardinalities. `ShutdownReachesAll` needs `BroadcastInv`,
which follows the broadcast through its snapshot of the connections. `NothingLeft` needs
`ConnInv`: where a connection is in the maps at each point of its life (`InMaps`), and that
the goroutine that took it out of `connInfos` is the only one at it and is still at it
(`OneCleaner`).

- `NoneServedAfterWait`, `BroadcastReachesAll`, `CleanedUpOnce`, `TypeCorrect` (the
  WaitGroup's counter is never negative).

For `FrameLoop`, from `FrameLoopAssumption` (sane defaults, bodies of octets) and
`CodecAssumption`, for any messages, limits, channels and codec that satisfies it. The
properties look at a message when it is published or its last frame is sent, so the invariant
`LoopInv` follows it from its method on: the limits are those agreed on (`Agreed`); what is being
sent is on an open channel, the loop's own (`OnItsChannel`); and a channel's assembled state
(`ChannelsOk`) is `Clean`, is `Following` the message being sent on it (its key, and its header if
that was sent), is closing, or is `Dead`: it has a header and can complete nothing any more, because
an empty body is due on it or a body of the wrong length was answered. The last case is what keeps
a later publish from being joined to an earlier one's header. A message with
more than one body frame is `Following` up to the first, which is short and so ends in `Dead`.

- `ContentAsSent` (`PublishedAsSent`), `ContentDecided` (`NothingSwallowed`), both for a client that
  does not mix the content of two channels, and the second with the exception of channels that
  carried an empty body (section 4);
- `LimitsKept` (`LimitsRespected`), whatever limits are configured and offered, zeros included.

They are of `ContentSpec`, the specification of `FrameLoop`, with the codec as a parameter.

`JsonStoreProofs`, from `JsonStoreAssumption` and `ContentAssumption` (a missing and a torn
file are told apart from whole ones). The invariant: a file's stripe is held by one method
(`LockInv`), so what it loaded is still there when it renames (`WriteInv`); a directory is
being made durable by the owner of `mkdirMu`, and a method writes only in ones that nobody is making,
durable or with a failed sync behind them (`DirInv`, `Placed`); there is a marker before any vhost's directory, unless a crash lost it (`MarkerInv`); what a crash may leave of a file is whole (`DiskInv`)
and has what was saved (`KeptInv`), or the crash takes the file with an unsynced directory.

- `SavedSurvivesCrashes`, `OwnDataAccepted`;
- `StoreImplementsInterface`: every step of the store is a step of `StoreSpec` or none.
  `Call` is the interface's `Called`, the rename or the removal `Applied`, the sync of the
  directory `Returned`, a return that changed nothing (an error, or a load that found
  nothing to do) `GivenUp`, a directory sync that failed `CreationFailed` or `OpeningFailed`, the sync that
  saves such directories after all `Assured`, a crash `Crashed`; lock, load, write and sync change
  nothing the interface sees. The step of the rename needs `WriteInv`: what it makes visible is the
  method applied to what the file has now.

`VHostProofs`, from `VHostAssumption` (the names of queues are finitely many),
`NoneAssumption` and `WordsAssumption`. The invariant has four layers, each used by the next:

1. `TypeOK`, `HandlerInv` and `BornInv`: what a handler holds at each point of its request;
   a push refers to a queue object by a number that was given out, so that a queue created
   later never meets an earlier one's push; while the process is down nothing is in memory.
2. `RegInv`: bindings lead to live objects; auto-delete objects that were used are in use;
   the file of an exchange that is not `adrift` lists the durable bindings to queues that are not. The last two hold each other up: a
   binding is removed from the file by key and name only, which removes the right entry
   because the binding in memory leads to the one object with the name.
3. `FilesInv`: while the process is down, a binding in a file leads to a queue with a file,
   or one that recovery skipped. From this `Recover` re-establishes `RegInv`, whatever
   deletion the crash interrupted (the code removes a queue's bindings from the files one by
   one, before the queue's own file).
4. `MsgInv`: a message in a file has a reason to be there: it is held, a handler is
   pushing it to the object that is registered now, a handler that took it will remove it, or it is recorded as
   `leaked`, or the queue is `adrift`; and a message that is held or pushed is in the file, is held or pushed
   once, and is not taken at the same time, or it is `exposed`. The second half is what keeps a removal from
   taking the entry of a message that is still held, and it needs no store operation to succeed: a queue without a
   file, or whose save failed, refuses the message.

- `NoDanglingBinding`, `UnusedIsDeleted`, `FilesFollowRegistry`, `HeldIsSaved`,
  `SettledIsGone`, `RegistryTypeCorrect`;
- `TopicMatching`: `MatchTopic` matches a key with a pattern exactly if the key can be cut into one
  piece for each word of the pattern (`Means`), for keys of any number of words, with the two
  exceptions in `AsMeant`: `*.#` and keys with empty words;
- `RoutesAsMeant` (`MatchesAsMeant`): so in every reachable registry a topic exchange routes a
  message to exactly the queues whose pattern means its key. The keys `VHost` binds and publishes
  with are one word or `#`; longer ones are covered by `TopicMatching`.

That the recursive function in `MatchWords` finds a cut if there is one, and only then, is an
induction on the words left of the key and the pattern. The induction theorems of the library
cannot be instantiated here, so it is done in two lemmas: the function that says whether a cut
exists solves the matcher's equation (`CutSolves`), and the equation has one solution
(`OneSolution`), since of the positions where two solutions differ one would have the fewest words left.

The bounds of the models (`MaxTag`, `MaxRequests`, `MaxBorn`, ...) are constants like the
others: the theorems hold for all of their values.

Only model-checked: `DeliveredAsPublished`, `RequestsUnderstood`, `TruncatedRefused` and
`RepliesReadable` of `Wire`, which are about what the recursive operators of `Codec` compute; and all
liveness properties, which are out of the prover's reach. `NoDeadlock` and `TablesRefused` are false. The
theorems about `FrameLoop` take the codec's faithfulness for the content of a publish as an assumption, which
is model-checked for the messages of the run `wire`.

## 7. Plan

What is left:

1. The bound of the channel-wide prefetch's overshoot.
2. The redelivered mark in `Delivery`, read before a write and cleared after it.

## 8. Not modelled

The web UI and the CLI are pages and commands around the management API, whose
changes are modelled as requests of `Admin`; its lists and overviews only read.
Metrics are counters no decision depends on. Users and permissions are rows of a
database read at the handshake, and SASL is a comparison with them; `Lifecycle` has a
handshake that succeeds or fails. Clocks and timestamps: expiry and time-outs may happen
whenever they are armed. The x-death header and its counts, CC and BCC, binding arguments,
and the redelivered mark.
