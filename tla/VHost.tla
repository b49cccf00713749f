-------------------------------- MODULE VHost --------------------------------
(***************************************************************************)
(* The registry of a virtual host: exchanges, bindings and queues, the     *)
(* messages the queues hold, and the files that outlive the process.       *)
(* Whatever vh.mu protects is one step; what a handler checks before it    *)
(* takes vh.mu, or does after it releases it, is a step of its own.        *)
(* A queue holds a message from its push until a handler settles it,       *)
(* whether it is ready or delivered: delivery is the subject of Delivery.  *)
(* Each store operation is atomic, which JsonStore establishes, and may    *)
(* fail: for most, the code logs the error and goes on.  A crash here is   *)
(* the death of the process.  Binding arguments are left out.              *)
(***************************************************************************)
EXTENDS TopicMatch, FiniteSets

CONSTANTS
    Clients,          \* AMQP connections
    Admin,            \* the management API's connection id
    Default,          \* the default exchange, amq.default
    ExNames, QNames,  \* names the clients declare
    BindKeys,         \* the keys queue.bind is tried with
    Msgs,             \* persistent messages
    KeyOf,            \* the routing key of each message
    ExchangeKinds,    \* what may be declared under each exchange name
    QueueKinds,       \* what may be declared under each queue name
    None,
    Capacity,         \* queueBufferSize
    MaxBorn,          \* bound on the queues ever created
    MaxRequests,      \* bound on the requests ever handled
    MaxCrashes        \* bound on the crashes

VARIABLES
    exchanges,   \* vh.Exchanges
    queues,      \* vh.Queues
    exFiles,     \* the exchange files
    qFiles,      \* the queue files
    conn,        \* state of each connection
    handler,     \* what the goroutine of each connection is doing
    born,        \* number of queues created
    requests, crashes,
    up,          \* the process runs
    fresh,       \* messages not published yet
    adrift,      \* history: names whose files and registry entries went separate ways
    leaked,      \* history: <<queue, message>> a code path left in the queue's file
    exposed      \* history: <<queue, message>> a queue may hold with no entry of its own in the file

vars == <<exchanges, queues, exFiles, qFiles, conn, handler, born, requests,
          crashes, up, fresh, adrift, leaked, exposed>>

Conns == Clients \union {Admin}
KeyFor(q) == <<q>>   \* the key that is the name of a queue
AnyKey == <<Hash>>
NoKey == <<EmptyWord>>   \* ""
Keys == {KeyFor(q) : q \in QNames} \union {AnyKey, NoKey}
Types == {"direct", "fanout", "topic"}
Binding == [key : Keys, queue : QNames, born : 1..MaxBorn]
FileBinding == [key : Keys, queue : QNames]
ExchangeKind == [typ : Types, durable : BOOLEAN, autoDelete : BOOLEAN, internal : BOOLEAN]
QueueKind == [durable : BOOLEAN, autoDelete : BOOLEAN, exclusive : BOOLEAN, dlx : ExNames \union {None}]

\* The fields "bound" and "consumed" are history: the exchange had a binding,
\* the queue a consumer, since it was created or recovered.
ExchangeObject == [kind : ExchangeKind, bindings : SUBSET Binding, bound : BOOLEAN]
QueueObject == [kind : QueueKind, owner : Conns \union {None}, born : 1..MaxBorn, held : SUBSET Msgs,
                consumers : SUBSET Clients, consumed : BOOLEAN]
ExchangeFile == [kind : ExchangeKind, bindings : SUBSET FileBinding]
QueueFile == [kind : QueueKind, messages : SUBSET Msgs]
Request == [pc : {"idle", "declared", "deleting", "dropping", "pushing", "discarding", "removing"},
            q : QNames \union {None}, e : ExNames \union {None}, m : Msgs \union {None},
            to : SUBSET (QNames \X (1..MaxBorn)), flags : SUBSET {"if-unused", "if-empty", "remove"},
            back : SUBSET (QNames \X (1..MaxBorn))]   \* where requeueMessage puts it in the end

ASSUME VHostAssumption ==
    /\ Capacity \in Nat \ {0} /\ MaxBorn \in Nat /\ MaxRequests \in Nat /\ MaxCrashes \in Nat
    /\ Admin \notin Clients /\ Default \notin ExNames
    /\ QNames \subseteq Words /\ IsFiniteSet(QNames)
    /\ KeyOf \in [Msgs -> Keys] /\ BindKeys \subseteq Keys
    /\ ExchangeKinds \in [ExNames -> SUBSET ExchangeKind]
    /\ QueueKinds \in [QNames -> SUBSET QueueKind]
ASSUME NoneAssumption ==
    /\ None \notin QNames /\ None \notin Msgs
    /\ None \notin ExchangeObject /\ None \notin QueueObject
    /\ None \notin ExchangeFile /\ None \notin QueueFile

NewExchange(k) == [kind |-> k, bindings |-> {}, bound |-> FALSE]
NewQueue(k, c, n) ==
    [kind |-> k, owner |-> IF k.exclusive THEN c ELSE None, born |-> n,
     held |-> {}, consumers |-> {}, consumed |-> FALSE]
DefaultKind == [typ |-> "direct", durable |-> FALSE, autoDelete |-> FALSE, internal |-> FALSE]
Idle == [pc |-> "idle", q |-> None, e |-> None, m |-> None, to |-> {}, flags |-> {}, back |-> {}]

mandatory == [e \in ExNames \union {Default} |-> IF e = Default THEN NewExchange(DefaultKind) ELSE None]

Init ==
    /\ exchanges = mandatory
    /\ queues = [q \in QNames |-> None]
    /\ exFiles = [e \in ExNames |-> None]
    /\ qFiles = [q \in QNames |-> None]
    /\ conn = [c \in Conns |-> "open"]
    /\ handler = [c \in Conns |-> Idle]
    /\ born = 0 /\ requests = 0 /\ crashes = 0
    /\ up = TRUE
    /\ fresh = Msgs
    /\ adrift = {} /\ leaked = {} /\ exposed = {}

-----------------------------------------------------------------------------
(* The registry as a value, so that the helpers the code calls with vh.mu  *)
(* held can be composed.                                                   *)
Registry == [ex |-> exchanges, qu |-> queues, xf |-> exFiles, qf |-> qFiles]
Exists(r, e) == r.ex[e] # None
OwnedBy(r, q, c) == r.qu[q].kind.exclusive => r.qu[q].owner = c
Bindings(r, e) == IF r.ex[e] = None THEN {} ELSE r.ex[e].bindings

(* The entries of bindings in the file of their exchange.  A fanout        *)
(* exchange files them all under the empty key.                            *)
Entry(x, b) == [key |-> IF x.kind.typ = "fanout" THEN NoKey ELSE b.key, queue |-> b.queue]
Entries(r, e, B) == {Entry(r.ex[e], b) : b \in {d \in Bindings(r, e) \intersect B : r.qu[d.queue].kind.durable}}

(* The registry becomes r, but the files only where the store operations   *)
(* succeed: those of the exchanges in X and the queues in Q fail.  The     *)
(* deletion of a queue removes the entries of its bindings one by one, and *)
(* C has those that are removed from the files of X.  The names in odd are *)
(* set adrift even if all goes well.                                       *)
Undone(r, e) == {b \in Entries(Registry, e, Bindings(Registry, e)) : r.qu[b.queue] = None}
Become(r, odd) ==
    /\ exchanges' = r.ex /\ queues' = r.qu
    /\ \E X \in SUBSET {e \in ExNames : r.xf[e] # exFiles[e]}, Q \in SUBSET {q \in QNames : r.qf[q] # qFiles[q]} :
        \E C \in SUBSET UNION {{e} \X Undone(r, e) : e \in X} :
            /\ exFiles' = [e \in ExNames |-> IF e \notin X THEN r.xf[e]
                                            ELSE IF exFiles[e] = None THEN None
                                            ELSE [exFiles[e] EXCEPT !.bindings = {b \in @ : <<e, b>> \notin C}]]
            /\ qFiles' = [q \in QNames |-> IF q \in Q THEN qFiles[q] ELSE r.qf[q]]
            /\ adrift' = adrift \union odd \union X \union Q

(* checkAutoDeleteExchangeUnlocked and deleteExchangeUnlocked, which also  *)
(* removes the file.                                                       *)
DropExchange(r, e) ==
    [r EXCEPT !.ex[e] = None,
              !.xf = IF r.ex[e].kind.durable THEN [r.xf EXCEPT ![e] = None] ELSE r.xf]

(* What is left of the exchanges when the bindings in B are removed from   *)
(* every one of them.                                                      *)
LosesAll(r, e, B) ==
    /\ Exists(r, e)
    /\ r.ex[e].kind.autoDelete
    /\ r.ex[e].bindings \subseteq B
    /\ r.ex[e].bindings # {}
\* Mutant: an auto-delete exchange stays.
NoAutoDelete(r, e, B) == IF ~Exists(r, e) THEN None ELSE [r.ex[e] EXCEPT !.bindings = @ \ B]
Kept(r, e, B) ==
    IF ~Exists(r, e) \/ LosesAll(r, e, B) THEN None
    ELSE [r.ex[e] EXCEPT !.bindings = @ \ B]

(* The file keeps a binding that memory does not have: only the bindings   *)
(* of the exchange in memory to durable queues are deleted from it.        *)
\* Mutant: the removed bindings stay in the file.
KeepsFile(r, e, B) == r.xf[e]
KeptFile(r, e, B) ==
    IF r.xf[e] = None \/ (LosesAll(r, e, B) /\ r.ex[e].kind.durable) THEN None
    ELSE IF ~Exists(r, e) \/ ~r.ex[e].kind.durable THEN r.xf[e]
    ELSE [r.xf[e] EXCEPT !.bindings = @ \ Entries(r, e, B)]

WithoutBindings(r, B) ==
    [r EXCEPT !.ex = [e \in DOMAIN r.ex |-> Kept(r, e, B)],
              !.xf = [e \in DOMAIN r.xf |-> KeptFile(r, e, B)]]

(* removeQueueBindingsUnlocked finds a queue's bindings by its name. *)
\* Mutant: only the bindings of direct exchanges are found.
BindingsOfDirect(r, D) ==
    LET direct == {e \in DOMAIN r.ex : Exists(r, e) /\ r.ex[e].kind.typ = "direct"}
    IN {b \in UNION {Bindings(r, e) : e \in direct} : b.queue \in D}
BindingsOf(r, D) == {b \in UNION {Bindings(r, e) : e \in DOMAIN r.ex} : b.queue \in D}

(* deleteQueuebyNameUnlocked, for the queues of a set.  The queue objects  *)
(* are stopped: what is pushed to them later is discarded.                 *)
DeleteQueues(r, D) ==
    LET cut == WithoutBindings(r, BindingsOf(r, D))
    IN [cut EXCEPT !.qu = [q \in QNames |-> IF q \in D THEN None ELSE r.qu[q]],
                   !.qf = [q \in QNames |-> IF q \in D /\ r.qu[q].kind.durable THEN None ELSE r.qf[q]]]

(* cancelConsumerLocked for every consumer of c on the queues of a set,    *)
(* with the deletion of auto-delete queues that lose their last consumer.  *)
CancelConsumers(r, c, Q) ==
    LET cut == [q \in QNames |-> IF q \in Q THEN [r.qu[q] EXCEPT !.consumers = @ \ {c}] ELSE r.qu[q]]
    IN DeleteQueues([r EXCEPT !.qu = cut],
                    {q \in Q : c \in r.qu[q].consumers /\ cut[q].kind.autoDelete /\ cut[q].consumers = {}})

-----------------------------------------------------------------------------
(* Requests.  A connection handles one at a time; a request that started   *)
(* before the connection was cleaned up runs to its end.                   *)
MayStart(c) ==
    /\ up /\ handler[c].pc = "idle" /\ requests < MaxRequests
    /\ conn[c] # "closed"
Started(c) ==
    /\ requests' = requests + 1
    /\ conn' = IF conn[c] = "closing" THEN [conn EXCEPT ![c] = "closed"] ELSE conn
At(c, pc) == up /\ handler[c].pc = pc
Goto(c, h) == handler' = [handler EXCEPT ![c] = h]
Proceed(c) == UNCHANGED <<conn, requests>>
ghosts == <<crashes, up, exposed>>

(* CreateExchange leaves an exchange that exists alone, and the file of a  *)
(* new one overwrites what is left of an earlier one.                      *)
WithExchange(r, e, k) ==
    [r EXCEPT !.ex[e] = NewExchange(k),
              !.xf = IF k.durable THEN [r.xf EXCEPT ![e] = [kind |-> k, bindings |-> {}]] ELSE r.xf]
CreateExchange(e, k) ==
    /\ ~Exists(Registry, e)
    /\ Become(WithExchange(Registry, e, k), {})
    /\ UNCHANGED <<handler, born, fresh, leaked, ghosts>>

DeclareExchange(c, e, k) ==
    /\ c \in Clients /\ MayStart(c) /\ Started(c)
    /\ CreateExchange(e, k)

AdminCreateExchange(e, k) ==
    /\ MayStart(Admin) /\ Started(Admin)
    /\ ~k.internal
    /\ CreateExchange(e, k)

(* exchange.delete looks at the bindings for if-unused before vh.mu, and   *)
(* so does the management service.                                         *)
CheckExchangeUnused(c, e) ==
    /\ MayStart(c) /\ Started(c)
    /\ Exists(Registry, e) /\ exchanges[e].bindings = {}
    /\ Goto(c, [Idle EXCEPT !.pc = "dropping", !.e = e])
    /\ UNCHANGED <<exchanges, queues, exFiles, qFiles, born, fresh, leaked, adrift, ghosts>>

(* DeleteExchange, at once or after the check. *)
DeleteExchange(c, e) ==
    /\ \/ MayStart(c) /\ Started(c)
       \/ At(c, "dropping") /\ handler[c].e = e /\ Proceed(c)
    /\ Goto(c, Idle)
    /\ Become(IF Exists(Registry, e) THEN DropExchange(Registry, e) ELSE Registry, {})
    /\ UNCHANGED <<born, fresh, leaked, ghosts>>

(* CreateQueue.  A queue that exists is left alone, and refused unless the *)
(* connection may use it and the properties agree.  SaveQueueMetadata      *)
(* keeps the messages of a file that is already there.                     *)
Listing(r, q) == IF r.qf[q] = None THEN {} ELSE r.qf[q].messages
WithQueue(r, q, x) ==
    [r EXCEPT !.qu[q] = x,
              !.qf = IF x.kind.durable THEN [r.qf EXCEPT ![q] = [kind |-> x.kind, messages |-> Listing(r, q)]] ELSE r.qf]
CreateQueue(c, q, k) ==
    /\ IF queues[q] = None
       THEN /\ born < MaxBorn
            /\ born' = born + 1
            /\ Become(WithQueue(Registry, q, NewQueue(k, c, born')), {})
            \* What an abandoned file still lists comes back with it.
            /\ leaked' = leaked \union {<<q, m>> : m \in Listing(Registry, q)}
       ELSE /\ queues[q].kind = k /\ OwnedBy(Registry, q, c)
            /\ UNCHANGED <<born, exchanges, queues, exFiles, qFiles, leaked, adrift>>
    /\ Goto(c, [Idle EXCEPT !.pc = "declared", !.q = q])
    /\ UNCHANGED <<fresh, ghosts>>

DeclareQueue(c, q, k) ==
    /\ c \in Clients /\ MayStart(c) /\ Started(c)
    /\ CreateQueue(c, q, k)

AdminCreateQueue(q, k) ==
    /\ MayStart(Admin) /\ Started(Admin)
    /\ ~k.exclusive
    /\ CreateQueue(Admin, q, k)

(* BindQueue.  The binding holds the queue object, the check for a         *)
(* duplicate its name.  A fanout exchange ignores the key when it routes,  *)
(* but looks for a duplicate under the empty key only: every other binding *)
(* of the queue is one more copy, and here copies of one key are told      *)
(* apart by another key.                                                   *)
KeyOfCopy(e, q, key) ==
    LET copies == {b.key : b \in {x \in Bindings(Registry, e) : x.queue = q}}
        free == Keys \ (copies \union {NoKey})
    IN IF exchanges[e].kind.typ # "fanout" THEN {key}
       ELSE IF key = NoKey \/ NoKey \in copies THEN {NoKey}
       ELSE IF key \in free THEN {key} ELSE free
Bound(r, e, q, key) ==
    LET new == [key |-> key, queue |-> q, born |-> r.qu[q].born]
        known == \E b \in r.ex[e].bindings : b.key = key /\ b.queue = q
        saved == r.ex[e].kind.durable /\ r.qu[q].kind.durable /\ r.xf[e] # None
    IN IF known THEN r
       ELSE [r EXCEPT !.ex[e].bindings = @ \union {new},
                      !.ex[e].bound = TRUE,
                      !.xf = IF saved THEN [r.xf EXCEPT ![e].bindings = @ \union {Entry(r.ex[e], new)}]
                             ELSE r.xf]

(* The second half of queue.declare, in a critical section of its own; the *)
(* queue may be gone, which is an error.                                   *)
BindToDefaultExchange(c) ==
    /\ At(c, "declared") /\ Proceed(c)
    /\ Goto(c, Idle)
    /\ LET q == handler[c].q
       IN Become(IF queues[q] = None THEN Registry ELSE Bound(Registry, Default, q, KeyFor(q)), {})
    /\ UNCHANGED <<born, fresh, leaked, ghosts>>

BindQueue(c, e, q, key) ==
    /\ Exists(Registry, e) /\ queues[q] # None /\ OwnedBy(Registry, q, c)
    /\ \E k \in KeyOfCopy(e, q, key) : Become(Bound(Registry, e, q, k), {})
    /\ UNCHANGED <<handler, born, fresh, leaked, ghosts>>

QueueBind(c, e, q, key) ==
    /\ c \in Clients /\ MayStart(c) /\ Started(c)
    /\ BindQueue(c, e, q, key)

AdminCreateBinding(e, q, key) ==
    /\ MayStart(Admin) /\ Started(Admin)
    /\ BindQueue(Admin, e, q, key)

(* UnbindQueue.  Of the copies a fanout exchange has, the oldest goes and  *)
(* the one with the empty key, after which there are no more, is the       *)
(* newest; the entry in the file goes with the first.                      *)
Unbindable(e, q, key) ==
    LET copies == {b \in Bindings(Registry, e) : b.queue = q}
        older == {b \in copies : b.key # NoKey}
    IN IF exchanges[e].kind.typ # "fanout" THEN {b \in copies : b.key = key}
       ELSE IF older # {} THEN older ELSE copies
Unbound(r, e, b) ==
    [r EXCEPT !.ex[e] = Kept(r, e, {b}),
              !.xf = IF e = Default THEN @ ELSE [@ EXCEPT ![e] = KeptFile(r, e, {b})]]
HasCopy(r, e, b) == \E d \in Bindings(r, e) : Entry(r.ex[e], d) = Entry(r.ex[e], b)

UnbindQueue(c, e, q, key) ==
    /\ Exists(Registry, e) /\ queues[q] # None /\ OwnedBy(Registry, q, c)
    /\ \E b \in Unbindable(e, q, key) :
        LET r == Unbound(Registry, e, b)
        IN Become(r, IF HasCopy(r, e, b) THEN {e} ELSE {})
    /\ UNCHANGED <<handler, born, fresh, leaked, ghosts>>

QueueUnbind(c, e, q, key) ==
    /\ c \in Clients /\ MayStart(c) /\ Started(c)
    /\ UnbindQueue(c, e, q, key)

AdminDeleteBinding(e, q, key) ==
    /\ MayStart(Admin) /\ Started(Admin)
    /\ UnbindQueue(Admin, e, q, key)

(* queue.delete: ownership, which the management service does not ask for, *)
(* and the two conditions are looked at before vh.mu is taken.             *)
Deletable(c, q, flags) ==
    /\ queues[q] # None
    /\ "if-unused" \in flags => queues[q].consumers = {}
    /\ "if-empty" \in flags => queues[q].held = {}
    /\ Goto(c, [Idle EXCEPT !.pc = "deleting", !.q = q, !.flags = flags])
    /\ UNCHANGED <<exchanges, queues, exFiles, qFiles, born, fresh, leaked, adrift, ghosts>>

CheckQueueDelete(c, q, flags) ==
    /\ c \in Clients /\ MayStart(c) /\ Started(c)
    /\ Deletable(c, q, flags)
    /\ OwnedBy(Registry, q, c)

AdminDeleteQueue(q, flags) ==
    /\ MayStart(Admin) /\ Started(Admin)
    /\ Deletable(Admin, q, flags)

DeleteQueue(c) ==
    LET q == handler[c].q
    IN /\ At(c, "deleting") /\ Proceed(c)
       /\ Goto(c, Idle)
       /\ Become(IF queues[q] = None THEN Registry ELSE DeleteQueues(Registry, {q}), {})
       /\ leaked' = IF queues[q] = None \/ ~queues[q].kind.durable THEN leaked ELSE {l \in leaked : l[1] # q}
       /\ UNCHANGED <<born, fresh, ghosts>>

RegisterConsumer(c, q) ==
    /\ c # Admin /\ MayStart(c) /\ Started(c)
    /\ queues[q] # None /\ OwnedBy(Registry, q, c)
    /\ queues' = [queues EXCEPT ![q].consumers = @ \union {c}, ![q].consumed = TRUE]
    /\ UNCHANGED <<exchanges, exFiles, qFiles, handler, born, fresh, leaked, adrift, ghosts>>

CancelConsumer(c, q) ==
    /\ c # Admin /\ MayStart(c) /\ Started(c)
    /\ queues[q] # None /\ c \in queues[q].consumers
    /\ Become(CancelConsumers(Registry, c, {q}), {})
    /\ leaked' = {l \in leaked : l[1] # q \/ queues'[q] # None \/ ~queues[q].kind.durable}
    /\ UNCHANGED <<handler, born, fresh, ghosts>>

(* CleanupConnection cancels the consumers of the connection and deletes   *)
(* its exclusive queues, in one critical section; any goroutine may run it *)
(* while a request of the connection is still being handled.               *)
CleanupConnection(c) ==
    LET used == {q \in QNames : queues[q] # None /\ c \in queues[q].consumers}
        cut == CancelConsumers(Registry, c, used)
        owned == {q \in QNames : cut.qu[q] # None /\ cut.qu[q].owner = c}
    IN /\ up /\ conn[c] = "open"
       /\ conn' = [conn EXCEPT ![c] = IF handler[c].pc = "idle" THEN "closing" ELSE "closed"]
       /\ Become(DeleteQueues(cut, owned), {})
       /\ leaked' = {l \in leaked : queues[l[1]] # None /\ queues[l[1]].kind.durable => queues'[l[1]] # None}
       /\ UNCHANGED <<handler, born, requests, fresh, ghosts>>

-----------------------------------------------------------------------------
(* Messages.  Routing and saving happen under vh.mu, the pushes after it.  *)
Route(e, key) ==
    IF ~Exists(Registry, e) THEN {} ELSE
    {<<b.queue, b.born>> : b \in
        CASE exchanges[e].kind.typ = "direct" -> {b \in exchanges[e].bindings : b.key = key}
          [] exchanges[e].kind.typ = "fanout" -> exchanges[e].bindings
          [] exchanges[e].kind.typ = "topic" -> {b \in exchanges[e].bindings : MatchTopic(key, b.key)}}
Durable(T) == {q \in {t[1] : t \in T} : queues[q] # None /\ queues[q].kind.durable}
Savable(T) == {q \in Durable(T) : qFiles[q] # None}
(* The queues a fanout exchange has two bindings to get the message twice. *)
Twice(e) ==
    {q \in QNames : /\ exchanges[e].kind.typ = "fanout"
                    /\ \E a, b \in exchanges[e].bindings : a # b /\ a.queue = q /\ b.queue = q}
\* Mutant: the loop over the queues ends before the last one.
SavesAllButOne(Q, m) ==
    LET last == CHOOSE q \in Q : TRUE
    IN [q \in QNames |-> IF q \in Q /\ q # last THEN [qFiles[q] EXCEPT !.messages = @ \union {m}] ELSE qFiles[q]]
Saved(Q, m) ==
    [q \in QNames |-> IF q \in Q THEN [qFiles[q] EXCEPT !.messages = @ \union {m}] ELSE qFiles[q]]

Publishable(e) == Exists(Registry, e) /\ ~exchanges[e].kind.internal

Publish(c, e, m) ==
    LET T == Route(e, KeyOf[m])
    IN /\ m \in fresh /\ fresh' = fresh \ {m}
       /\ Publishable(e) /\ T # {}
       /\ Savable(T) = Durable(T) /\ qFiles' = Saved(Durable(T), m)
       /\ exposed' = exposed \union {<<q, m>> : q \in Twice(e)}
       /\ Goto(c, [Idle EXCEPT !.pc = "pushing", !.m = m, !.to = T])
       /\ UNCHANGED <<exchanges, queues, exFiles, born, leaked, adrift, crashes, up>>

BasicPublish(c, e, m) ==
    /\ c \in Clients /\ MayStart(c) /\ Started(c)
    /\ Publish(c, e, m)

AdminPublish(e, m) ==
    /\ MayStart(Admin) /\ Started(Admin)
    /\ Publish(Admin, e, m)

(* A save fails, at the latest with an error after the file was replaced:  *)
(* the publish is refused, the files written until then stay.              *)
PublishFails(c, e, m) ==
    LET T == Route(e, KeyOf[m])
    IN /\ MayStart(c) /\ Started(c)
       /\ m \in fresh /\ fresh' = fresh \ {m}
       /\ Publishable(e)
       /\ Durable(T) # {}
       /\ \E S \in SUBSET Savable(T) :
            /\ qFiles' = Saved(S, m)
            /\ leaked' = leaked \union {<<q, m>> : q \in S}
       /\ UNCHANGED <<exchanges, queues, exFiles, handler, born, adrift, ghosts>>

(* Push: a stopped queue discards the message, a full channel drops it.    *)
(* The dead letter of an expired or evicted message is followed by the     *)
(* removal of the original; that of a rejected one is not.                 *)
Push(c, t) ==
    LET q == t[1]
        h == handler[c]
        m == h.m
        current == queues[q] # None /\ queues[q].born = t[2]
        rest == h.to \ {t}
        next == IF rest # {} THEN [h EXCEPT !.to = rest]
                ELSE IF "remove" \in h.flags THEN [h EXCEPT !.pc = "removing", !.to = {}]
                ELSE Idle
    IN /\ At(c, "pushing") /\ t \in h.to /\ Proceed(c)
       /\ Goto(c, next)
       /\ \/ /\ current
             /\ queues' = [queues EXCEPT ![q].held = @ \union {m}]
             /\ UNCHANGED leaked
          \/ /\ current /\ Cardinality(queues[q].held) >= Capacity
             /\ leaked' = IF queues[q].kind.durable THEN leaked \union {<<q, m>>} ELSE leaked
             /\ UNCHANGED queues
          \/ /\ ~current
             /\ UNCHANGED <<queues, leaked>>
       /\ UNCHANGED <<exchanges, exFiles, qFiles, born, fresh, adrift, ghosts>>

(* A queue that got the message twice may have it once more. *)
TakeFrom(q, m) ==
    \/ queues' = [queues EXCEPT ![q].held = @ \ {m}]
    \/ <<q, m>> \in exposed /\ UNCHANGED queues
Holds(q, m) == queues[q] # None /\ m \in queues[q].held

(* An ack, a purge, and a rejection without a dead letter exchange take    *)
(* the message and then delete it from the file.                           *)
Settle(c, q, m) ==
    /\ MayStart(c) /\ Started(c)
    /\ Holds(q, m) /\ TakeFrom(q, m)
    /\ Goto(c, [Idle EXCEPT !.pc = "removing", !.q = q, !.m = m])
    /\ UNCHANGED <<exchanges, exFiles, qFiles, born, fresh, leaked, adrift, ghosts>>

(* basic.get with no-ack takes the message and leaves it in the file. *)
GetNoAck(c, q, m) ==
    /\ MayStart(c) /\ Started(c)
    /\ Holds(q, m) /\ TakeFrom(q, m)
    /\ leaked' = IF queues[q].kind.durable THEN leaked \union {<<q, m>>} ELSE leaked
    /\ UNCHANGED <<exchanges, exFiles, qFiles, handler, born, fresh, adrift, ghosts>>

(* A rejected message, and one that expired or was evicted by x-max-length *)
(* ("remove"), of a queue with a dead letter exchange.                     *)
Discard(c, q, m, flags) ==
    /\ MayStart(c) /\ Started(c)
    /\ Holds(q, m) /\ TakeFrom(q, m)
    /\ queues[q].kind.dlx # None
    /\ Goto(c, [Idle EXCEPT !.pc = "discarding", !.q = q, !.e = queues[q].kind.dlx, !.m = m, !.flags = flags])
    /\ UNCHANGED <<exchanges, exFiles, qFiles, born, fresh, leaked, adrift, ghosts>>

(* requeueMessage, for a message that expired since basic.recover looked   *)
(* at it: it is discarded like any expired message, and put back after all.*)
RequeueExpired(c, q, m) ==
    LET dlx == queues[q].kind.dlx
    IN /\ c # Admin /\ MayStart(c) /\ Started(c)
       /\ Holds(q, m) /\ TakeFrom(q, m)
       /\ Goto(c, [Idle EXCEPT !.pc = IF dlx # None THEN "discarding" ELSE "removing",
                               !.q = q, !.e = dlx, !.m = m, !.flags = {"remove"}, !.back = {<<q, queues[q].born>>}])
       /\ exposed' = exposed \union {<<q, m>>}
       /\ UNCHANGED <<exchanges, exFiles, qFiles, born, fresh, leaked, adrift, crashes, up>>

(* A handler is about to push the message to the queue, or took it from    *)
(* there and is not done with it.                                          *)
OnItsWay(q, m) ==
    \E c \in Conns :
        /\ handler[c].m = m
        /\ q \in {t[1] : t \in handler[c].to} \/ handler[c].q = q
Pending(q, m) == OnItsWay(q, m) \/ (qFiles[q] # None /\ m \in qFiles[q].messages)

(* handleDeadLetter: the message is published again under its own id.      *)
DeadLetter(c) ==
    LET h == handler[c]
        T == IF Publishable(h.e) THEN Route(h.e, KeyOf[h.m]) ELSE {}
        \* A topic exchange without a match accepts the message.
        ok == Publishable(h.e) /\ (T # {} \/ exchanges[h.e].kind.typ = "topic")
        source == queues[h.q] # None /\ queues[h.q].kind.durable
        again == {t[1] : t \in {x \in T : Pending(x[1], h.m)}} \union (IF T = {} THEN {} ELSE Twice(h.e))
    IN /\ At(c, "discarding") /\ Proceed(c)
       /\ Savable(T) = Durable(T) /\ qFiles' = Saved(Durable(T), h.m)
       /\ Goto(c, IF T # {} THEN [h EXCEPT !.pc = "pushing", !.to = T]
                  ELSE IF ok /\ "remove" \notin h.flags THEN Idle
                  ELSE [h EXCEPT !.pc = "removing"])
       /\ leaked' = IF ok /\ "remove" \notin h.flags /\ source THEN leaked \union {<<h.q, h.m>>} ELSE leaked
       /\ exposed' = exposed \union {<<q, h.m>> : q \in again}
       /\ UNCHANGED <<exchanges, queues, exFiles, born, fresh, crashes, up, adrift>>

(* A save fails: nothing is pushed, and the original is removed as without *)
(* a dead letter exchange.                                                 *)
DeadLetterFails(c) ==
    LET h == handler[c]
        T == Route(h.e, KeyOf[h.m])
    IN /\ At(c, "discarding") /\ Proceed(c)
       /\ Publishable(h.e) /\ Durable(T) # {}
       /\ \E S \in SUBSET Savable(T) :
            /\ qFiles' = Saved(S, h.m)
            /\ leaked' = leaked \union {<<q, h.m>> : q \in S}
       /\ Goto(c, [h EXCEPT !.pc = "removing"])
       /\ UNCHANGED <<exchanges, queues, exFiles, born, fresh, adrift, ghosts>>

\* Mutant: the settled message stays in the file.
NotRemoved(q, m) == qFiles
Removed(q, m) ==
    IF qFiles[q] = None THEN qFiles ELSE [qFiles EXCEPT ![q].messages = @ \ {m}]

(* deleteMessage; an error is ignored, and the entry stays.  What          *)
(* requeueMessage has in hand is pushed now.                               *)
RemoveMessage(c) ==
    LET h == handler[c]
    IN /\ At(c, "removing") /\ Proceed(c)
       /\ Goto(c, IF h.back = {} THEN Idle ELSE [Idle EXCEPT !.pc = "pushing", !.m = h.m, !.to = h.back])
       /\ \/ qFiles' = Removed(h.q, h.m) /\ UNCHANGED leaked
          \/ /\ h.m \in Listing(Registry, h.q)
             /\ leaked' = leaked \union {<<h.q, h.m>>}
             /\ UNCHANGED qFiles
       /\ UNCHANGED <<exchanges, queues, exFiles, born, fresh, adrift, ghosts>>

-----------------------------------------------------------------------------
(* The process dies, between two critical sections, or in one of those     *)
(* that write several files: a publish to several queues, and the deletion *)
(* of a queue, which removes its bindings one by one and its file last.    *)
PartlyDeleted(q) ==
    {[e \in ExNames |-> IF e \in S THEN KeptFile(Registry, e, {b \in Bindings(Registry, e) : b.queue = q}) ELSE exFiles[e]] :
        S \in SUBSET ExNames}

Crash ==
    /\ up /\ crashes < MaxCrashes
    /\ up' = FALSE /\ crashes' = crashes + 1
    /\ exchanges' = mandatory
    /\ queues' = [q \in QNames |-> None]
    /\ handler' = [c \in Conns |-> Idle]
    /\ conn' = [c \in Conns |-> "closed"]
    /\ \/ UNCHANGED <<exFiles, qFiles, fresh>>
       \/ \E c \in Conns : At(c, "deleting") /\ queues[handler[c].q] # None
                           /\ exFiles' \in PartlyDeleted(handler[c].q) /\ UNCHANGED <<qFiles, fresh>>
       \/ \E e \in ExNames, m \in fresh :
            /\ Publishable(e)
            /\ \E S \in SUBSET Savable(Route(e, KeyOf[m])) : qFiles' = Saved(S, m)
            /\ fresh' = fresh \ {m}
            /\ UNCHANGED exFiles
    /\ leaked' = {}
    /\ exposed' = {}
    /\ UNCHANGED <<born, requests, adrift>>

(* loadPersistedState.  A durable exclusive queue is skipped, with its     *)
(* bindings, and its file stays.  Exchanges come back without "internal",  *)
(* queues without their binding to the default exchange, and a message     *)
(* that does not fit into the channel is dropped.  BindQueue saves the     *)
(* bindings again, which only adds an entry if the file, after failures,   *)
(* is that of an earlier fanout exchange and has entries with other keys.  *)
Recoverable == {q \in QNames : qFiles[q] # None /\ ~qFiles[q].kind.exclusive}
RecoveredBindings(e, number) ==
    {[key |-> b.key, queue |-> b.queue, born |-> number[b.queue]] :
        b \in {x \in exFiles[e].bindings : x.queue \in Recoverable}}
Refiled(e) ==
    IF exFiles[e] = None THEN None
    ELSE [exFiles[e] EXCEPT !.bindings =
            @ \union {Entry(exFiles[e], b) : b \in {x \in exFiles[e].bindings : x.queue \in Recoverable}}]
(* What the files list and recovery does not take over. *)
Skipped ==
    {e \in ExNames : exFiles[e] # None /\ \E b \in exFiles[e].bindings : Entry(exFiles[e], b) # b}
    \union {q \in QNames \ Recoverable :
                qFiles[q] # None \/ \E e \in ExNames : exFiles[e] # None /\ \E b \in exFiles[e].bindings : b.queue = q}

Recover ==
    /\ ~up
    /\ up' = TRUE
    /\ born + Cardinality(Recoverable) <= MaxBorn
    /\ born' = born + Cardinality(Recoverable)
    /\ conn' = [c \in Conns |-> "open"]
    /\ \E number \in [Recoverable -> (born + 1)..born'], hold \in [Recoverable -> SUBSET Msgs] :
        /\ \A p, q \in Recoverable : p # q => number[p] # number[q]
        /\ \A q \in Recoverable :
            /\ hold[q] \subseteq qFiles[q].messages
            /\ hold[q] = qFiles[q].messages \/ Cardinality(hold[q]) = Capacity
        /\ queues' = [q \in QNames |->
                        IF q \in Recoverable
                        THEN [NewQueue(qFiles[q].kind, None, number[q]) EXCEPT !.held = hold[q]]
                        ELSE None]
        /\ exchanges' = [e \in ExNames \union {Default} |->
                            IF e = Default \/ exFiles[e] = None THEN mandatory[e]
                            ELSE [kind |-> [exFiles[e].kind EXCEPT !.internal = FALSE],
                                  bindings |-> RecoveredBindings(e, number),
                                  bound |-> RecoveredBindings(e, number) # {}]]
        /\ leaked' = UNION {{<<q, m>> : m \in qFiles[q].messages \ hold[q]} : q \in Recoverable}
    /\ \E X \in SUBSET Skipped : exFiles' = [e \in ExNames |-> IF e \in X THEN Refiled(e) ELSE exFiles[e]]
    /\ adrift' = Skipped
    /\ UNCHANGED <<qFiles, handler, requests, crashes, fresh, exposed>>

-----------------------------------------------------------------------------
Deletion == {{}, {"if-unused"}, {"if-empty"}, {"if-unused", "if-empty"}}

(* The requests of the management API; an import of definitions is a       *)
(* sequence of those that create something.                                *)
AdminRequest ==
    \/ \E e \in ExNames, k \in ExchangeKind : k \in ExchangeKinds[e] /\ AdminCreateExchange(e, k)
    \/ \E q \in QNames :
        \/ \E k \in QueueKinds[q] : AdminCreateQueue(q, k)
        \/ \E flags \in Deletion : AdminDeleteQueue(q, flags)
        \/ \E e \in ExNames \union {Default}, key \in BindKeys :
            AdminCreateBinding(e, q, key) \/ AdminDeleteBinding(e, q, key)
    \/ \E e \in ExNames \union {Default}, m \in Msgs : AdminPublish(e, m)

Next ==
    \/ \E c \in Conns :
        \/ \E e \in ExNames :
            \/ \E k \in ExchangeKinds[e] : DeclareExchange(c, e, k)
            \/ CheckExchangeUnused(c, e)
            \/ DeleteExchange(c, e)
        \/ \E q \in QNames :
            \/ \E k \in QueueKinds[q] : DeclareQueue(c, q, k)
            \/ \E e \in ExNames \union {Default}, key \in BindKeys :
                QueueBind(c, e, q, key) \/ QueueUnbind(c, e, q, key)
            \/ \E flags \in Deletion : CheckQueueDelete(c, q, flags)
            \/ RegisterConsumer(c, q)
            \/ CancelConsumer(c, q)
            \/ \E m \in Msgs :
                \/ Settle(c, q, m)
                \/ GetNoAck(c, q, m)
                \/ Discard(c, q, m, {}) \/ Discard(c, q, m, {"remove"})
                \/ RequeueExpired(c, q, m)
        \/ BindToDefaultExchange(c)
        \/ DeleteQueue(c)
        \/ \E e \in ExNames \union {Default}, m \in Msgs :
            BasicPublish(c, e, m) \/ PublishFails(c, e, m)
        \/ \E t \in handler[c].to : Push(c, t)
        \/ DeadLetter(c)
        \/ DeadLetterFails(c)
        \/ RemoveMessage(c)
    \/ \E c \in Clients : CleanupConnection(c)
    \/ AdminRequest
    \/ Crash
    \/ Recover

Spec == Init /\ [][Next]_vars

-----------------------------------------------------------------------------
(* The values the variables take. *)
TypeOK ==
    /\ exchanges \in [ExNames \union {Default} -> ExchangeObject \union {None}]
    /\ queues \in [QNames -> QueueObject \union {None}]
    /\ exFiles \in [ExNames -> ExchangeFile \union {None}]
    /\ qFiles \in [QNames -> QueueFile \union {None}]
    /\ conn \in [Conns -> {"open", "closing", "closed"}]
    /\ handler \in [Conns -> Request]
    /\ born \in 0..MaxBorn /\ requests \in 0..MaxRequests /\ crashes \in 0..MaxCrashes
    /\ up \in BOOLEAN /\ fresh \subseteq Msgs /\ adrift \subseteq ExNames \union {Default} \union QNames
    /\ leaked \subseteq QNames \X Msgs /\ exposed \subseteq QNames \X Msgs

(* Every binding leads to the queue object registered under its name, so a *)
(* message is never routed to a queue that was deleted, whatever order the *)
(* deletions, declarations, bindings and the recovery come in              *)
(* (queue.go:826, binding.go:28, vhost.go:281).                            *)
BindingsLive ==
    up => \A e \in DOMAIN exchanges : \A b \in Bindings(Registry, e) :
            queues[b.queue] # None /\ queues[b.queue].born = b.born

(* What a restart would rebuild from the files is the durable part of the  *)
(* registry: neither does anything durable miss its file, nor does a       *)
(* deleted exchange, queue or binding come back (exchange.go:147,          *)
(* queue.go:528, binding.go:118).  Left out are the names set adrift since *)
(* the process started: a save or a removal failed, which is logged and    *)
(* never tried again (exchange.go:190, queue.go:491, queue.go:575,         *)
(* binding.go:93, binding.go:152); the first of several bindings of one    *)
(* queue to a fanout exchange was unbound, which removes the one entry of  *)
(* all of them (binding.go:69, binding.go:152); recovery skipped the queue *)
(* as exclusive, or found bindings to a queue that has no file.            *)
SameKind(a, b) == [a EXCEPT !.internal = FALSE] = [b EXCEPT !.internal = FALSE]
RegistrySurvives ==
    up =>
    /\ \A e \in ExNames \ adrift :
        IF exchanges[e] # None /\ exchanges[e].kind.durable
        THEN /\ exFiles[e] # None
             /\ SameKind(exFiles[e].kind, exchanges[e].kind)
             /\ \A b \in FileBinding : b.queue \notin adrift =>
                    (b \in exFiles[e].bindings <=> b \in Entries(Registry, e, Binding))
        ELSE exFiles[e] = None
    /\ \A q \in QNames \ adrift :
        IF queues[q] # None /\ queues[q].kind.durable
        THEN qFiles[q] # None /\ qFiles[q].kind = queues[q].kind
        ELSE qFiles[q] = None

(* A persistent message that a durable queue holds is in the queue's file, *)
(* so a crash never loses it, whoever else publishes, settles, dead-letters*)
(* or deletes at the time, and whatever the store fails to do              *)
(* (message.go:149, message.go:362).  Left out are messages the queue got  *)
(* twice under one id, where whichever copy is settled first takes the     *)
(* file's entry with it: one dead-lettered to a queue that still has it,   *)
(* and one sent through two bindings of a fanout exchange; and a message   *)
(* requeueMessage found expired, whose entry is removed before the queue   *)
(* gets it back (recover.go:84).  A message a full channel dropped is not  *)
(* held (queue.go:648).                                                    *)
HeldOnDisk ==
    up => \A q \in QNames : queues[q] # None /\ queues[q].kind.durable =>
            \A m \in queues[q].held : <<q, m>> \in exposed \/ m \in Listing(Registry, q)

(* A message in a queue's file that the queue does not hold is on its way  *)
(* in or out, or was left there by one of these: a rejection that was      *)
(* dead-lettered (ack.go:183), a no-ack get, a full channel (queue.go:648),*)
(* a publish or a dead letter refused half-way (message.go:222), and a     *)
(* DeleteMessage that failed, which the code ignores (ack.go:42, ack.go:190,*)
(* message.go:366, queue.go:754).  No other path makes a settled message   *)
(* come back after a restart, unless the queue's own file was set adrift.  *)
SettledStaysSettled ==
    up => \A q \in QNames \ adrift : qFiles[q] # None =>
            \A m \in qFiles[q].messages :
                m \in queues[q].held \/ <<q, m>> \in leaked \/ OnItsWay(q, m)

(* An auto-delete exchange goes with its last binding and an auto-delete   *)
(* queue with its last consumer, whether they were unbound, cancelled, or  *)
(* lost with a queue or a connection (exchange.go:246, consumer.go:735).   *)
AutoDeleteHappens ==
    /\ \A e \in ExNames : exchanges[e] # None /\ exchanges[e].kind.autoDelete /\ exchanges[e].bound
            => exchanges[e].bindings # {}
    /\ \A q \in QNames : queues[q] # None /\ queues[q].kind.autoDelete /\ queues[q].consumed
            => queues[q].consumers # {}

(* A message published to a topic exchange goes to the queues bound with a *)
(* pattern that means its routing key (message.go:195, exchange.go:282).   *)
(* That MatchTopic decides what patterns mean, for all keys of up to       *)
(* MaxWords words, depends on no state and is evaluated before the first   *)
(* request only.                                                           *)
MatchesAsMeant ==
    /\ \A e \in ExNames, m \in Msgs : exchanges[e] # None /\ exchanges[e].kind.typ = "topic" =>
            Route(e, KeyOf[m]) = {<<b.queue, b.born>> : b \in {x \in exchanges[e].bindings : Means(KeyOf[m], x.key)}}
    /\ requests = 0 /\ crashes = 0 => AsMeant
=============================================================================
