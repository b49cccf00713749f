------------------------------ MODULE Lifecycle ------------------------------
(***************************************************************************)
(* The life of the broker's connections: accept, handshake, registration,  *)
(* the frame loop, heartbeats, panics, cleanup, and the shutdown of the    *)
(* process.  Each connection has a goroutine that serves it and one that   *)
(* waits for its context; every map that b.mu or b.connectionsMu protects  *)
(* is updated in a step of its own, because the goroutines interleave      *)
(* there.  A client may answer, fall silent or go away at any moment.  The *)
(* address that identifies a connection is not used by another connection  *)
(* before the first one is cleaned up.                                     *)
(***************************************************************************)
EXTENDS Naturals, FiniteSets

CONSTANTS
    Conns,      \* accepted sockets
    DefaultVH,  \* the vhost "/"
    OtherVH,    \* a vhost the management API creates and deletes
    VHostOf,    \* the vhost each client opens
    Heartbeats, \* the connections that negotiate heartbeats
    Talkers,    \* the connections whose clients send anything after the handshake
    MaxPanics   \* bound on the panics of handlers

ASSUME LifecycleAssumption ==
    /\ MaxPanics \in Nat /\ IsFiniteSet(Conns)
    /\ DefaultVH # OtherVH /\ VHostOf \in [Conns -> {DefaultVH, OtherVH}]
    /\ Heartbeats \subseteq Conns /\ Talkers \subseteq Conns

VARIABLES
    peer,       \* the client: "absent", "live", "silent" (sends nothing), "gone"
    sock,       \* the server's end of the socket: "none", "open", "closed"
    serve,      \* the goroutine of serveConn and handleConnection
    monitor,    \* the goroutine of monitorConnectionLifecycle
    cancelled,  \* the client's own context is cancelled
    request,    \* the method the frame loop is processing
    connInfos,  \* b.connInfos
    ids,        \* b.connections, b.connToID and b.cancelNotify
    closing,    \* connInfo.ClosingConnection
    cleaning,   \* how far the one effective cleanupConnection has come
    cleaner,    \* the goroutine that runs it
    cleanups,   \* number of times the vhost cleaned the connection up
    cleanedUp,  \* connInfo.MarkCleanedUp was called
    told,       \* connections the shutdown's connection.close was sent to
    active,     \* b.ActiveConns
    main,       \* the main goroutine
    targets,    \* connections BroadcastConnectionClose has yet to write to
    graceful,   \* ActiveConns.Wait returned
    vhosts,     \* b.vhosts
    stuck,      \* locks a panic left held: b.mu, vh.mu; and "overview": b.mu, held
                \* by a request of the management API that waits for that vh.mu
    panics

sockets == <<peer, sock, cancelled>>
registry == <<connInfos, ids, closing, vhosts>>
cleanup == <<cleaning, cleaner, cleanups, cleanedUp>>
process == <<main, targets, graceful, stuck, panics>>
vars == <<sockets, registry, cleanup, process, serve, monitor, request, told, active>>

Handshaking == {"handshake", "tuned"}
Methods == {"method", "close", "close-ok"}
None == "none"

Init ==
    /\ peer = [c \in Conns |-> "absent"]
    /\ sock = [c \in Conns |-> "none"]
    /\ serve = [c \in Conns |-> "none"]
    /\ monitor = [c \in Conns |-> "none"]
    /\ cancelled = [c \in Conns |-> FALSE]
    /\ request = [c \in Conns |-> None]
    /\ connInfos = {} /\ ids = {} /\ closing = {}
    /\ cleaning = [c \in Conns |-> None]
    /\ cleaner = [c \in Conns |-> None]
    /\ cleanups = [c \in Conns |-> 0]
    /\ cleanedUp = [c \in Conns |-> FALSE]
    /\ told = {}
    /\ active = 0
    /\ main = "running" /\ targets = {} /\ graceful = FALSE
    /\ vhosts = {DefaultVH}
    /\ stuck = {} /\ panics = 0

Up == main # "exited"
ShuttingDown == main \in {"shutting", "broadcasting", "waiting", "closing"}
(* The client's context is a child of the root context. *)
CtxDone(c) == cancelled[c] \/ main # "running"
LockFree == "b.mu" \notin stuck /\ "overview" \notin stuck

At(c, pc) == Up /\ serve[c] = pc
Goto(c, pc) == serve' = [serve EXCEPT ![c] = pc]

-----------------------------------------------------------------------------
(* The client and the network. *)
Connect(c) ==
    /\ Up /\ peer[c] = "absent"
    /\ peer' = [peer EXCEPT ![c] = "live"]
    /\ sock' = [sock EXCEPT ![c] = "open"]
    /\ UNCHANGED <<cancelled, registry, cleanup, process, serve, monitor, request, told, active>>

Silent(c) ==
    /\ Up /\ peer[c] = "live" /\ c \in Talkers
    /\ peer' = [peer EXCEPT ![c] = "silent"]
    /\ UNCHANGED <<sock, cancelled, registry, cleanup, process, serve, monitor, request, told, active>>

Gone(c) ==
    /\ Up /\ peer[c] \in {"live", "silent"}
    /\ peer' = [peer EXCEPT ![c] = "gone"]
    /\ UNCHANGED <<sock, cancelled, registry, cleanup, process, serve, monitor, request, told, active>>

(* client.CloseConn: cancels the context and closes the socket, once. *)
CloseConn(c) ==
    /\ cancelled' = [cancelled EXCEPT ![c] = TRUE]
    /\ sock' = [sock EXCEPT ![c] = "closed"]
    /\ UNCHANGED <<peer>>

Writable(c) == sock[c] = "open" /\ peer[c] # "gone"

-----------------------------------------------------------------------------
(* acceptLoop: the check and the Add are one critical section. *)
\* Mutant: the connection is counted by its own goroutine.
AcceptUncounted(c) ==
    /\ Up /\ serve[c] = "none" /\ sock[c] = "open" /\ LockFree
    /\ Goto(c, IF ShuttingDown THEN "done" ELSE "handshake")
    /\ sock' = IF ShuttingDown THEN [sock EXCEPT ![c] = "closed"] ELSE sock
    /\ active' = active
    /\ UNCHANGED <<peer, cancelled, registry, cleanup, process, monitor, request, told>>
Accept(c) ==
    /\ Up /\ serve[c] = "none" /\ sock[c] = "open" /\ LockFree
    /\ Goto(c, IF ShuttingDown THEN "done" ELSE "handshake")
    /\ sock' = IF ShuttingDown THEN [sock EXCEPT ![c] = "closed"] ELSE sock
    /\ active' = IF ShuttingDown THEN active ELSE active + 1
    /\ UNCHANGED <<peer, cancelled, registry, cleanup, process, monitor, request, told>>

(* handshake: the protocol header, start-ok with the credentials and       *)
(* tune-ok; from then on the client exists and its heartbeats run; and     *)
(* open, with a vhost the user has access to.  Whether the vhost exists is *)
(* not asked.                                                              *)
Handshake(c) ==
    /\ serve[c] \in Handshaking /\ Up
    /\ peer[c] = "live" /\ sock[c] = "open"
    /\ Goto(c, IF serve[c] = "handshake" THEN "tuned" ELSE "handshaken")
    /\ UNCHANGED <<peer, sock, cancelled, registry, cleanup, process, monitor, request, told, active>>

(* It fails on a bad header, credentials, limits or vhost, on a panic, a   *)
(* lost client or the handshake timeout, and serveConn returns.            *)
HandshakeFails(c) ==
    /\ serve[c] \in Handshaking /\ Up
    /\ CloseConn(c)
    /\ Goto(c, "done")
    /\ active' = active - 1
    /\ UNCHANGED <<registry, cleanup, process, monitor, request, told>>

(* registerConnection, in two critical sections. *)
\* Mutant: the broker's shutdown is not looked at again.
RegisterUnchecked(c) ==
    /\ At(c, "handshaken") /\ LockFree
    /\ connInfos' = connInfos \union {c}
    /\ Goto(c, "registering")
    /\ UNCHANGED <<sockets, active, ids, closing, vhosts, cleanup, process, monitor, request, told>>
RegisterInfo(c) ==
    /\ At(c, "handshaken") /\ LockFree
    /\ IF ShuttingDown
       THEN /\ CloseConn(c)
            /\ Goto(c, "done")
            /\ active' = active - 1
            /\ UNCHANGED connInfos
       ELSE /\ connInfos' = connInfos \union {c}
            /\ Goto(c, "registering")
            /\ UNCHANGED <<sockets, active>>
    /\ UNCHANGED <<ids, closing, vhosts, cleanup, process, monitor, request, told>>

RegisterID(c) ==
    /\ At(c, "registering")
    /\ ids' = ids \union {c}
    /\ monitor' = [monitor EXCEPT ![c] = "waiting"]
    /\ active' = active + 1
    /\ Goto(c, "reading")
    /\ UNCHANGED <<sockets, connInfos, closing, vhosts, cleanup, process, request, told>>

-----------------------------------------------------------------------------
(* The frame loop of handleConnection. *)

(* The socket was closed by either side, or the frame cannot be parsed. *)
ReadFails(c) ==
    /\ At(c, "reading")
    /\ \/ sock[c] = "closed" \/ peer[c] = "gone"
       \/ peer[c] = "live" /\ c \in Talkers
    /\ cancelled' = [cancelled EXCEPT ![c] = TRUE]
    /\ Goto(c, "leaving")
    /\ UNCHANGED <<peer, sock, registry, cleanup, process, monitor, request, told, active>>

FrameTooLarge(c) ==
    /\ c \in Talkers
    /\ At(c, "reading") /\ sock[c] = "open" /\ peer[c] = "live"
    /\ CloseConn(c)
    /\ Goto(c, "leaving")
    /\ UNCHANGED <<registry, cleanup, process, monitor, request, told, active>>

(* A frame is read and counts as a heartbeat, unless the connection is     *)
(* being torn down.                                                        *)
ReadFrame(c, kind) ==
    /\ c \in Talkers
    /\ At(c, "reading") /\ sock[c] = "open" /\ peer[c] = "live"
    /\ IF CtxDone(c)
       THEN /\ CloseConn(c)
            /\ Goto(c, "leaving")
            /\ UNCHANGED request
       ELSE /\ request' = [request EXCEPT ![c] = kind]
            /\ Goto(c, "request")
            /\ UNCHANGED sockets
    /\ UNCHANGED <<registry, cleanup, process, monitor, told, active>>

(* processRequest ignores a request of a connection that is gone or        *)
(* closing, or whose vhost is gone; connection.close and close-ok pass a   *)
(* closing connection and a broker that shuts down.                        *)
Served(c) ==
    /\ c \in connInfos
    /\ VHostOf[c] \in vhosts
    /\ (c \in closing \/ ShuttingDown) => request[c] \in {"close", "close-ok"}

Ignore(c) ==
    /\ At(c, "request") /\ LockFree
    /\ ~Served(c)
    /\ request' = [request EXCEPT ![c] = None]
    /\ Goto(c, "reading")
    /\ UNCHANGED <<sockets, registry, cleanup, process, monitor, told, active>>

(* close-ok is sent and the connection marked; an error of the write ends  *)
(* the loop.                                                               *)
CloseRequested(c) ==
    /\ At(c, "request") /\ LockFree
    /\ Served(c) /\ request[c] = "close"
    /\ closing' = closing \union {c}
    /\ request' = [request EXCEPT ![c] = None]
    /\ \/ /\ Goto(c, "reading")
          /\ UNCHANGED cancelled
       \/ /\ ~Writable(c)
          /\ cancelled' = [cancelled EXCEPT ![c] = TRUE]
          /\ Goto(c, "leaving")
    /\ UNCHANGED <<peer, sock, connInfos, ids, vhosts, cleanup, process, monitor, told, active>>

StartMethod(c) ==
    /\ At(c, "request") /\ LockFree
    /\ Served(c) /\ request[c] = "method"
    /\ Goto(c, "handling")
    /\ UNCHANGED <<sockets, registry, cleanup, process, monitor, request, told, active>>

(* The handler returns, needing the locks on its way; an error closes the  *)
(* connection if it can be told, and ends the loop if not.                 *)
EndMethod(c) ==
    /\ At(c, "handling") /\ stuck = {}
    /\ request' = [request EXCEPT ![c] = None]
    /\ \/ /\ Goto(c, "reading")
          /\ UNCHANGED <<closing, cancelled>>
       \/ /\ Writable(c)
          /\ closing' = IF c \in connInfos THEN closing \union {c} ELSE closing
          /\ Goto(c, "reading")
          /\ UNCHANGED cancelled
       \/ /\ ~Writable(c)
          /\ cancelled' = [cancelled EXCEPT ![c] = TRUE]
          /\ Goto(c, "leaving")
          /\ UNCHANGED closing
    /\ UNCHANGED <<peer, sock, connInfos, ids, vhosts, cleanup, process, monitor, told, active>>

(* A handler panics, perhaps with a lock held that it does not defer.      *)
Panic(c) ==
    /\ At(c, "handling") /\ panics < MaxPanics
    /\ panics' = panics + 1
    /\ \E L \in {{}, {"b.mu"}, {"vh.mu"}} : stuck' = stuck \union L
    /\ request' = [request EXCEPT ![c] = None]
    /\ Goto(c, "panicked")
    /\ UNCHANGED <<sockets, registry, cleanup, main, targets, graceful, monitor, told, active>>

(* handleConnectionPanic calls cleanupConnection and waits for the end of  *)
(* the cleanup, whoever runs it.  If a held lock blocks either, it takes   *)
(* longer than the timeout, and the process exits.                         *)
PanicCleaned(c) ==
    /\ At(c, "panicked") /\ LockFree /\ c \notin connInfos /\ cleanedUp[c]
    /\ CloseConn(c)
    /\ Goto(c, "leaving")
    /\ UNCHANGED <<registry, cleanup, process, monitor, request, told, active>>

\* Mutant: the watchdog is missing.
NoWatchdog(c) == FALSE /\ UNCHANGED vars
PanicTimeout(c) ==
    /\ At(c, "panicked")
    /\ ~LockFree \/ (~cleanedUp[c] /\ stuck # {})
    /\ main' = "exited"
    /\ UNCHANGED <<sockets, registry, cleanup, targets, graceful, stuck, panics, serve, monitor, request, told, active>>

(* The deferred function: cleans up unless someone else did or does. *)
Leave(c) ==
    /\ At(c, "leaving") /\ LockFree
    /\ c \notin connInfos
    /\ cleaner[c] # "serve" \/ cleaning[c] = None
    /\ Goto(c, "done")
    /\ active' = active - 2
    /\ UNCHANGED <<sockets, registry, cleanup, process, monitor, request, told>>

-----------------------------------------------------------------------------
(* cleanupConnection.  Whoever removes the connection from b.connInfos     *)
(* does the rest; for everybody else it does nothing.                      *)

(* The goroutines that call it: the monitor when the context is done, the  *)
(* frame loop at its end and for close-ok, and the watchdog of a panic.    *)
Cleaners(c) ==
    (IF monitor[c] = "waiting" /\ CtxDone(c) THEN {"monitor"} ELSE {})
    \union (IF serve[c] = "leaving" THEN {"serve"} ELSE {})
    \union (IF serve[c] = "request" /\ request[c] = "close-ok" /\ Served(c) THEN {"serve"} ELSE {})
    \union (IF serve[c] = "panicked" THEN {"watchdog"} ELSE {})

CleanInfo(c) ==
    /\ Up /\ LockFree /\ c \in connInfos
    /\ \E by \in Cleaners(c) :
        /\ cleaner' = [cleaner EXCEPT ![c] = by]
        /\ monitor' = IF by = "monitor" THEN [monitor EXCEPT ![c] = "cleaning"] ELSE monitor
        /\ IF by = "serve" /\ serve[c] = "request" THEN Goto(c, "closed") ELSE UNCHANGED serve
    /\ connInfos' = connInfos \ {c}
    /\ closing' = closing \ {c}
    /\ cleaning' = [cleaning EXCEPT ![c] = "ids"]
    /\ UNCHANGED <<sockets, ids, vhosts, cleanups, cleanedUp, process, request, told, active>>

\* Mutant: the entries are keyed by the id, which the first map has forgotten.
KeepIds(c) ==
    /\ Up /\ cleaning[c] = "ids"
    /\ ids' = ids
    /\ cleaning' = [cleaning EXCEPT ![c] = "socket"]
    /\ UNCHANGED <<sockets, connInfos, closing, vhosts, cleaner, cleanups, cleanedUp, process, serve, monitor, request, told, active>>
CleanIds(c) ==
    /\ Up /\ cleaning[c] = "ids"
    /\ ids' = ids \ {c}
    /\ cleaning' = [cleaning EXCEPT ![c] = "socket"]
    /\ UNCHANGED <<sockets, connInfos, closing, vhosts, cleaner, cleanups, cleanedUp, process, serve, monitor, request, told, active>>

(* Closing the socket is what unblocks the reader. *)
\* Mutant: the context is cancelled and the socket left open.
CancelOnly(c) ==
    /\ Up /\ cleaning[c] = "socket"
    /\ cancelled' = [cancelled EXCEPT ![c] = TRUE]
    /\ cleaning' = [cleaning EXCEPT ![c] = "vhost"]
    /\ UNCHANGED <<peer, sock, registry, cleaner, cleanups, cleanedUp, process, serve, monitor, request, told, active>>
CleanSocket(c) ==
    /\ Up /\ cleaning[c] = "socket"
    /\ CloseConn(c)
    /\ cleaning' = [cleaning EXCEPT ![c] = "vhost"]
    /\ UNCHANGED <<registry, cleaner, cleanups, cleanedUp, process, serve, monitor, request, told, active>>

CleanVHost(c) ==
    /\ Up /\ cleaning[c] = "vhost" /\ stuck = {}
    /\ cleanups' = IF VHostOf[c] \in vhosts THEN [cleanups EXCEPT ![c] = @ + 1] ELSE cleanups
    /\ cleanedUp' = [cleanedUp EXCEPT ![c] = TRUE]
    /\ cleaning' = [cleaning EXCEPT ![c] = None]
    /\ monitor' = IF cleaner[c] = "monitor" THEN [monitor EXCEPT ![c] = "done"] ELSE monitor
    /\ IF serve[c] = "closed" THEN Goto(c, "reading") ELSE UNCHANGED serve
    /\ request' = IF serve[c] = "closed" THEN [request EXCEPT ![c] = None] ELSE request
    /\ UNCHANGED <<sockets, registry, cleaner, process, told, active>>

(* The monitor finds the connection removed already. *)
MonitorEnds(c) ==
    /\ Up /\ LockFree /\ monitor[c] = "waiting" /\ CtxDone(c)
    /\ c \notin connInfos
    /\ monitor' = [monitor EXCEPT ![c] = "done"]
    /\ UNCHANGED <<sockets, registry, cleanup, process, serve, request, told, active>>

-----------------------------------------------------------------------------
(* Heartbeats, which run from tune-ok until the context is done. *)
HeartbeatRuns(c) ==
    /\ Up /\ c \in Heartbeats /\ ~CtxDone(c)
    /\ serve[c] \notin {"none", "handshake", "done"}

HeartbeatTimeout(c) ==
    /\ HeartbeatRuns(c) /\ peer[c] # "live"
    /\ CloseConn(c)
    /\ UNCHANGED <<registry, cleanup, process, serve, monitor, request, told, active>>

HeartbeatPanic(c) ==
    /\ HeartbeatRuns(c) /\ panics < MaxPanics
    /\ panics' = panics + 1
    /\ CloseConn(c)
    /\ UNCHANGED <<registry, cleanup, main, targets, graceful, stuck, serve, monitor, request, told, active>>

-----------------------------------------------------------------------------
(* The management API. *)
CloseConnection(c) ==
    /\ Up /\ LockFree
    /\ c \in connInfos /\ c \in ids /\ c \notin closing
    /\ Writable(c)
    /\ closing' = closing \union {c}
    /\ UNCHANGED <<sockets, connInfos, ids, vhosts, cleanup, process, serve, monitor, request, told, active>>

CreateVHost ==
    /\ Up /\ LockFree
    /\ OtherVH \notin vhosts
    /\ vhosts' = vhosts \union {OtherVH}
    /\ UNCHANGED <<sockets, connInfos, ids, closing, cleanup, process, serve, monitor, request, told, active>>

DeleteVHost ==
    /\ Up /\ LockFree
    /\ OtherVH \in vhosts
    /\ \A c \in connInfos : VHostOf[c] # OtherVH
    /\ vhosts' = vhosts \ {OtherVH}
    /\ UNCHANGED <<sockets, connInfos, ids, closing, cleanup, process, serve, monitor, request, told, active>>

(* The overview asks every vhost for its totals with b.mu held: one whose  *)
(* vh.mu was left held keeps the request, and b.mu with it.  With vh.mu    *)
(* free it changes nothing.  (If the vhost was deleted since, the code     *)
(* does not ask it; that is not told apart here.)                          *)
Overview ==
    /\ Up /\ LockFree
    /\ "vh.mu" \in stuck
    /\ stuck' = stuck \union {"overview"}
    /\ UNCHANGED <<sockets, registry, cleanup, main, targets, graceful, panics, serve, monitor, request, told, active>>

-----------------------------------------------------------------------------
(* The main goroutine: the root context is cancelled before the broker is  *)
(* marked and connection.close is broadcast.                               *)
MainGoes(from, to) == main = from /\ main' = to
offMain == <<sockets, registry, cleanup, stuck, panics, serve, monitor, request, active>>

Signal ==
    /\ MainGoes("running", "cancelled")
    /\ UNCHANGED <<offMain, targets, graceful, told>>

BeginShutdown ==
    /\ MainGoes("cancelled", "shutting") /\ LockFree
    /\ UNCHANGED <<offMain, targets, graceful, told>>

BroadcastConnectionClose ==
    /\ MainGoes("shutting", "broadcasting") /\ LockFree
    /\ targets' = connInfos
    /\ UNCHANGED <<offMain, graceful, told>>

(* One of the parallel writes; a client that does not read is disconnected *)
(* after the write deadline.                                               *)
BroadcastTo(c) ==
    /\ main = "broadcasting" /\ c \in targets
    /\ targets' = targets \ {c}
    /\ \/ /\ Writable(c)
          /\ told' = told \union {c}
          /\ UNCHANGED sockets
       \/ /\ ~(Writable(c) /\ peer[c] = "live")
          /\ CloseConn(c)
          /\ UNCHANGED told
    /\ UNCHANGED <<registry, cleanup, main, graceful, stuck, panics, serve, monitor, request, active>>

WaitForConns ==
    /\ MainGoes("broadcasting", "waiting") /\ targets = {}
    /\ UNCHANGED <<offMain, targets, graceful, told>>

(* Either every connection is done, or ten seconds have passed. *)
Waited ==
    /\ MainGoes("waiting", "closing")
    /\ graceful' \in {active = 0, FALSE}
    /\ UNCHANGED <<offMain, targets, told>>

Shutdown ==
    /\ MainGoes("closing", "exited") /\ LockFree
    /\ cancelled' = [c \in Conns |-> cancelled[c] \/ c \in connInfos]
    /\ sock' = [c \in Conns |-> IF c \in connInfos THEN "closed" ELSE sock[c]]
    /\ UNCHANGED <<peer, registry, cleanup, targets, graceful, stuck, panics, serve, monitor, request, told, active>>

-----------------------------------------------------------------------------
Serving(c) ==
    \/ Accept(c)
    \/ HandshakeFails(c)
    \/ RegisterInfo(c) \/ RegisterID(c)
    \/ Ignore(c) \/ CloseRequested(c) \/ StartMethod(c) \/ EndMethod(c)
    \/ PanicCleaned(c) \/ PanicTimeout(c)
    \/ Leave(c)

Cleaning(c) == CleanInfo(c) \/ CleanIds(c) \/ CleanSocket(c) \/ CleanVHost(c) \/ MonitorEnds(c)

Main ==
    \/ BeginShutdown \/ BroadcastConnectionClose
    \/ \E c \in Conns : BroadcastTo(c)
    \/ WaitForConns \/ Waited \/ Shutdown

Next ==
    \/ \E c \in Conns :
        \/ Connect(c) \/ Silent(c) \/ Gone(c)
        \/ Handshake(c)
        \/ ReadFails(c) \/ FrameTooLarge(c)
        \/ \E kind \in Methods : ReadFrame(c, kind)
        \/ Panic(c) \/ HeartbeatTimeout(c) \/ HeartbeatPanic(c)
        \/ CloseConnection(c)
        \/ Serving(c) \/ Cleaning(c)
    \/ CreateVHost \/ DeleteVHost \/ Overview
    \/ Signal \/ Main

Spec == Init /\ [][Next]_vars

(* The scheduler runs every goroutine that can run, deadlines and timers   *)
(* expire, and a read of a closed socket returns.  A method that does not  *)
(* panic returns, once its locks are free: the deadlock of a purge, which  *)
(* Locks shows, is left out.  Clients are not fair.                        *)
Fairness ==
    /\ WF_vars(Main)
    /\ \A c \in Conns :
        /\ WF_vars(Serving(c))
        /\ WF_vars(Cleaning(c))
        /\ WF_vars(ReadFails(c) /\ (sock[c] = "closed" \/ peer[c] = "gone"))
        /\ WF_vars(HeartbeatTimeout(c))

FairSpec == Spec /\ Fairness

-----------------------------------------------------------------------------
(* The values the variables take. *)
TypeOK ==
    /\ peer \in [Conns -> {"absent", "live", "silent", "gone"}]
    /\ sock \in [Conns -> {"none", "open", "closed"}]
    /\ serve \in [Conns -> Handshaking \union {"none", "handshaken", "registering", "reading", "request",
                                               "handling", "panicked", "closed", "leaving", "done"}]
    /\ monitor \in [Conns -> {"none", "waiting", "cleaning", "done"}]
    /\ cancelled \in [Conns -> BOOLEAN]
    /\ request \in [Conns -> Methods \union {None}]
    /\ connInfos \subseteq Conns /\ ids \subseteq Conns /\ closing \subseteq Conns /\ told \subseteq Conns
    /\ cleaning \in [Conns -> {None, "ids", "socket", "vhost"}]
    /\ cleaner \in [Conns -> {None, "monitor", "serve", "watchdog"}]
    /\ cleanups \in [Conns -> Nat] /\ cleanedUp \in [Conns -> BOOLEAN]
    /\ active \in 0..2 * Cardinality(Conns)
    /\ main \in {"running", "cancelled", "shutting", "broadcasting", "waiting", "closing", "exited"}
    /\ targets \subseteq Conns /\ graceful \in BOOLEAN
    /\ vhosts \subseteq {DefaultVH, OtherVH}
    /\ stuck \subseteq {"b.mu", "vh.mu", "overview"} /\ panics \in 0..MaxPanics

(* A connection is cleaned up at most once, however many goroutines notice *)
(* its end, and once its goroutines are done it is in no map and its       *)
(* socket is closed (connection.go:185, recover.go:66).                    *)
NothingLeft ==
    \A c \in Conns :
        /\ cleanups[c] <= 1
        /\ serve[c] = "done" /\ monitor[c] \in {"none", "done"} /\ Up =>
            c \notin connInfos \union ids /\ sock[c] = "closed"

(* When main stops waiting because ActiveConns is zero, no goroutine       *)
(* serves a connection and none will: no Add follows the Wait              *)
(* (broker.go:230, connection.go:19).                                      *)
WaitIsFinal ==
    graceful => \A c \in Conns : serve[c] \in {"none", "done"}

(* No connection lives on in a broker that has broadcast its shutdown      *)
(* without having been sent connection.close (connection.go:152).          *)
ShutdownReachesAll ==
    main \in {"waiting", "closing"} =>
        \A c \in connInfos : c \in told \/ sock[c] = "closed" \/ peer[c] = "gone"

(* A connection whose client is gone, or is silent while the handshake or  *)
(* the heartbeat watches it, is eventually forgotten by every map and its  *)
(* socket closed, unless the process ends (client.go:175, broker.go:300),  *)
(* or a panic left vh.mu held after its own connection had been cleaned    *)
(* up, which the watchdog does not notice (recover.go:66).                 *)
Forgotten(c) == serve[c] = "done" /\ c \notin connInfos \union ids /\ sock[c] = "closed"
Watched(c) ==
    /\ serve[c] # "none"
    /\ \/ peer[c] = "gone"
       \/ peer[c] = "silent" /\ (c \in Heartbeats \/ serve[c] \in Handshaking)
DeadAreForgotten == \A c \in Conns : Watched(c) ~> (Forgotten(c) \/ ~Up \/ "vh.mu" \in stuck)

(* A panic in a handler ends in the cleanup of its connection or, if it    *)
(* left a lock held, in the end of the process (recover.go:12).  The       *)
(* exception: it left vh.mu held, its connection had been cleaned up       *)
(* before, so that the watchdog saw nothing of it, and an overview now     *)
(* keeps b.mu while it waits (broker.go:930, broker.go:967).               *)
PanicResolves == \A c \in Conns : serve[c] = "panicked" ~> (Forgotten(c) \/ ~Up \/ "overview" \in stuck)

(* Once the signal has arrived the process ends, whatever the clients do   *)
(* and whichever lock a panic left held (main.go:89), unless an overview   *)
(* waits for that vh.mu with b.mu held, which BeginShutdown needs: then    *)
(* not even a signal ends the process.                                     *)
ShutdownEnds == (main = "cancelled") ~> (~Up \/ "overview" \in stuck)
=============================================================================
