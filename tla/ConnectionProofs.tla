--------------------------- MODULE ConnectionProofs ---------------------------
(***************************************************************************)
(* Proofs about a connection, in two independent parts.  Lifecycle, for    *)
(* any number of connections: ActiveConns counts what it should, so that   *)
(* main waits for every connection and for no other; the broadcast of the  *)
(* shutdown reaches every connection; and a connection is cleaned up once  *)
(* and leaves nothing behind.  FrameLoop, for any messages, limits and     *)
(* channels: what is published is what was sent, or the client is told.    *)
(***************************************************************************)
EXTENDS Lifecycle, FrameLoop, FiniteSetTheorems, TLAPS

(* The states of serveConn in which ActiveConns counts the connection, and *)
(* those in which handleConnection counts it once more.                    *)
Registered == {"reading", "request", "handling", "panicked", "closed", "leaving"}
Counted == Handshaking \union {"handshaken", "registering"} \union Registered
Unregistered == {"none", "handshaken"} \union Handshaking
ServeStates == Counted \union {"none", "done"}
Busy == {c \in Conns : serve[c] \in Counted}
InLoop == {c \in Conns : serve[c] \in Registered}

(* The types, without the bound on ActiveConns. *)
Types ==
    /\ peer \in [Conns -> {"absent", "live", "silent", "gone"}]
    /\ sock \in [Conns -> {"none", "open", "closed"}]
    /\ serve \in [Conns -> ServeStates]
    /\ monitor \in [Conns -> {"none", "waiting", "cleaning", "done"}]
    /\ cancelled \in [Conns -> BOOLEAN]
    /\ request \in [Conns -> Methods \union {None}]
    /\ connInfos \subseteq Conns /\ ids \subseteq Conns /\ closing \subseteq Conns /\ told \subseteq Conns
    /\ cleaning \in [Conns -> {None, "ids", "socket", "vhost"}]
    /\ cleaner \in [Conns -> {None, "monitor", "serve", "watchdog"}]
    /\ cleanups \in [Conns -> Nat] /\ cleanedUp \in [Conns -> BOOLEAN]
    /\ active \in Int
    /\ main \in {"running", "cancelled", "shutting", "broadcasting", "waiting", "closing", "exited"}
    /\ targets \subseteq Conns /\ graceful \in BOOLEAN
    /\ vhosts \subseteq {DefaultVH, OtherVH}
    /\ stuck \subseteq {"b.mu", "vh.mu", "overview"} /\ panics \in 0..MaxPanics

ActiveCounts == active = Cardinality(Busy) + Cardinality(InLoop)

GracefulIsLate == graceful => main \in {"closing", "exited"}

(* A client the server has accepted is there, and its socket is not opened *)
(* a second time.                                                          *)
SocketOf(c) ==
    /\ sock[c] = "none" <=> peer[c] = "absent"
    /\ serve[c] # "none" => sock[c] # "none"
    /\ c \in targets => serve[c] # "none"

(* The broadcast has reached the connection, or need not. *)
Reached(c) == c \in told \/ sock[c] = "closed" \/ peer[c] = "gone"

BroadcastInv ==
    /\ main = "broadcasting" => \A c \in connInfos : c \in targets \/ Reached(c)
    /\ ShutdownReachesAll

(* The life of a connection in the maps: before registerConnection it is   *)
(* in none; from then until cleanupConnection takes it, in both; after     *)
(* that the one cleaner takes it out of the rest, and closes the socket.   *)
InMaps(c) ==
    /\ serve[c] \in Unregistered =>
          c \notin connInfos \union ids /\ monitor[c] = "none" /\ cleaning[c] = None
          /\ cleanups[c] = 0 /\ ~cleanedUp[c]
    /\ serve[c] = "registering" => c \in connInfos /\ c \notin ids /\ monitor[c] = "none"
    /\ serve[c] = "done" => c \notin connInfos
    /\ c \in connInfos => cleaning[c] = None /\ cleanups[c] = 0 /\ ~cleanedUp[c]
    /\ cleaning[c] = None /\ c \notin connInfos /\ serve[c] \notin Unregistered =>
          c \notin ids /\ sock[c] = "closed"
    /\ cleanups[c] <= 1

(* Whoever removed the connection from b.connInfos is still at it. *)
OneCleaner(c) ==
    /\ cleaning[c] # None =>
          /\ c \notin connInfos /\ cleanups[c] = 0 /\ ~cleanedUp[c]
          /\ cleaner[c] # None
          /\ cleaner[c] = "serve" => serve[c] \in {"leaving", "closed"}
          /\ cleaner[c] = "watchdog" => serve[c] = "panicked"
          /\ cleaner[c] = "monitor" => monitor[c] = "cleaning"
    /\ cleaning[c] \in {"socket", "vhost"} => c \notin ids
    /\ cleaning[c] = "vhost" => sock[c] = "closed"
    /\ serve[c] = "closed" => cleaning[c] # None /\ cleaner[c] = "serve"
    /\ monitor[c] = "cleaning" => cleaning[c] # None /\ cleaner[c] = "monitor"

ConnInv == \A c \in Conns : SocketOf(c) /\ InMaps(c) /\ OneCleaner(c)

IInv == Types /\ ActiveCounts /\ GracefulIsLate /\ WaitIsFinal /\ BroadcastInv /\ ConnInv

-----------------------------------------------------------------------------
LEMMA TypesInit == Init => Types
<1> SUFFICES ASSUME Init PROVE Types
  OBVIOUS
<1>1. panics \in 0..MaxPanics /\ active \in Int /\ cleanups \in [Conns -> Nat]
  BY LifecycleAssumption DEF Init
<1>2. serve \in [Conns -> ServeStates] /\ cancelled \in [Conns -> BOOLEAN] /\ cleanedUp \in [Conns -> BOOLEAN]
  BY DEF Init, ServeStates
<1> QED
  BY <1>1, <1>2 DEF Init, Types

LEMMA TypesNext == Types /\ [Next]_vars => Types'
<1> SUFFICES ASSUME Types, [Next]_vars PROVE Types'
  OBVIOUS
<1> USE LifecycleAssumption DEF sockets, registry, cleanup, process, offMain, Goto, CloseConn, MainGoes
<1>1. ASSUME NEW c \in Conns, Connect(c) PROVE Types'
  BY <1>1 DEF Connect, Types
<1>2. ASSUME NEW c \in Conns, Silent(c) PROVE Types'
  BY <1>2 DEF Silent, Types
<1>3. ASSUME NEW c \in Conns, Gone(c) PROVE Types'
  BY <1>3 DEF Gone, Types
<1>4. ASSUME NEW c \in Conns, Accept(c) PROVE Types'
  BY <1>4 DEF Accept, Types, ServeStates, Counted, Handshaking, Registered
<1>5. ASSUME NEW c \in Conns, Handshake(c) PROVE Types'
  BY <1>5 DEF Handshake, Types, ServeStates, Counted, Handshaking, Registered
<1>6. ASSUME NEW c \in Conns, HandshakeFails(c) PROVE Types'
  BY <1>6 DEF HandshakeFails, Types, ServeStates, Counted, Handshaking, Registered
<1>7. ASSUME NEW c \in Conns, RegisterInfo(c) PROVE Types'
  <2>1. CASE ShuttingDown
    <3>0. sock' = [sock EXCEPT ![c] = "closed"] /\ cancelled' = [cancelled EXCEPT ![c] = TRUE]
      BY <1>7, <2>1 DEF RegisterInfo
    <3>1. sock' \in [Conns -> {"none", "open", "closed"}] /\ cancelled' \in [Conns -> BOOLEAN]
      BY <3>0 DEF Types
    <3>2. serve' \in [Conns -> ServeStates]
      BY <1>7, <2>1 DEF RegisterInfo, Types, ServeStates, Counted, Handshaking, Registered
    <3> QED
      BY <1>7, <2>1, <3>1, <3>2 DEF RegisterInfo, Types
  <2>2. CASE ~ShuttingDown
    BY <1>7, <2>2 DEF RegisterInfo, Types, ServeStates, Counted, Handshaking, Registered
  <2> QED
    BY <2>1, <2>2
<1>8. ASSUME NEW c \in Conns, RegisterID(c) PROVE Types'
  BY <1>8 DEF RegisterID, Types, ServeStates, Counted, Handshaking, Registered
<1>9. ASSUME NEW c \in Conns, ReadFails(c) PROVE Types'
  BY <1>9 DEF ReadFails, Types, ServeStates, Counted, Handshaking, Registered
<1>10. ASSUME NEW c \in Conns, FrameTooLarge(c) PROVE Types'
  BY <1>10 DEF FrameTooLarge, Types, ServeStates, Counted, Handshaking, Registered
<1>11. ASSUME NEW c \in Conns, Ignore(c) PROVE Types'
  BY <1>11 DEF Ignore, Types, ServeStates, Counted, Handshaking, Registered, Methods
<1>12. ASSUME NEW c \in Conns, CloseRequested(c) PROVE Types'
  <2>1. request' \in [Conns -> Methods \union {None}] /\ closing' \subseteq Conns
    BY <1>12 DEF CloseRequested, Types
  <2>2. CASE Goto(c, "reading") /\ UNCHANGED cancelled
    BY <1>12, <2>1, <2>2 DEF CloseRequested, Types, ServeStates, Counted, Handshaking, Registered
  <2>3. CASE cancelled' = [cancelled EXCEPT ![c] = TRUE] /\ Goto(c, "leaving")
    BY <1>12, <2>1, <2>3 DEF CloseRequested, Types, ServeStates, Counted, Handshaking, Registered
  <2> QED
    BY <1>12, <2>2, <2>3 DEF CloseRequested
<1>13. ASSUME NEW c \in Conns, StartMethod(c) PROVE Types'
  BY <1>13 DEF StartMethod, Types, ServeStates, Counted, Handshaking, Registered
<1>14. ASSUME NEW c \in Conns, EndMethod(c) PROVE Types'
  <2>1. request' \in [Conns -> Methods \union {None}]
    BY <1>14 DEF EndMethod, Types
  <2>2. CASE Goto(c, "reading") /\ UNCHANGED cancelled
    <3>1. closing' \subseteq Conns
      BY <1>14 DEF EndMethod, Types
    <3> QED
      BY <1>14, <2>1, <2>2, <3>1 DEF EndMethod, Types, ServeStates, Counted, Handshaking, Registered
  <2>3. CASE cancelled' = [cancelled EXCEPT ![c] = TRUE] /\ Goto(c, "leaving") /\ UNCHANGED closing
    BY <1>14, <2>1, <2>3 DEF EndMethod, Types, ServeStates, Counted, Handshaking, Registered
  <2> QED
    BY <1>14, <2>2, <2>3 DEF EndMethod
<1>15. ASSUME NEW c \in Conns, Panic(c) PROVE Types'
  <2>1. request' \in [Conns -> Methods \union {None}]
    BY <1>15 DEF Panic, Types
  <2>2. panics' \in 0..MaxPanics
    BY <1>15 DEF Panic, Types
  <2>3. stuck' \subseteq {"b.mu", "vh.mu", "overview"}
    <3>1. stuck \subseteq {"b.mu", "vh.mu", "overview"} /\ \E L \in {{}, {"b.mu"}, {"vh.mu"}} : stuck' = stuck \union L
      BY <1>15 DEF Panic, Types
    <3> QED
      BY <3>1
  <2> QED
    BY <1>15, <2>1, <2>2, <2>3 DEF Panic, Types, ServeStates, Counted, Handshaking, Registered
<1>16. ASSUME NEW c \in Conns, PanicCleaned(c) PROVE Types'
  BY <1>16 DEF PanicCleaned, Types, ServeStates, Counted, Handshaking, Registered
<1>17. ASSUME NEW c \in Conns, PanicTimeout(c) PROVE Types'
  BY <1>17 DEF PanicTimeout, Types
<1>18. ASSUME NEW c \in Conns, Leave(c) PROVE Types'
  BY <1>18 DEF Leave, Types, ServeStates, Counted, Handshaking, Registered
<1>19. ASSUME NEW c \in Conns, CleanInfo(c) PROVE Types'
  BY <1>19 DEF CleanInfo, Types, ServeStates, Counted, Handshaking, Registered, Cleaners
<1>20. ASSUME NEW c \in Conns, CleanIds(c) PROVE Types'
  BY <1>20 DEF CleanIds, Types
<1>21. ASSUME NEW c \in Conns, CleanSocket(c) PROVE Types'
  BY <1>21 DEF CleanSocket, Types
<1>22. ASSUME NEW c \in Conns, CleanVHost(c) PROVE Types'
  BY <1>22 DEF CleanVHost, Types, ServeStates, Counted, Handshaking, Registered, Methods
<1>23. ASSUME NEW c \in Conns, MonitorEnds(c) PROVE Types'
  BY <1>23 DEF MonitorEnds, Types
<1>24. ASSUME NEW c \in Conns, HeartbeatTimeout(c) PROVE Types'
  BY <1>24 DEF HeartbeatTimeout, Types
<1>25. ASSUME NEW c \in Conns, HeartbeatPanic(c) PROVE Types'
  BY <1>25 DEF HeartbeatPanic, Types
<1>26. ASSUME NEW c \in Conns, CloseConnection(c) PROVE Types'
  BY <1>26 DEF CloseConnection, Types
<1>27. ASSUME NEW c \in Conns, BroadcastTo(c) PROVE Types'
  BY <1>27 DEF BroadcastTo, Types
<1>28. ASSUME NEW c \in Conns, NEW kind \in Methods, ReadFrame(c, kind) PROVE Types'
  <2>1. CASE CtxDone(c)
    <3>1. sock' \in [Conns -> {"none", "open", "closed"}] /\ cancelled' \in [Conns -> BOOLEAN]
      BY <1>28, <2>1 DEF ReadFrame, Types
    <3>2. serve' \in [Conns -> ServeStates]
      BY <1>28, <2>1 DEF ReadFrame, Types, ServeStates, Counted, Handshaking, Registered
    <3> QED
      BY <1>28, <2>1, <3>1, <3>2 DEF ReadFrame, Types
  <2>2. CASE ~CtxDone(c)
    BY <1>28, <2>2 DEF ReadFrame, Types, ServeStates, Counted, Handshaking, Registered
  <2> QED
    BY <2>1, <2>2
<1>29. CASE CreateVHost
  BY <1>29 DEF CreateVHost, Types
<1>30. CASE DeleteVHost
  BY <1>30 DEF DeleteVHost, Types
<1>38. CASE Overview
  BY <1>38 DEF Overview, Types
<1>31. CASE Signal
  BY <1>31 DEF Signal, Types
<1>32. CASE BeginShutdown
  BY <1>32 DEF BeginShutdown, Types
<1>33. CASE BroadcastConnectionClose
  BY <1>33 DEF BroadcastConnectionClose, Types
<1>34. CASE WaitForConns
  BY <1>34 DEF WaitForConns, Types
<1>35. CASE Waited
  BY <1>35 DEF Waited, Types
<1>36. CASE Shutdown
  BY <1>36 DEF Shutdown, Types
<1>37. CASE UNCHANGED vars
  BY <1>37 DEF vars, Types
<1> QED
  BY <1>1, <1>2, <1>3, <1>4, <1>5, <1>6, <1>7, <1>8, <1>9, <1>10, <1>11, <1>12, <1>13, <1>14, <1>15,
     <1>16, <1>17, <1>18, <1>19, <1>20, <1>21, <1>22, <1>23, <1>24, <1>25, <1>26, <1>27, <1>28,
     <1>29, <1>30, <1>31, <1>32, <1>33, <1>34, <1>35, <1>36, <1>37, <1>38 DEF Next, Serving, Cleaning, Main

-----------------------------------------------------------------------------
(***************************************************************************)
(* ActiveConns.  A connection's weight is what it contributes: the Add of  *)
(* acceptLoop, and the Add of registerConnection.                          *)
(***************************************************************************)
Weight(pc) == (IF pc \in Counted THEN 1 ELSE 0) + (IF pc \in Registered THEN 1 ELSE 0)

(* A goroutine of one connection moves, and ActiveConns with it. *)
Moves(c, pc) == Goto(c, pc) /\ active' = active + Weight(pc) - Weight(serve[c])

LEMMA CountMoves ==
    ASSUME Types, ActiveCounts, NEW c \in Conns, NEW pc \in ServeStates, Moves(c, pc)
    PROVE  ActiveCounts'
<1>1. /\ IsFiniteSet(Busy) /\ IsFiniteSet(InLoop)
      /\ Cardinality(Busy) \in Nat /\ Cardinality(InLoop) \in Nat
  BY LifecycleAssumption, FS_Subset, FS_CardinalityType DEF Busy, InLoop
<1>2. \A d \in Conns : serve'[d] = IF d = c THEN pc ELSE serve[d]
  BY DEF Moves, Goto, Types
<1>3. Cardinality(Busy)' = Cardinality(Busy) + (IF pc \in Counted THEN 1 ELSE 0)
                                             - (IF serve[c] \in Counted THEN 1 ELSE 0)
  <2>1. CASE pc \in Counted
    <3>1. Busy' = Busy \union {c}
      BY <1>2, <2>1 DEF Busy
    <3>2. Cardinality(Busy \union {c}) = IF c \in Busy THEN Cardinality(Busy) ELSE Cardinality(Busy) + 1
      BY <1>1, FS_AddElement
    <3>3. c \in Busy <=> serve[c] \in Counted
      BY DEF Busy
    <3> QED
      BY <1>1, <2>1, <3>1, <3>2, <3>3
  <2>2. CASE pc \notin Counted
    <3>1. Busy' = Busy \ {c}
      BY <1>2, <2>2 DEF Busy
    <3>2. Cardinality(Busy \ {c}) = IF c \in Busy THEN Cardinality(Busy) - 1 ELSE Cardinality(Busy)
      BY <1>1, FS_RemoveElement
    <3>3. c \in Busy <=> serve[c] \in Counted
      BY DEF Busy
    <3> QED
      BY <1>1, <2>2, <3>1, <3>2, <3>3
  <2> QED
    BY <2>1, <2>2
<1>4. Cardinality(InLoop)' = Cardinality(InLoop) + (IF pc \in Registered THEN 1 ELSE 0)
                                                 - (IF serve[c] \in Registered THEN 1 ELSE 0)
  <2>1. CASE pc \in Registered
    <3>1. InLoop' = InLoop \union {c}
      BY <1>2, <2>1 DEF InLoop
    <3>2. Cardinality(InLoop \union {c}) = IF c \in InLoop THEN Cardinality(InLoop) ELSE Cardinality(InLoop) + 1
      BY <1>1, FS_AddElement
    <3>3. c \in InLoop <=> serve[c] \in Registered
      BY DEF InLoop
    <3> QED
      BY <1>1, <2>1, <3>1, <3>2, <3>3
  <2>2. CASE pc \notin Registered
    <3>1. InLoop' = InLoop \ {c}
      BY <1>2, <2>2 DEF InLoop
    <3>2. Cardinality(InLoop \ {c}) = IF c \in InLoop THEN Cardinality(InLoop) - 1 ELSE Cardinality(InLoop)
      BY <1>1, FS_RemoveElement
    <3>3. c \in InLoop <=> serve[c] \in Registered
      BY DEF InLoop
    <3> QED
      BY <1>1, <2>2, <3>1, <3>2, <3>3
  <2> QED
    BY <2>1, <2>2
<1> QED
  BY <1>1, <1>3, <1>4 DEF ActiveCounts, Moves, Weight

LEMMA Weights ==
    /\ Weight("none") = 0 /\ Weight("done") = 0
    /\ Weight("handshake") = 1 /\ Weight("tuned") = 1 /\ Weight("handshaken") = 1 /\ Weight("registering") = 1
    /\ \A pc \in Registered : Weight(pc) = 2
    /\ {"none", "done", "handshake", "tuned", "handshaken", "registering"} \subseteq ServeStates
    /\ Registered \subseteq ServeStates
    /\ {"reading", "request", "handling", "panicked", "closed", "leaving"} = Registered
  BY DEF Weight, Registered, Counted, Handshaking, ServeStates

(* Whatever moves, moves one connection; a connection that was not yet     *)
(* accepted, once the shutdown has begun, is turned away.                  *)
MoveOf(c, pc) ==
    /\ Moves(c, pc)
    /\ Up
    /\ serve[c] # "done"
    /\ serve[c] = "none" /\ ShuttingDown => pc = "done"

LEMMA ServeSteps ==
    ASSUME Types, [Next]_vars
    PROVE  \/ UNCHANGED <<serve, active>>
           \/ \E c \in Conns, pc \in ServeStates : MoveOf(c, pc)
<1> DEFINE Goal == UNCHANGED <<serve, active>> \/ \E c \in Conns, pc \in ServeStates : MoveOf(c, pc)
<1>a. active \in Int
  BY DEF Types
<1>b. ASSUME NEW c \in Conns, NEW pc \in Registered, At(c, serve[c]), serve[c] \in Registered, Goto(c, pc), UNCHANGED active
      PROVE  Goal
  <2>1. serve[c] \notin {"none", "done"}
    BY <1>b DEF Registered
  <2>2. active' = active + Weight(pc) - Weight(serve[c]) /\ pc \in ServeStates
    BY <1>a, <1>b, Weights
  <2> QED
    BY <1>b, <2>1, <2>2 DEF MoveOf, Moves, At
<1> USE Weights, <1>a DEF At, Moves, MoveOf
<1>1. ASSUME NEW c \in Conns, Accept(c) PROVE Goal
  <2>1. CASE ShuttingDown
    BY <1>1, <2>1 DEF Accept
  <2>2. CASE ~ShuttingDown
    BY <1>1, <2>2 DEF Accept
  <2> QED
    BY <2>1, <2>2
<1>2. ASSUME NEW c \in Conns, Handshake(c) PROVE Goal
  <2>1. CASE serve[c] = "handshake"
    BY <1>2, <2>1 DEF Handshake
  <2>2. CASE serve[c] = "tuned"
    BY <1>2, <2>2 DEF Handshake
  <2> QED
    BY <1>2, <2>1, <2>2 DEF Handshake, Handshaking
<1>3. ASSUME NEW c \in Conns, HandshakeFails(c) PROVE Goal
  BY <1>3 DEF HandshakeFails, Handshaking
<1>4. ASSUME NEW c \in Conns, RegisterInfo(c) PROVE Goal
  <2>1. CASE ShuttingDown
    BY <1>4, <2>1 DEF RegisterInfo
  <2>2. CASE ~ShuttingDown
    BY <1>4, <2>2 DEF RegisterInfo
  <2> QED
    BY <2>1, <2>2
<1>5. ASSUME NEW c \in Conns, RegisterID(c) PROVE Goal
  BY <1>5 DEF RegisterID
<1>6. ASSUME NEW c \in Conns, ReadFails(c) PROVE Goal
  BY <1>6, <1>b DEF ReadFails
<1>7. ASSUME NEW c \in Conns, FrameTooLarge(c) PROVE Goal
  BY <1>7, <1>b DEF FrameTooLarge
<1>8. ASSUME NEW c \in Conns, Ignore(c) PROVE Goal
  BY <1>8, <1>b DEF Ignore
<1>9. ASSUME NEW c \in Conns, CloseRequested(c) PROVE Goal
  BY <1>9, <1>b DEF CloseRequested
<1>10. ASSUME NEW c \in Conns, StartMethod(c) PROVE Goal
  BY <1>10, <1>b DEF StartMethod
<1>11. ASSUME NEW c \in Conns, EndMethod(c) PROVE Goal
  BY <1>11, <1>b DEF EndMethod
<1>12. ASSUME NEW c \in Conns, Panic(c) PROVE Goal
  BY <1>12, <1>b DEF Panic
<1>13. ASSUME NEW c \in Conns, PanicCleaned(c) PROVE Goal
  BY <1>13, <1>b DEF PanicCleaned
<1>14. ASSUME NEW c \in Conns, Leave(c) PROVE Goal
  BY <1>14 DEF Leave
<1>15. ASSUME NEW c \in Conns, CleanInfo(c) PROVE Goal
  <2>1. CASE UNCHANGED serve
    BY <1>15, <2>1 DEF CleanInfo
  <2>2. CASE serve[c] = "request" /\ Goto(c, "closed")
    BY <1>15, <1>b, <2>2 DEF CleanInfo
  <2> QED
    BY <1>15, <2>1, <2>2 DEF CleanInfo
<1>16. ASSUME NEW c \in Conns, CleanVHost(c) PROVE Goal
  <2>1. CASE UNCHANGED serve
    BY <1>16, <2>1 DEF CleanVHost
  <2>2. CASE serve[c] = "closed" /\ Goto(c, "reading")
    BY <1>16, <1>b, <2>2 DEF CleanVHost
  <2> QED
    BY <1>16, <2>1, <2>2 DEF CleanVHost
<1>17. ASSUME NEW c \in Conns, NEW kind \in Methods, ReadFrame(c, kind) PROVE Goal
  BY <1>17, <1>b DEF ReadFrame
<1>18. ASSUME NEW c \in Conns,
             Connect(c) \/ Silent(c) \/ Gone(c) \/ PanicTimeout(c) \/ CleanIds(c) \/ CleanSocket(c)
               \/ MonitorEnds(c) \/ HeartbeatTimeout(c) \/ HeartbeatPanic(c) \/ CloseConnection(c) \/ BroadcastTo(c)
      PROVE  UNCHANGED <<serve, active>>
  BY <1>18 DEF Connect, Silent, Gone, PanicTimeout, CleanIds, CleanSocket, MonitorEnds, HeartbeatTimeout,
     HeartbeatPanic, CloseConnection, BroadcastTo
<1>19. CreateVHost \/ DeleteVHost \/ Overview \/ Signal \/ BeginShutdown \/ BroadcastConnectionClose \/ WaitForConns
        \/ Waited \/ Shutdown \/ UNCHANGED vars
      => UNCHANGED <<serve, active>>
  BY DEF CreateVHost, DeleteVHost, Overview, Signal, BeginShutdown, BroadcastConnectionClose, WaitForConns,
     Waited, Shutdown, offMain, vars
<1> HIDE DEF Goal
<1>q. Goal \/ UNCHANGED <<serve, active>>
  BY <1>1, <1>2, <1>3, <1>4, <1>5, <1>6, <1>7, <1>8, <1>9, <1>10, <1>11, <1>12, <1>13, <1>14, <1>15,
     <1>16, <1>17, <1>18, <1>19 DEF Next, Serving, Cleaning, Main
<1> QED
  BY <1>q DEF Goal

LEMMA CountInit == Init => ActiveCounts
<1> SUFFICES ASSUME Init PROVE ActiveCounts
  OBVIOUS
<1>1. Busy = {} /\ InLoop = {}
  BY DEF Init, Busy, InLoop, Counted, Registered, Handshaking
<1> QED
  BY <1>1, FS_EmptySet DEF Init, ActiveCounts

LEMMA CountNext == Types /\ ActiveCounts /\ [Next]_vars => ActiveCounts'
<1> SUFFICES ASSUME Types, ActiveCounts, [Next]_vars PROVE ActiveCounts'
  OBVIOUS
<1>1. CASE UNCHANGED <<serve, active>>
  BY <1>1 DEF ActiveCounts, Busy, InLoop
<1>2. CASE \E c \in Conns, pc \in ServeStates : MoveOf(c, pc)
  BY <1>2, CountMoves DEF MoveOf
<1> QED
  BY <1>1, <1>2, ServeSteps

(* What ActiveCounts is for: at zero, nothing is served. *)
LEMMA ZeroMeansIdle ==
    ASSUME Types, ActiveCounts, active = 0
    PROVE  \A c \in Conns : serve[c] \in {"none", "done"}
<1>1. IsFiniteSet(Busy) /\ Cardinality(Busy) \in Nat /\ Cardinality(InLoop) \in Nat
  BY LifecycleAssumption, FS_Subset, FS_CardinalityType DEF Busy, InLoop
<1>2. Cardinality(Busy) = 0
  BY <1>1 DEF ActiveCounts
<1>3. Busy = {}
  BY <1>1, <1>2, FS_EmptySet
<1> QED
  BY <1>3 DEF Busy, Types, ServeStates

(* The steps of main, as far as WaitIsFinal sees them. *)
LEMMA MainSteps ==
    ASSUME Types, [Next]_vars
    PROVE  /\ main' # main =>
                \/ main = "running" /\ main' = "cancelled"
                \/ main = "cancelled" /\ main' = "shutting"
                \/ BroadcastConnectionClose
                \/ WaitForConns
                \/ Waited
                \/ main' = "exited"
           /\ graceful' # graceful => Waited
<1>1. ASSUME NEW c \in Conns,
             \/ Connect(c) \/ Silent(c) \/ Gone(c) \/ Handshake(c) \/ ReadFails(c) \/ FrameTooLarge(c)
             \/ HeartbeatTimeout(c) \/ CloseConnection(c) \/ Accept(c) \/ HandshakeFails(c)
      PROVE  UNCHANGED <<main, graceful>>
  BY <1>1 DEF Connect, Silent, Gone, Handshake, ReadFails, FrameTooLarge, HeartbeatTimeout, CloseConnection,
     Accept, HandshakeFails, process
<1>2. ASSUME NEW c \in Conns,
             \/ RegisterInfo(c) \/ RegisterID(c) \/ Ignore(c) \/ CloseRequested(c) \/ StartMethod(c)
             \/ EndMethod(c) \/ PanicCleaned(c) \/ Leave(c)
      PROVE  UNCHANGED <<main, graceful>>
  BY <1>2 DEF RegisterInfo, RegisterID, Ignore, CloseRequested, StartMethod, EndMethod, PanicCleaned, Leave, process
<1>3. ASSUME NEW c \in Conns,
             \/ CleanInfo(c) \/ CleanIds(c) \/ CleanSocket(c) \/ CleanVHost(c) \/ MonitorEnds(c)
             \/ Panic(c) \/ HeartbeatPanic(c) \/ BroadcastTo(c)
      PROVE  UNCHANGED <<main, graceful>>
  BY <1>3 DEF CleanInfo, CleanIds, CleanSocket, CleanVHost, MonitorEnds, Panic, HeartbeatPanic, BroadcastTo, process
<1>4. ASSUME NEW c \in Conns, NEW kind \in Methods, ReadFrame(c, kind) PROVE UNCHANGED <<main, graceful>>
  BY <1>4 DEF ReadFrame, process
<1>5. ASSUME NEW c \in Conns, PanicTimeout(c) PROVE main' = "exited" /\ UNCHANGED graceful
  BY <1>5 DEF PanicTimeout
<1>6. CreateVHost \/ DeleteVHost \/ Overview \/ UNCHANGED vars => UNCHANGED <<main, graceful>>
  BY DEF CreateVHost, DeleteVHost, Overview, process, vars
<1>7. /\ Signal => main = "running" /\ main' = "cancelled" /\ UNCHANGED graceful
      /\ BeginShutdown => main = "cancelled" /\ main' = "shutting" /\ UNCHANGED graceful
      /\ BroadcastConnectionClose \/ WaitForConns => UNCHANGED graceful
      /\ Shutdown => main' = "exited" /\ UNCHANGED graceful
  BY DEF Signal, BeginShutdown, BroadcastConnectionClose, WaitForConns, Shutdown, MainGoes
<1> QED
  BY <1>1, <1>2, <1>3, <1>4, <1>5, <1>6, <1>7 DEF Next, Serving, Cleaning, Main

WaitInv == Types /\ ActiveCounts /\ GracefulIsLate /\ WaitIsFinal

LEMMA WaitInit == Init => WaitInv
  BY TypesInit, CountInit DEF WaitInv, Init, GracefulIsLate, WaitIsFinal

LEMMA WaitNext == WaitInv /\ [Next]_vars => WaitInv'
<1> SUFFICES ASSUME WaitInv, [Next]_vars PROVE WaitInv'
  OBVIOUS
<1>a. Types /\ ActiveCounts /\ GracefulIsLate /\ WaitIsFinal
  BY DEF WaitInv
<1>1. Types' /\ ActiveCounts'
  BY <1>a, TypesNext, CountNext
<1>2. CASE Waited
  <2>1. main' = "closing" /\ UNCHANGED serve /\ graceful' \in {active = 0, FALSE}
    BY <1>2 DEF Waited, MainGoes, offMain
  <2>2. graceful' => active = 0
    BY <2>1
  <2> QED
    BY <1>a, <1>1, <2>1, <2>2, ZeroMeansIdle DEF WaitInv, GracefulIsLate, WaitIsFinal
<1>3. CASE ~Waited
  <2>1. UNCHANGED graceful
    BY <1>3, <1>a, MainSteps
  <2>2. GracefulIsLate'
    BY <1>3, <1>a, <2>1, MainSteps DEF GracefulIsLate, BroadcastConnectionClose, WaitForConns, MainGoes
  <2>3. WaitIsFinal'
    <3> SUFFICES ASSUME graceful PROVE \A d \in Conns : serve'[d] \in {"none", "done"}
      BY <2>1 DEF WaitIsFinal
    <3>0. main \in {"closing", "exited"} /\ \A d \in Conns : serve[d] \in {"none", "done"}
      BY <1>a DEF GracefulIsLate, WaitIsFinal
    <3>1. CASE UNCHANGED <<serve, active>>
      BY <3>0, <3>1
    <3>2. ASSUME NEW c \in Conns, NEW pc \in ServeStates, MoveOf(c, pc)
          PROVE  \A d \in Conns : serve'[d] \in {"none", "done"}
      <4>1. serve[c] = "none" /\ ShuttingDown
        BY <3>0, <3>2 DEF MoveOf, Up, ShuttingDown
      <4>2. pc = "done"
        BY <3>2, <4>1 DEF MoveOf
      <4> QED
        BY <1>a, <3>0, <3>2, <4>2 DEF MoveOf, Moves, Goto, Types
    <3> QED
      BY <1>a, <3>1, <3>2, ServeSteps
  <2> QED
    BY <1>1, <2>2, <2>3 DEF WaitInv
<1> QED
  BY <1>2, <1>3

(* Spec implies that once main has seen ActiveConns at zero no connection  *)
(* is served any more: acceptLoop's check and Add are one critical         *)
(* section, and every Add has its Done.                                    *)
THEOREM NoneServedAfterWait == Spec => []WaitIsFinal
<1>1. WaitInv => WaitIsFinal
  BY DEF WaitInv
<1> QED
  BY <1>1, WaitInit, WaitNext, PTL DEF Spec

(* Spec implies type correctness; ActiveConns, a WaitGroup, never goes     *)
(* below zero, where it would panic.                                       *)
THEOREM TypeCorrect == Spec => []TypeOK
<1>1. WaitInv => TypeOK
  <2> SUFFICES ASSUME WaitInv PROVE TypeOK
    OBVIOUS
  <2>1. Types /\ ActiveCounts
    BY DEF WaitInv
  <2>2. /\ Cardinality(Busy) \in Nat /\ Cardinality(InLoop) \in Nat /\ Cardinality(Conns) \in Nat
        /\ Cardinality(Busy) <= Cardinality(Conns) /\ Cardinality(InLoop) <= Cardinality(Conns)
    BY LifecycleAssumption, FS_Subset, FS_CardinalityType DEF Busy, InLoop
  <2>3. active \in 0..2 * Cardinality(Conns)
    BY <2>1, <2>2 DEF ActiveCounts
  <2>4. serve \in [Conns -> Handshaking \union {"none", "handshaken", "registering", "reading", "request",
                                              "handling", "panicked", "closed", "leaving", "done"}]
    BY <2>1 DEF Types, ServeStates, Counted, Registered
  <2> QED
    BY <2>1, <2>3, <2>4 DEF Types, TypeOK
<1> QED
  BY <1>1, WaitInit, WaitNext, PTL DEF Spec

-----------------------------------------------------------------------------
(* The life of each connection.  A step is a step of one connection, or of *)
(* main; the others keep what ConnInv looks at.                            *)
ConnInvOf(c) == SocketOf(c) /\ InMaps(c) /\ OneCleaner(c)

Same(c) ==
    /\ peer'[c] = peer[c] /\ sock'[c] = sock[c] /\ serve'[c] = serve[c] /\ monitor'[c] = monitor[c]
    /\ cleaning'[c] = cleaning[c] /\ cleaner'[c] = cleaner[c]
    /\ cleanups'[c] = cleanups[c] /\ cleanedUp'[c] = cleanedUp[c]
    /\ c \in connInfos' <=> c \in connInfos
    /\ c \in ids' <=> c \in ids
    /\ c \in targets' => c \in targets

LEMMA SameKeeps ==
    ASSUME NEW c \in Conns, ConnInvOf(c), Same(c)
    PROVE  ConnInvOf(c)'
  BY DEF ConnInvOf, SocketOf, InMaps, OneCleaner, Same

LEMMA ConnInit == Init => ConnInv
<1> SUFFICES ASSUME Init, NEW c \in Conns PROVE SocketOf(c) /\ InMaps(c) /\ OneCleaner(c)
  BY DEF ConnInv
<1> QED
  BY DEF Init, SocketOf, InMaps, OneCleaner, Unregistered, None

LEMMA ConnNext == Types /\ ConnInv /\ [Next]_vars => ConnInv'
<1> SUFFICES ASSUME Types, ConnInv, [Next]_vars PROVE \A c \in Conns : ConnInvOf(c)'
  BY DEF ConnInv, ConnInvOf
<1>a. \A c \in Conns : ConnInvOf(c)
  BY DEF ConnInv, ConnInvOf
<1> USE DEF sockets, registry, cleanup, process, offMain, Goto, CloseConn, At
<1>1. ASSUME NEW d \in Conns, Connect(d) PROVE \A c \in Conns : ConnInvOf(c)'
  <2>1. \A c \in Conns \ {d} : Same(c)
    BY <1>1 DEF Connect, Same, Types
  <2>2. ConnInvOf(d)'
    BY <1>1, <1>a DEF Connect, ConnInvOf, SocketOf, InMaps, OneCleaner, Unregistered, Handshaking, None, Types
  <2> QED
    BY <1>a, <2>1, <2>2, SameKeeps
<1>2. ASSUME NEW d \in Conns, Accept(d) PROVE \A c \in Conns : ConnInvOf(c)'
  <2>1. \A c \in Conns \ {d} : Same(c)
    BY <1>2 DEF Accept, Same, Types
  <2>2. ConnInvOf(d)'
    BY <1>2, <1>a DEF Accept, ConnInvOf, SocketOf, InMaps, OneCleaner, Unregistered, Handshaking, None, Types
  <2> QED
    BY <1>a, <2>1, <2>2, SameKeeps
<1>3. ASSUME NEW d \in Conns, Handshake(d) PROVE \A c \in Conns : ConnInvOf(c)'
  <2>1. \A c \in Conns \ {d} : Same(c)
    BY <1>3 DEF Handshake, Same, Types
  <2>2. ConnInvOf(d)'
    BY <1>3, <1>a DEF Handshake, ConnInvOf, SocketOf, InMaps, OneCleaner, Unregistered, Handshaking, None, Types
  <2> QED
    BY <1>a, <2>1, <2>2, SameKeeps
<1>4. ASSUME NEW d \in Conns, HandshakeFails(d) PROVE \A c \in Conns : ConnInvOf(c)'
  <2>1. \A c \in Conns \ {d} : Same(c)
    BY <1>4 DEF HandshakeFails, Same, Types
  <2>2. ConnInvOf(d)'
    BY <1>4, <1>a DEF HandshakeFails, ConnInvOf, SocketOf, InMaps, OneCleaner, Unregistered, Handshaking, None, Types
  <2> QED
    BY <1>a, <2>1, <2>2, SameKeeps
<1>5. ASSUME NEW d \in Conns, RegisterInfo(d) PROVE \A c \in Conns : ConnInvOf(c)'
  <2>1. \A c \in Conns \ {d} : Same(c)
    BY <1>5 DEF RegisterInfo, Same, Types
  <2>2. ConnInvOf(d)'
    BY <1>5, <1>a DEF RegisterInfo, ConnInvOf, SocketOf, InMaps, OneCleaner, Unregistered, Handshaking, None, Types
  <2> QED
    BY <1>a, <2>1, <2>2, SameKeeps
<1>6. ASSUME NEW d \in Conns, RegisterID(d) PROVE \A c \in Conns : ConnInvOf(c)'
  <2>1. \A c \in Conns \ {d} : Same(c)
    BY <1>6 DEF RegisterID, Same, Types
  <2>2. ConnInvOf(d)'
    BY <1>6, <1>a DEF RegisterID, ConnInvOf, SocketOf, InMaps, OneCleaner, Unregistered, Handshaking, None, Types
  <2> QED
    BY <1>a, <2>1, <2>2, SameKeeps
<1>7. ASSUME NEW d \in Conns, ReadFails(d) PROVE \A c \in Conns : ConnInvOf(c)'
  <2>1. \A c \in Conns \ {d} : Same(c)
    BY <1>7 DEF ReadFails, Same, Types
  <2>2. ConnInvOf(d)'
    BY <1>7, <1>a DEF ReadFails, ConnInvOf, SocketOf, InMaps, OneCleaner, Unregistered, Handshaking, None, Types
  <2> QED
    BY <1>a, <2>1, <2>2, SameKeeps
<1>8. ASSUME NEW d \in Conns, FrameTooLarge(d) PROVE \A c \in Conns : ConnInvOf(c)'
  <2>1. \A c \in Conns \ {d} : Same(c)
    BY <1>8 DEF FrameTooLarge, Same, Types
  <2>2. ConnInvOf(d)'
    BY <1>8, <1>a DEF FrameTooLarge, ConnInvOf, SocketOf, InMaps, OneCleaner, Unregistered, Handshaking, None, Types
  <2> QED
    BY <1>a, <2>1, <2>2, SameKeeps
<1>9. ASSUME NEW d \in Conns, Ignore(d) PROVE \A c \in Conns : ConnInvOf(c)'
  <2>1. \A c \in Conns \ {d} : Same(c)
    BY <1>9 DEF Ignore, Same, Types
  <2>2. ConnInvOf(d)'
    BY <1>9, <1>a DEF Ignore, ConnInvOf, SocketOf, InMaps, OneCleaner, Unregistered, Handshaking, None, Types
  <2> QED
    BY <1>a, <2>1, <2>2, SameKeeps
<1>10. ASSUME NEW d \in Conns, CloseRequested(d) PROVE \A c \in Conns : ConnInvOf(c)'
  <2>1. \A c \in Conns \ {d} : Same(c)
    BY <1>10 DEF CloseRequested, Same, Types
  <2>2. ConnInvOf(d)'
    BY <1>10, <1>a DEF CloseRequested, ConnInvOf, SocketOf, InMaps, OneCleaner, Unregistered, Handshaking, None, Types
  <2> QED
    BY <1>a, <2>1, <2>2, SameKeeps
<1>11. ASSUME NEW d \in Conns, StartMethod(d) PROVE \A c \in Conns : ConnInvOf(c)'
  <2>1. \A c \in Conns \ {d} : Same(c)
    BY <1>11 DEF StartMethod, Same, Types
  <2>2. ConnInvOf(d)'
    BY <1>11, <1>a DEF StartMethod, ConnInvOf, SocketOf, InMaps, OneCleaner, Unregistered, Handshaking, None, Types
  <2> QED
    BY <1>a, <2>1, <2>2, SameKeeps
<1>12. ASSUME NEW d \in Conns, EndMethod(d) PROVE \A c \in Conns : ConnInvOf(c)'
  <2>1. \A c \in Conns \ {d} : Same(c)
    BY <1>12 DEF EndMethod, Same, Types
  <2>2. ConnInvOf(d)'
    BY <1>12, <1>a DEF EndMethod, ConnInvOf, SocketOf, InMaps, OneCleaner, Unregistered, Handshaking, None, Types
  <2> QED
    BY <1>a, <2>1, <2>2, SameKeeps
<1>13. ASSUME NEW d \in Conns, Panic(d) PROVE \A c \in Conns : ConnInvOf(c)'
  <2>1. \A c \in Conns \ {d} : Same(c)
    BY <1>13 DEF Panic, Same, Types
  <2>2. ConnInvOf(d)'
    BY <1>13, <1>a DEF Panic, ConnInvOf, SocketOf, InMaps, OneCleaner, Unregistered, Handshaking, None, Types
  <2> QED
    BY <1>a, <2>1, <2>2, SameKeeps
<1>14. ASSUME NEW d \in Conns, PanicCleaned(d) PROVE \A c \in Conns : ConnInvOf(c)'
  <2>1. \A c \in Conns \ {d} : Same(c)
    BY <1>14 DEF PanicCleaned, Same, Types
  <2>2. ConnInvOf(d)'
    BY <1>14, <1>a DEF PanicCleaned, ConnInvOf, SocketOf, InMaps, OneCleaner, Unregistered, Handshaking, None, Types
  <2> QED
    BY <1>a, <2>1, <2>2, SameKeeps
<1>15. ASSUME NEW d \in Conns, Leave(d) PROVE \A c \in Conns : ConnInvOf(c)'
  <2>1. \A c \in Conns \ {d} : Same(c)
    BY <1>15 DEF Leave, Same, Types
  <2>2. ConnInvOf(d)'
    BY <1>15, <1>a DEF Leave, ConnInvOf, SocketOf, InMaps, OneCleaner, Unregistered, Handshaking, None, Types
  <2> QED
    BY <1>a, <2>1, <2>2, SameKeeps
<1>16. ASSUME NEW d \in Conns, CleanInfo(d) PROVE \A c \in Conns : ConnInvOf(c)'
  <2>1. \A c \in Conns \ {d} : Same(c)
    BY <1>16 DEF CleanInfo, Same, Types
  <2>2. ConnInvOf(d)'
    BY <1>16, <1>a DEF CleanInfo, ConnInvOf, SocketOf, InMaps, OneCleaner, Unregistered, Handshaking, None, Types, Cleaners
  <2> QED
    BY <1>a, <2>1, <2>2, SameKeeps
<1>17. ASSUME NEW d \in Conns, CleanIds(d) PROVE \A c \in Conns : ConnInvOf(c)'
  <2>1. \A c \in Conns \ {d} : Same(c)
    BY <1>17 DEF CleanIds, Same, Types
  <2>2. ConnInvOf(d)'
    BY <1>17, <1>a DEF CleanIds, ConnInvOf, SocketOf, InMaps, OneCleaner, Unregistered, Handshaking, None, Types
  <2> QED
    BY <1>a, <2>1, <2>2, SameKeeps
<1>18. ASSUME NEW d \in Conns, CleanSocket(d) PROVE \A c \in Conns : ConnInvOf(c)'
  <2>1. \A c \in Conns \ {d} : Same(c)
    BY <1>18 DEF CleanSocket, Same, Types
  <2>2. ConnInvOf(d)'
    BY <1>18, <1>a DEF CleanSocket, ConnInvOf, SocketOf, InMaps, OneCleaner, Unregistered, Handshaking, None, Types
  <2> QED
    BY <1>a, <2>1, <2>2, SameKeeps
<1>19. ASSUME NEW d \in Conns, CleanVHost(d) PROVE \A c \in Conns : ConnInvOf(c)'
  <2>1. \A c \in Conns \ {d} : Same(c)
    BY <1>19 DEF CleanVHost, Same, Types
  <2>2. ConnInvOf(d)'
    BY <1>19, <1>a DEF CleanVHost, ConnInvOf, SocketOf, InMaps, OneCleaner, Unregistered, Handshaking, None, Types
  <2> QED
    BY <1>a, <2>1, <2>2, SameKeeps
<1>20. ASSUME NEW d \in Conns, MonitorEnds(d) PROVE \A c \in Conns : ConnInvOf(c)'
  <2>1. \A c \in Conns \ {d} : Same(c)
    BY <1>20 DEF MonitorEnds, Same, Types
  <2>2. ConnInvOf(d)'
    BY <1>20, <1>a DEF MonitorEnds, ConnInvOf, SocketOf, InMaps, OneCleaner, Unregistered, Handshaking, None, Types
  <2> QED
    BY <1>a, <2>1, <2>2, SameKeeps
<1>21. ASSUME NEW d \in Conns, HeartbeatTimeout(d) PROVE \A c \in Conns : ConnInvOf(c)'
  <2>1. \A c \in Conns \ {d} : Same(c)
    BY <1>21 DEF HeartbeatTimeout, Same, Types
  <2>2. ConnInvOf(d)'
    BY <1>21, <1>a DEF HeartbeatTimeout, HeartbeatRuns, ConnInvOf, SocketOf, InMaps, OneCleaner, Unregistered, Handshaking, None, Types
  <2> QED
    BY <1>a, <2>1, <2>2, SameKeeps
<1>22. ASSUME NEW d \in Conns, HeartbeatPanic(d) PROVE \A c \in Conns : ConnInvOf(c)'
  <2>1. \A c \in Conns \ {d} : Same(c)
    BY <1>22 DEF HeartbeatPanic, Same, Types
  <2>2. ConnInvOf(d)'
    BY <1>22, <1>a DEF HeartbeatPanic, HeartbeatRuns, ConnInvOf, SocketOf, InMaps, OneCleaner, Unregistered, Handshaking, None, Types
  <2> QED
    BY <1>a, <2>1, <2>2, SameKeeps
<1>23. ASSUME NEW d \in Conns, Gone(d) PROVE \A c \in Conns : ConnInvOf(c)'
  <2>1. \A c \in Conns \ {d} : Same(c)
    BY <1>23 DEF Gone, Same, Types
  <2>2. ConnInvOf(d)'
    BY <1>23, <1>a DEF Gone, ConnInvOf, SocketOf, InMaps, OneCleaner, Unregistered, Handshaking, None, Types
  <2> QED
    BY <1>a, <2>1, <2>2, SameKeeps
<1>24. ASSUME NEW d \in Conns, Silent(d) PROVE \A c \in Conns : ConnInvOf(c)'
  <2>1. \A c \in Conns \ {d} : Same(c)
    BY <1>24 DEF Silent, Same, Types
  <2>2. ConnInvOf(d)'
    BY <1>24, <1>a DEF Silent, ConnInvOf, SocketOf, InMaps, OneCleaner, Unregistered, Handshaking, None, Types
  <2> QED
    BY <1>a, <2>1, <2>2, SameKeeps
<1>25. ASSUME NEW d \in Conns, BroadcastTo(d) PROVE \A c \in Conns : ConnInvOf(c)'
  <2>1. \A c \in Conns \ {d} : Same(c)
    BY <1>25 DEF BroadcastTo, Same, Types
  <2>2. ConnInvOf(d)'
    BY <1>25, <1>a DEF BroadcastTo, ConnInvOf, SocketOf, InMaps, OneCleaner, Unregistered, Handshaking, None, Types
  <2> QED
    BY <1>a, <2>1, <2>2, SameKeeps
<1>26. ASSUME NEW d \in Conns, NEW kind \in Methods, ReadFrame(d, kind) PROVE \A c \in Conns : ConnInvOf(c)'
  <2>1. \A c \in Conns \ {d} : Same(c)
    BY <1>26 DEF ReadFrame, Same, Types
  <2>2. ConnInvOf(d)'
    BY <1>26, <1>a DEF ReadFrame, ConnInvOf, SocketOf, InMaps, OneCleaner, Unregistered, Handshaking, None, Types
  <2> QED
    BY <1>a, <2>1, <2>2, SameKeeps
<1>27. CASE Shutdown
  <2>1. \A c \in Conns : sock[c] = "closed" => sock'[c] = "closed"
    BY <1>27 DEF Shutdown, Types
  <2>2. \A c \in Conns : sock'[c] = "none" <=> sock[c] = "none"
    BY <1>27, <1>a DEF Shutdown, ConnInvOf, SocketOf, InMaps, OneCleaner, Unregistered, Handshaking, None, Types
  <2> QED
    BY <1>27, <1>a, <2>1, <2>2 DEF Shutdown, ConnInvOf, SocketOf, InMaps, OneCleaner
<1>28. ASSUME \/ \E d \in Conns : PanicTimeout(d) \/ CloseConnection(d)
             \/ CreateVHost \/ DeleteVHost \/ Overview \/ Signal \/ BeginShutdown
             \/ WaitForConns \/ Waited \/ UNCHANGED vars
      PROVE  \A c \in Conns : ConnInvOf(c)'
  <2>1. UNCHANGED <<peer, sock, serve, monitor, connInfos, ids, cleaning, cleaner, cleanups, cleanedUp, targets>>
    BY <1>28 DEF PanicTimeout, CloseConnection, CreateVHost, DeleteVHost, Overview, Signal, BeginShutdown,
       WaitForConns, Waited, vars
  <2>2. \A c \in Conns : Same(c)
    BY <2>1 DEF Same
  <2> QED
    BY <1>a, <2>2, SameKeeps
<1>29. CASE BroadcastConnectionClose
  <2>1. \A c \in connInfos : serve[c] # "none"
    BY <1>a DEF ConnInvOf, InMaps, Unregistered, Types
  <2> QED
    BY <1>29, <1>a, <2>1 DEF BroadcastConnectionClose, ConnInvOf, SocketOf, InMaps, OneCleaner
<1> QED
  BY <1>1, <1>2, <1>3, <1>4, <1>5, <1>6, <1>7, <1>8, <1>9, <1>10, <1>11, <1>12, <1>13, <1>14, <1>15,
     <1>16, <1>17, <1>18, <1>19, <1>20, <1>21, <1>22, <1>23, <1>24, <1>25, <1>26, <1>27, <1>28, <1>29
  DEF Next, Serving, Cleaning, Main

-----------------------------------------------------------------------------
(* The broadcast.  What was reached stays reached, b.connInfos does not    *)
(* grow during the shutdown, and a target is dropped when it is reached.   *)
Progress ==
    /\ \A c \in Conns : Reached(c) => Reached(c)'
    /\ ShuttingDown => connInfos' \subseteq connInfos
    /\ main = "broadcasting" => \A c \in targets : c \in targets' \/ Reached(c)'

LEMMA ProgressSteps ==
    ASSUME Types, ConnInv, [Next]_vars
    PROVE  Progress
<1>a. \A c \in Conns : SocketOf(c)
  BY DEF ConnInv
<1> USE DEF sockets, registry, cleanup, process, offMain, CloseConn, Progress, Reached
<1>1. ASSUME NEW d \in Conns, Connect(d) PROVE Progress
  BY <1>1, <1>a DEF Connect, Types, SocketOf
<1>2. ASSUME NEW d \in Conns, Gone(d) PROVE Progress
  BY <1>2, <1>a DEF Gone, Types
<1>3. ASSUME NEW d \in Conns, Silent(d) PROVE Progress
  BY <1>3, <1>a DEF Silent, Types
<1>4. ASSUME NEW d \in Conns, Accept(d) PROVE Progress
  BY <1>4, <1>a DEF Accept, Types
<1>5. ASSUME NEW d \in Conns, HandshakeFails(d) PROVE Progress
  BY <1>5, <1>a DEF HandshakeFails, Types
<1>6. ASSUME NEW d \in Conns, RegisterInfo(d) PROVE Progress
  BY <1>6, <1>a DEF RegisterInfo, Types
<1>7. ASSUME NEW d \in Conns, FrameTooLarge(d) PROVE Progress
  BY <1>7, <1>a DEF FrameTooLarge, Types
<1>8. ASSUME NEW d \in Conns, PanicCleaned(d) PROVE Progress
  BY <1>8, <1>a DEF PanicCleaned, Types
<1>9. ASSUME NEW d \in Conns, CleanInfo(d) PROVE Progress
  BY <1>9, <1>a DEF CleanInfo, Types
<1>10. ASSUME NEW d \in Conns, CleanSocket(d) PROVE Progress
  BY <1>10, <1>a DEF CleanSocket, Types
<1>11. ASSUME NEW d \in Conns, HeartbeatTimeout(d) PROVE Progress
  BY <1>11, <1>a DEF HeartbeatTimeout, Types
<1>12. ASSUME NEW d \in Conns, HeartbeatPanic(d) PROVE Progress
  BY <1>12, <1>a DEF HeartbeatPanic, Types
<1>13. ASSUME NEW d \in Conns, BroadcastTo(d) PROVE Progress
  BY <1>13, <1>a DEF BroadcastTo, Types
<1>14. ASSUME NEW d \in Conns, NEW kind \in Methods, ReadFrame(d, kind) PROVE Progress
  BY <1>14, <1>a DEF ReadFrame, Types
<1>15. CASE Shutdown
  BY <1>15, <1>a DEF Shutdown, Types
<1>16. CASE BroadcastConnectionClose
  BY <1>16, <1>a DEF BroadcastConnectionClose, MainGoes, Types
<1>17. ASSUME \E d \in Conns : Handshake(d) \/ RegisterID(d) \/ ReadFails(d) \/ Ignore(d) \/ CloseRequested(d) \/ StartMethod(d)
      PROVE  Progress
  BY <1>17, <1>a DEF Handshake, RegisterID, ReadFails, Ignore, CloseRequested, StartMethod, Types
<1>18. ASSUME \E d \in Conns : EndMethod(d) \/ Panic(d) \/ PanicTimeout(d) \/ Leave(d) \/ CleanIds(d) \/ CleanVHost(d)
      PROVE  Progress
  BY <1>18, <1>a DEF EndMethod, Panic, PanicTimeout, Leave, CleanIds, CleanVHost, Types
<1>19. ASSUME \E d \in Conns : MonitorEnds(d) \/ CloseConnection(d) PROVE Progress
  BY <1>19, <1>a DEF MonitorEnds, CloseConnection, Types
<1>20. CASE CreateVHost \/ DeleteVHost \/ Overview \/ Signal \/ BeginShutdown \/ WaitForConns \/ Waited \/ UNCHANGED vars
  BY <1>20, <1>a DEF CreateVHost, DeleteVHost, Overview, Signal, BeginShutdown, WaitForConns, Waited, vars, Types
<1> QED
  BY <1>1, <1>2, <1>3, <1>4, <1>5, <1>6, <1>7, <1>8, <1>9, <1>10, <1>11, <1>12, <1>13, <1>14, <1>15,
     <1>16, <1>17, <1>18, <1>19, <1>20
  DEF Next, Serving, Cleaning, Main

LEMMA BroadcastNext == Types /\ ConnInv /\ BroadcastInv /\ [Next]_vars => BroadcastInv'
<1> SUFFICES ASSUME Types, ConnInv, BroadcastInv, [Next]_vars PROVE BroadcastInv'
  OBVIOUS
<1>a. Progress
  BY ProgressSteps
<1>1. ASSUME main' = "broadcasting" PROVE \A c \in connInfos' : (c \in targets \/ Reached(c))'
  <2>1. CASE main = "broadcasting"
    <3>1. connInfos' \subseteq connInfos /\ connInfos \subseteq Conns
      BY <1>a, <2>1 DEF Progress, ShuttingDown, Types
    <3> QED
      BY <1>a, <2>1, <3>1 DEF Progress, BroadcastInv
  <2>2. CASE main # "broadcasting"
    <3>1. BroadcastConnectionClose
      BY <1>1, <2>2, MainSteps DEF WaitForConns, Waited, MainGoes
    <3> QED
      BY <3>1 DEF BroadcastConnectionClose, offMain, registry
  <2> QED
    BY <2>1, <2>2
<1>2. ASSUME main' \in {"waiting", "closing"} PROVE \A c \in connInfos' : Reached(c)'
  <2>1. CASE main \in {"waiting", "closing"}
    <3>1. connInfos' \subseteq connInfos /\ connInfos \subseteq Conns
      BY <1>a, <2>1 DEF Progress, ShuttingDown, Types
    <3> QED
      BY <1>a, <2>1, <3>1 DEF Progress, BroadcastInv, ShutdownReachesAll, Reached
  <2>2. CASE main \notin {"waiting", "closing"}
    <3>1. WaitForConns
      BY <1>2, <2>2, MainSteps DEF BroadcastConnectionClose, Waited, MainGoes
    <3>2. main = "broadcasting" /\ targets = {} /\ UNCHANGED connInfos /\ connInfos \subseteq Conns
      BY <3>1 DEF WaitForConns, MainGoes, offMain, registry, Types
    <3> QED
      BY <1>a, <3>2 DEF Progress, BroadcastInv
  <2> QED
    BY <2>1, <2>2
<1> QED
  BY <1>1, <1>2 DEF BroadcastInv, ShutdownReachesAll, Reached

-----------------------------------------------------------------------------
LEMMA Inductive == /\ Init => IInv
                   /\ IInv /\ [Next]_vars => IInv'
<1>1. Init => BroadcastInv
  BY DEF Init, BroadcastInv, ShutdownReachesAll
<1>2. Init => IInv
  BY <1>1, WaitInit, ConnInit DEF IInv, WaitInv
<1>3. IInv /\ [Next]_vars => IInv'
  BY WaitNext, ConnNext, BroadcastNext DEF IInv, WaitInv
<1> QED
  BY <1>2, <1>3

(* Spec implies that no connection outlives BroadcastConnectionClose       *)
(* without having been sent connection.close: what registers too late is   *)
(* refused by registerConnection.                                          *)
THEOREM BroadcastReachesAll == Spec => []ShutdownReachesAll
<1>1. IInv => ShutdownReachesAll
  BY DEF IInv, BroadcastInv
<1> QED
  BY <1>1, Inductive, PTL DEF Spec

(* Spec implies that of the goroutines that notice the end of a connection *)
(* one cleans it up, and that nothing of it is left when they are done.    *)
THEOREM CleanedUpOnce == Spec => []NothingLeft
<1>1. IInv => NothingLeft
  <2> SUFFICES ASSUME IInv, NEW c \in Conns
               PROVE  /\ cleanups[c] <= 1
                      /\ serve[c] = "done" /\ monitor[c] \in {"none", "done"} =>
                             c \notin connInfos \union ids /\ sock[c] = "closed"
    BY DEF NothingLeft
  <2>1. InMaps(c) /\ OneCleaner(c) /\ cleaner[c] \in {None, "monitor", "serve", "watchdog"}
    BY DEF IInv, ConnInv, Types
  <2>2. cleanups[c] <= 1
    BY <2>1 DEF InMaps
  <2>3. ASSUME serve[c] = "done", monitor[c] \in {"none", "done"}
        PROVE  c \notin connInfos \union ids /\ sock[c] = "closed"
    <3>1. cleaning[c] = None
      BY <2>1, <2>3 DEF OneCleaner
    <3> QED
      BY <2>1, <2>3, <3>1 DEF InMaps, Unregistered, Handshaking
  <2> QED
    BY <2>2, <2>3
<1> QED
  BY <1>1, Inductive, PTL DEF Spec

-----------------------------------------------------------------------------
(***************************************************************************)
(* The frame loop.  The types first: what a channel, the client and the    *)
(* vhost can hold, given the messages there are.                           *)
(***************************************************************************)
HeaderRead(m) == ParseHeader(ClientHeader(Messages[m]))
PropsRead == {HeaderRead(m).val.props : m \in DOMAIN Messages}
Payloads == UNION {{Frames[x][n].payload : n \in DOMAIN Frames[x]} : x \in (DOMAIN Messages) \X FrameMaxes}
KeysRead == {ParsePublish(Messages[m]).key : m \in DOMAIN Messages} \cup {<<>>}
MandatoryRead == {ParsePublish(Messages[m]).mandatory : m \in DOMAIN Messages} \cup {FALSE}
MethodRead == [kind : {"none", "open", "publish"}, key : KeysRead, mandatory : MandatoryRead]
StateSet == [method : MethodRead, header : PropsRead \cup {Nothing}, size : Nat,
             body : Payloads \cup {Nothing}, closing : BOOLEAN]
Sends == {s \in [msg : DOMAIN Messages, next : Nat, max : FrameMaxes] :
             s.next \in DOMAIN Frames[<<s.msg, s.max>>]}
Fates == [at : {"unsent", "sending", "sent", "done"}, on : Nat]
Handed == [from : DOMAIN Messages, key : KeysRead, props : PropsRead \cup {Nothing}, body : Payloads \cup {Nothing}]

LoopType ==
    /\ phase \in [Peers -> {"tuning", "serving", "told", "closing", "closed"}]
    /\ offer \in [Peers -> Limits] /\ negotiated \in [Peers -> Limits]
    /\ DOMAIN channels \subseteq Channels /\ channels \in [DOMAIN channels -> StateSet]
    /\ channelNum \in Nat
    /\ sending \in [Channels -> Sends \cup {Nothing}]
    /\ fate \in [DOMAIN Messages -> Fates]
    /\ mixed \in BOOLEAN /\ stalled \subseteq Channels
    /\ published \in Seq(Handed)

(* The limits are those the peers agreed on, and what is sent is on an     *)
(* open channel, which is the loop's own unless the client mixes channels. *)
Agreed ==
    /\ \A c \in Peers : phase[c] \in {"serving", "told", "closing"} =>
          offer[c] \in TuneOks /\ negotiated[c] = Negotiate(offer[c]) /\ negotiated[c] # Refused
    /\ phase[Pub] \in {"tuning", "closed"} => DOMAIN channels = {}
    /\ phase[Pub] = "tuning" => published = <<>> /\ \A m \in DOMAIN Messages : fate[m].at = "unsent"
    /\ \A ch \in DOMAIN channels : 0 < ch /\ ch <= negotiated[Pub].channelMax
OnItsChannel ==
    \A ch \in Channels : sending[ch] # Nothing =>
        /\ ch \in DOMAIN channels
        /\ fate[sending[ch].msg].at # "unsent" /\ fate[sending[ch].msg].on = ch
        /\ ~mixed => channelNum = ch

(* A channel of a client that does not mix: its state is that of a channel *)
(* no content is due on, it follows the message being sent, or it is dead: *)
(* whatever comes, it completes nothing.                                   *)
Clean(st) == st.header = Nothing /\ st.body = Nothing /\ st.method.kind \in {"none", "open"}
Following(st, s) ==
    /\ st.method.kind = "publish" /\ st.method.key = Messages[s.msg].key /\ st.body = Nothing
    /\ \/ s.next = 1 /\ st.header = Nothing
       \/ /\ s.next = 2 /\ st.size > 0
          /\ HeaderRead(s.msg).ok /\ st.header = HeaderRead(s.msg).val.props /\ st.size = HeaderRead(s.msg).val.size
Dead(st, isStalled, ph) ==
    /\ st.method.kind = "publish" /\ st.header # Nothing
    /\ \/ st.size = 0 /\ isStalled
       \/ st.size > 0 /\ st.body # Nothing /\ Len(st.body) # st.size /\ ph # "serving"
ChannelOk(st, s, isStalled, ph) ==
    \/ st.closing
    \/ Dead(st, isStalled, ph)
    \/ s = Nothing /\ Clean(st)
    \/ s # Nothing /\ Following(st, s)
ChannelsOk ==
    ~mixed /\ Calling => \A ch \in DOMAIN channels :
                            ChannelOk(channels[ch], sending[ch], ch \in stalled, phase[Pub])

SentAnswered ==
    \A m \in DOMAIN Messages : fate[m].at = "sent" =>
        \/ mixed \/ phase[Pub] # "serving" \/ fate[m].on \in stalled
        \/ fate[m].on \in DOMAIN channels /\ channels[fate[m].on].closing

AsSent(p, max) ==
    /\ p.key = Messages[p.from].key /\ p.body = Messages[p.from].body
    /\ DOMAIN p.props = Kept(Messages[p.from].props) /\ Fits(p.body, max)
HandedAsSent == ~mixed => published \in Seq({p \in Handed : AsSent(p, negotiated[Pub].frameMax)})

LoopInv == LoopType /\ Agreed /\ OnItsChannel /\ ChannelsOk /\ SentAnswered /\ HandedAsSent

-----------------------------------------------------------------------------
(* Limits (tuning.go). *)
LEMMA TuningLimits == Tuning \in Limits /\ Tuning.frameMax >= FrameMinSize
<1>1. Server \in Limits /\ FrameMinSize \in Nat /\ DefaultFrameMax \in Nat /\ DefaultFrameMax >= FrameMinSize
  BY FrameLoopAssumption
<1> QED
  BY <1>1 DEF Tuning, NewServerTuning, Limits

LEMMA ShortInts ==
    ASSUME NEW a \in 0..MaxUint16, NEW b \in 0..MaxUint16
    PROVE  /\ GetSmalestShortInt(a, b) \in 1..MaxUint16
           /\ GetSmalestShortInt(a, b) <= NoLimit(a) /\ GetSmalestShortInt(a, b) <= NoLimit(b)
<1>1. MaxUint16 \in Nat /\ MaxUint16 > 0
  BY DEF MaxUint16
<1>2. ASSUME NEW n \in 0..MaxUint16 PROVE NoLimit(n) \in 1..MaxUint16
  BY <1>1 DEF NoLimit
<1>3. NoLimit(a) \in 1..MaxUint16 /\ NoLimit(b) \in 1..MaxUint16
  BY <1>2
<1> QED
  BY <1>1, <1>3 DEF GetSmalestShortInt

LEMMA NegotiateRefuses ==
    ASSUME NEW t \in TuneOks, NEW f, f = IF t.frameMax = 0 THEN Tuning.frameMax ELSE t.frameMax
    PROVE  /\ f < FrameMinSize \/ f > Tuning.frameMax => Negotiate(t) = Refused
           /\ ~(f < FrameMinSize \/ f > Tuning.frameMax) =>
                Negotiate(t) = [channelMax |-> GetSmalestShortInt(Tuning.channelMax, t.channelMax),
                                frameMax |-> f,
                                heartbeat |-> IF Tuning.heartbeat # 0 /\ t.heartbeat > Tuning.heartbeat
                                              THEN Tuning.heartbeat ELSE t.heartbeat]
BY DEF Negotiate

LEMMA NegotiateLimits ==
    ASSUME NEW t \in TuneOks
    PROVE  /\ t \in Limits /\ Negotiate(t) \in Limits
           /\ Negotiate(t) # Refused =>
                /\ Negotiate(t).frameMax \in FrameMaxes /\ Negotiate(t).frameMax >= FrameMinSize
                /\ Negotiate(t).channelMax <= NoLimit(t.channelMax)
                /\ Negotiate(t).channelMax <= NoLimit(Tuning.channelMax)
                /\ IF t.heartbeat = 0 THEN Negotiate(t).heartbeat = 0
                   ELSE Negotiate(t).heartbeat > 0 /\ Negotiate(t).heartbeat <= t.heartbeat
<1> DEFINE f == IF t.frameMax = 0 THEN Tuning.frameMax ELSE t.frameMax
           h == IF Tuning.heartbeat # 0 /\ t.heartbeat > Tuning.heartbeat THEN Tuning.heartbeat ELSE t.heartbeat
<1>1. t \in Limits
  BY FrameLoopAssumption
<1>2. Refused \in Limits
  BY DEF Refused, Limits, MaxUint16
<1>3. /\ Tuning.channelMax \in 0..MaxUint16 /\ t.channelMax \in 0..MaxUint16
      /\ Tuning.heartbeat \in Nat /\ t.heartbeat \in Nat /\ FrameMinSize \in Nat
      /\ f \in Nat
  BY <1>1, TuningLimits, FrameLoopAssumption DEF Limits
<1>4. h \in Nat /\ IF t.heartbeat = 0 THEN h = 0 ELSE h > 0 /\ h <= t.heartbeat
  BY <1>3
<1>5. CASE f < FrameMinSize \/ f > Tuning.frameMax
  BY <1>1, <1>2, <1>5, NegotiateRefuses
<1>6. CASE ~(f < FrameMinSize \/ f > Tuning.frameMax)
  <2>1. Negotiate(t) = [channelMax |-> GetSmalestShortInt(Tuning.channelMax, t.channelMax), frameMax |-> f, heartbeat |-> h]
    BY <1>6, NegotiateRefuses
  <2>2. /\ Negotiate(t).frameMax = f /\ Negotiate(t).heartbeat = h
        /\ Negotiate(t).channelMax = GetSmalestShortInt(Tuning.channelMax, t.channelMax)
    BY <2>1
  <2>3. /\ GetSmalestShortInt(Tuning.channelMax, t.channelMax) \in 1..MaxUint16
        /\ GetSmalestShortInt(Tuning.channelMax, t.channelMax) <= NoLimit(t.channelMax)
        /\ GetSmalestShortInt(Tuning.channelMax, t.channelMax) <= NoLimit(Tuning.channelMax)
    BY <1>3, ShortInts
  <2> HIDE DEF f, h
  <2>4. Negotiate(t) \in Limits
    <3>1. GetSmalestShortInt(Tuning.channelMax, t.channelMax) \in 0..MaxUint16
      <4>1. \A M \in Nat : \A n \in 1..M : n \in 0..M
        OBVIOUS
      <4>2. MaxUint16 \in Nat
        BY DEF MaxUint16
      <4> QED
        BY <2>3, <4>1, <4>2
    <3> QED
      BY <1>3, <1>4, <2>1, <3>1 DEF Limits
  <2>5. f >= FrameMinSize
    BY <1>3, <1>6
  <2>6. Negotiate(t) # Refused => Negotiate(t).frameMax \in FrameMaxes
    BY DEF FrameMaxes
  <2> QED
    BY <1>1, <1>4, <2>2, <2>3, <2>4, <2>5, <2>6
<1> QED
  BY <1>5, <1>6

LEMMA FrameMaxesLarge ==
    ASSUME NEW max \in FrameMaxes
    PROVE  max \in Nat /\ max > FrameOverhead
<1>1. FrameMinSize \in Nat /\ FrameMinSize > FrameOverhead /\ FrameOverhead \in Nat
  BY FrameLoopAssumption DEF FrameOverhead
<1>2. CASE max = Tuning.frameMax
  <2>1. max \in Nat /\ max >= FrameMinSize
    BY <1>2, TuningLimits DEF Limits
  <2> QED
    BY <1>1, <2>1
<1>3. ASSUME NEW t \in TuneOks, Negotiate(t) # Refused, max = Negotiate(t).frameMax
      PROVE  max \in Nat /\ max > FrameOverhead
  <2>1. max \in Nat /\ max >= FrameMinSize
    BY <1>3, NegotiateLimits DEF Limits
  <2> QED
    BY <1>1, <2>1
<1> QED
  BY <1>2, <1>3 DEF FrameMaxes

(* The client's frames. *)
LEMMA Ceiling ==
    ASSUME NEW L \in Nat, NEW room \in Nat, room > 0
    PROVE  /\ (L + room - 1) \div room \in Nat
           /\ L = 0 => (L + room - 1) \div room = 0
           /\ L > 0 => (L + room - 1) \div room >= 1
           /\ L > 0 /\ L <= room => (L + room - 1) \div room = 1
<1> DEFINE q == (L + room - 1) \div room
<1>1. q \in Int /\ room * q <= L + room - 1 /\ L + room - 1 < room * q + room
  OBVIOUS
<1> HIDE DEF q
<1>2. q > -1
  <2>1. \A x \in Int : x <= -1 => room * x <= -room
    OBVIOUS
  <2> QED
    BY <1>1, <2>1
<1>3. \A x \in Int : x >= 1 => room * x >= room
  OBVIOUS
<1>4. \A x \in Int : x >= 2 => room * x >= 2 * room
  OBVIOUS
<1>5. room * 0 = 0
  OBVIOUS
<1> QED
  BY <1>1, <1>2, <1>3, <1>4, <1>5 DEF q

LEMMA FrameFacts ==
    ASSUME NEW m \in DOMAIN Messages, NEW max \in FrameMaxes, NEW f, f = Frames[<<m, max>>]
    PROVE  /\ Len(f) \in Nat /\ Len(f) >= 1 /\ DOMAIN f = 1..Len(f)
           /\ f[1].type = 2 /\ f[1].payload = ClientHeader(Messages[m])
           /\ \A n \in 2..Len(f) : f[n].type = 3
           /\ \A n \in DOMAIN f : f[n].payload \in Payloads /\ f[n].payload # Nothing
           /\ Messages[m].body = <<>> <=> Len(f) = 1
           /\ Len(f) >= 2 /\ Len(f[2].payload) = Len(Messages[m].body) => Len(f) = 2 /\ f[2].payload = Messages[m].body
<1> DEFINE body == Messages[m].body
           room == max - FrameOverhead
           count == (Len(body) + room - 1) \div room
           chunk(n) == SubSeq(body, (n - 1) * room + 1, IF n * room < Len(body) THEN n * room ELSE Len(body))
           tail == [n \in 1..count |-> [type |-> 3, payload |-> chunk(n)]]
           first == [type |-> 2, payload |-> ClientHeader(Messages[m])]
<1>1. body \in Seq(0..255) /\ Len(body) \in Nat
  BY FrameLoopAssumption
<1>2. room \in Nat /\ room > 0
  BY FrameMaxesLarge DEF FrameOverhead
<1>3. /\ count \in Nat /\ (Len(body) = 0 => count = 0) /\ (Len(body) > 0 => count >= 1)
      /\ (Len(body) > 0 /\ Len(body) <= room => count = 1)
  BY <1>1, <1>2, Ceiling
<1>4. f = <<first>> \o tail
  <2>1. f = ContentFrames(Messages[m], max)
    BY DEF Frames
  <2>2. BodyChunks(body, room) = [n \in 1..count |-> chunk(n)]
    BY DEF BodyChunks
  <2>3. DOMAIN [n \in 1..count |-> chunk(n)] = 1..count
    OBVIOUS
  <2>4. [n \in 1..count |-> [type |-> 3, payload |-> [k \in 1..count |-> chunk(k)][n]]] = tail
    OBVIOUS
  <2> QED
    BY <2>1, <2>2, <2>3, <2>4 DEF ContentFrames
<1> HIDE DEF count
<1>5. Len(f) = 1 + count /\ f[1] = first /\ DOMAIN f = 1..(1 + count) /\ \A n \in 2..(1 + count) : f[n] = tail[n - 1]
  <2>1. \E S : <<first>> \in Seq(S) /\ tail \in Seq(S)
    <3> DEFINE S == {first} \cup {tail[n] : n \in 1..count}
    <3>1. <<first>> \in Seq(S)
      OBVIOUS
    <3>2. tail \in [1..count -> S]
      OBVIOUS
    <3>3. \A t : t \in [1..count -> S] => t \in Seq(S)
      BY <1>3
    <3>4. tail \in Seq(S)
      BY <3>2, <3>3
    <3> QED
      BY <3>1, <3>4
  <2>2. Len(tail) = count /\ Len(<<first>>) = 1 /\ <<first>>[1] = first
    BY <1>3
  <2> HIDE DEF tail, first
  <2>3. PICK S : <<first>> \in Seq(S) /\ tail \in Seq(S)
    BY <2>1
  <2> QED
    BY <1>3, <1>4, <2>2, <2>3
<1>6. \A n \in 2..(1 + count) : n - 1 \in 1..count /\ f[n] = [type |-> 3, payload |-> chunk(n - 1)]
  <2>1. \A n \in 2..(1 + count) : n - 1 \in 1..count
    BY <1>3
  <2>2. \A k \in 1..count : tail[k] = [type |-> 3, payload |-> chunk(k)]
    OBVIOUS
  <2> HIDE DEF tail, chunk
  <2> QED
    BY <1>5, <2>1, <2>2
<1>7. first.type = 2 /\ first.payload = ClientHeader(Messages[m])
  OBVIOUS
<1>8. \A n \in DOMAIN f : f[n].payload \in Payloads /\ f[n].payload # Nothing
  <2>1. \A n \in DOMAIN Frames[<<m, max>>] : Frames[<<m, max>>][n].payload \in Payloads
    BY DEF Payloads
  <2>2. \A n \in DOMAIN Frames[<<m, max>>] : Frames[<<m, max>>][n].payload # Nothing
    BY FrameLoopAssumption
  <2> QED
    BY <2>1, <2>2
<1>9. body = <<>> <=> Len(f) = 1
  <2>1. body = <<>> <=> Len(body) = 0
    BY <1>1
  <2> QED
    BY <1>1, <1>3, <1>5, <2>1
<1>10. ASSUME Len(f) >= 2, Len(f[2].payload) = Len(body) PROVE Len(f) = 2 /\ f[2].payload = body
  <2>1. count >= 1 /\ Len(body) > 0
    BY <1>1, <1>3, <1>5, <1>10
  <2>2. f[2].payload = chunk(1)
    <3>1. 2 \in 2..(1 + count) /\ 2 - 1 = 1
      BY <1>3, <2>1
    <3>2. f[2] = [type |-> 3, payload |-> chunk(1)]
      BY <1>6, <3>1
    <3> HIDE DEF chunk
    <3> QED
      BY <3>2
  <2>3. chunk(1) = SubSeq(body, 1, IF room < Len(body) THEN room ELSE Len(body))
    <3>1. (1 - 1) * room + 1 = 1 /\ 1 * room = room
      BY <1>2
    <3> QED
      BY <3>1
  <2> HIDE DEF chunk, body, room
  <2>4. CASE room < Len(body)
    <3>1. Len(SubSeq(body, 1, room)) = room
      BY <1>1, <1>2, <2>4
    <3> QED
      BY <1>1, <1>2, <1>10, <2>2, <2>3, <2>4, <3>1
  <2>5. CASE ~(room < Len(body))
    <3>1. SubSeq(body, 1, Len(body)) = body
      BY <1>1
    <3>2. count = 1
      BY <1>1, <1>2, <1>3, <2>1, <2>5
    <3> QED
      BY <1>5, <2>2, <2>3, <2>5, <3>1, <3>2
  <2> QED
    BY <2>4, <2>5
<1> HIDE DEF chunk, first, tail
<1>11. \A n \in 2..Len(f) : f[n].type = 3
  <2> SUFFICES ASSUME NEW n \in 2..(1 + count) PROVE f[n].type = 3
    BY <1>5
  <2>1. f[n] = [type |-> 3, payload |-> chunk(n - 1)]
    BY <1>6
  <2> QED
    BY <2>1
<1>12. Len(f) \in Nat /\ Len(f) >= 1 /\ DOMAIN f = 1..Len(f)
  BY <1>3, <1>5
<1>13. f[1].type = 2 /\ f[1].payload = ClientHeader(Messages[m])
  BY <1>5, <1>7
<1> QED
  BY <1>8, <1>9, <1>10, <1>11, <1>12, <1>13 DEF body

-----------------------------------------------------------------------------
(* The invariant holds at first, and the steps that only change the        *)
(* connection or its channels keep it.                                     *)
LEMMA LoopInitially == ContentInit => LoopInv
<1> SUFFICES ASSUME ContentInit PROVE LoopInv
  OBVIOUS
<1>1. LoopType
  <2>1. Refused \in Limits
    BY DEF Refused, Limits, MaxUint16
  <2>2. phase \in [Peers -> {"tuning", "serving", "told", "closing", "closed"}] /\ offer \in [Peers -> Limits] /\ negotiated \in [Peers -> Limits]
    BY <2>1 DEF ContentInit
  <2>3. DOMAIN channels = {} /\ channels \in [DOMAIN channels -> StateSet]
    BY DEF ContentInit
  <2>4. sending \in [Channels -> Sends \cup {Nothing}]
    BY DEF ContentInit
  <2>5. fate \in [DOMAIN Messages -> Fates]
    BY DEF ContentInit, Fates
  <2>6. published \in Seq(Handed)
    BY DEF ContentInit
  <2> QED
    BY <2>2, <2>3, <2>4, <2>5, <2>6 DEF ContentInit, LoopType
<1>2. DOMAIN channels = {} /\ \A c \in Peers : phase[c] = "tuning"
  BY DEF ContentInit
<1>3. \A m \in DOMAIN Messages : fate[m].at = "unsent"
  BY DEF ContentInit
<1>4. Agreed
  BY <1>2, <1>3 DEF Agreed, ContentInit
<1>5. OnItsChannel
  BY DEF OnItsChannel, ContentInit
<1>6. ChannelsOk
  BY <1>2 DEF ChannelsOk
<1>7. SentAnswered
  BY <1>3 DEF SentAnswered
<1>8. HandedAsSent
  BY DEF HandedAsSent, ContentInit
<1> QED
  BY <1>1, <1>4, <1>5, <1>6, <1>7, <1>8 DEF LoopInv

LEMMA TuneOkKeeps == ASSUME LoopInv, NEW c \in Peers, TuneOk(c) PROVE LoopInv'
<1> USE DEF LoopInv
<1>1. PICK t \in TuneOks :
        /\ offer' = [offer EXCEPT ![c] = t] /\ negotiated' = [negotiated EXCEPT ![c] = Negotiate(t)]
        /\ phase' = [phase EXCEPT ![c] = IF Negotiate(t) = Refused THEN "closed" ELSE "serving"]
  BY DEF TuneOk
<1>2. /\ phase[c] = "tuning"
      /\ UNCHANGED <<channels, channelNum, sending, fate, mixed, stalled, published>>
  BY DEF TuneOk
<1>3. t \in Limits /\ Negotiate(t) \in Limits
  BY NegotiateLimits
<1>4. LoopType'
  <2>1. /\ phase' \in [Peers -> {"tuning", "serving", "told", "closing", "closed"}]
        /\ offer' \in [Peers -> Limits] /\ negotiated' \in [Peers -> Limits]
    BY <1>1, <1>3 DEF LoopType
  <2> QED
    BY <1>2, <2>1 DEF LoopType
<1>5. \A d \in Peers : d # c => phase'[d] = phase[d] /\ offer'[d] = offer[d] /\ negotiated'[d] = negotiated[d]
  BY <1>1 DEF LoopType
<1>6. /\ offer'[c] = t /\ negotiated'[c] = Negotiate(t)
      /\ phase'[c] = IF Negotiate(t) = Refused THEN "closed" ELSE "serving"
  BY <1>1 DEF LoopType
<1>7. Pub \in Peers
  BY DEF Peers
<1>8. c = Pub => DOMAIN channels = {} /\ published = <<>> /\ \A m \in DOMAIN Messages : fate[m].at = "unsent"
  BY <1>2 DEF Agreed
<1>9. c # Pub => phase'[Pub] = phase[Pub] /\ negotiated'[Pub] = negotiated[Pub]
  BY <1>5, <1>7
<1>10. Agreed'
  <2>1. \A d \in Peers : phase'[d] \in {"serving", "told", "closing"} =>
           offer'[d] \in TuneOks /\ negotiated'[d] = Negotiate(offer'[d]) /\ negotiated'[d] # Refused
    BY <1>5, <1>6 DEF Agreed
  <2>2. phase'[Pub] \in {"tuning", "closed"} => DOMAIN channels = {}
    BY <1>8, <1>9 DEF Agreed
  <2>3. phase'[Pub] = "tuning" => published = <<>> /\ \A m \in DOMAIN Messages : fate[m].at = "unsent"
    BY <1>8, <1>9 DEF Agreed
  <2>4. \A ch \in DOMAIN channels : 0 < ch /\ ch <= negotiated'[Pub].channelMax
    BY <1>8, <1>9 DEF Agreed
  <2> QED
    BY <1>2, <2>1, <2>2, <2>3, <2>4 DEF Agreed
<1>11. OnItsChannel'
  BY <1>2 DEF OnItsChannel
<1>12. ChannelsOk'
  BY <1>2, <1>8, <1>9 DEF ChannelsOk, Calling
<1>13. SentAnswered'
  BY <1>2, <1>8, <1>9 DEF SentAnswered
<1>14. HandedAsSent'
  BY <1>2, <1>8, <1>9 DEF HandedAsSent
<1> QED
  BY <1>4, <1>10, <1>11, <1>12, <1>13, <1>14

(* The socket is closed: nothing is left to keep but what was handed over. *)
LEMMA ClosedKeeps ==
    ASSUME LoopInv, Closed, UNCHANGED <<offer, negotiated, mixed>>, phase[Pub] # "tuning"
    PROVE  LoopInv'
<1> USE DEF LoopInv
<1>1. /\ phase' = [phase EXCEPT ![Pub] = "closed"] /\ channels' = <<>> /\ channelNum' = 0
      /\ sending' = [ch \in Channels |-> Nothing] /\ stalled' = {} /\ published' = published
      /\ fate' = [m \in DOMAIN fate |-> IF fate[m].on \in Channels /\ fate[m].at \in {"sending", "sent"}
                                        THEN [fate[m] EXCEPT !.at = "done"] ELSE fate[m]]
  BY DEF Closed, Become, GivenUp
<1>2. Pub \in Peers
  BY DEF Peers
<1>3. phase' \in [Peers -> {"tuning", "serving", "told", "closing", "closed"}] /\ phase'[Pub] = "closed"
      /\ \A d \in Peers : d # Pub => phase'[d] = phase[d]
  BY <1>1, <1>2 DEF LoopType
<1>4. DOMAIN channels' = {} /\ channels' \in [DOMAIN channels' -> StateSet]
  BY <1>1
<1>5. fate' \in [DOMAIN Messages -> Fates]
  <2>1. DOMAIN fate = DOMAIN Messages /\ \A m \in DOMAIN Messages : fate[m] \in Fates
    BY DEF LoopType
  <2>2. \A x \in Fates : [x EXCEPT !.at = "done"] \in Fates
    BY DEF Fates
  <2> QED
    BY <1>1, <2>1, <2>2
<1>6. LoopType'
  BY <1>1, <1>3, <1>4, <1>5 DEF LoopType
<1>7. Agreed'
  BY <1>3, <1>4 DEF Agreed
<1>8. OnItsChannel'
  BY <1>1 DEF OnItsChannel
<1>9. ChannelsOk' /\ SentAnswered'
  BY <1>3 DEF ChannelsOk, Calling, SentAnswered
<1>10. HandedAsSent'
  BY <1>1 DEF HandedAsSent
<1> QED
  BY <1>6, <1>7, <1>8, <1>9, <1>10

LEMMA DeliverKeeps == ASSUME LoopInv, Deliver PROVE LoopInv'
<1> USE DEF LoopInv
<1>1. /\ published # <<>> /\ published' = Tail(published)
      /\ UNCHANGED <<phase, offer, negotiated, channels, channelNum, sending, fate, mixed, stalled>>
  BY DEF Deliver
<1>2. ASSUME NEW S, published \in Seq(S) PROVE published' \in Seq(S)
  BY <1>1, <1>2
<1>3. LoopType'
  BY <1>1, <1>2 DEF LoopType
<1>4. Agreed'
  <2>1. phase[Pub] # "tuning"
    BY <1>1 DEF Agreed
  <2> QED
    BY <1>1, <2>1 DEF Agreed
<1>5. OnItsChannel' /\ SentAnswered'
  BY <1>1 DEF OnItsChannel, SentAnswered
<1>6. ChannelsOk'
  BY <1>1 DEF ChannelsOk, Calling
<1>7. HandedAsSent'
  BY <1>1, <1>2 DEF HandedAsSent
<1> QED
  BY <1>3, <1>4, <1>5, <1>6, <1>7

(* A method frame: another channel that is sending content is now mixed.   *)
LEMMA MethodOnFacts ==
    ASSUME LoopInv, NEW ch \in Channels, MethodOn(ch)
    PROVE  /\ channelNum' = ch /\ channelNum' \in Nat /\ mixed' \in BOOLEAN /\ (~mixed' => ~mixed)
           /\ ~mixed' => \A other \in Channels : sending[other] # Nothing => other = ch
<1>1. ch \in Nat
  BY FrameLoopAssumption
<1>2. channelNum' = ch /\ mixed' = (mixed \/ \E other \in Channels \ {ch} : sending[other] # Nothing)
  BY DEF MethodOn
<1>3. mixed \in BOOLEAN
  BY DEF LoopInv, LoopType
<1>4. mixed' \in BOOLEAN
  BY <1>2, <1>3, Zenon
<1>5. ~mixed' => ~mixed
  BY <1>2, Zenon
<1>6. ~mixed' => \A other \in Channels : sending[other] # Nothing => other = ch
  BY <1>2, Zenon
<1> QED
  BY <1>1, <1>2, <1>4, <1>5, <1>6

LEMMA ClientOpenKeeps == ASSUME LoopInv, NEW ch \in Channels, ClientOpen(ch) PROVE LoopInv'
<1> USE DEF LoopInv
<1>1. /\ Calling /\ sending[ch] = Nothing /\ MethodOn(ch)
      /\ UNCHANGED <<offer, negotiated, sending, fate, stalled, published>>
  BY DEF ClientOpen
<1>2. /\ channelNum' = ch /\ channelNum' \in Nat /\ mixed' \in BOOLEAN /\ (~mixed' => ~mixed)
      /\ ~mixed' => \A other \in Channels : sending[other] # Nothing => other = ch
  BY <1>1, MethodOnFacts
<1>3. phase[Pub] \in {"serving", "told"} /\ Pub \in Peers /\ Pub \in DOMAIN phase
  BY <1>1 DEF Calling, Peers, LoopType
<1>4. HandedAsSent'
  BY <1>1, <1>2 DEF HandedAsSent
<1>5. CASE UNCHANGED <<channels, phase>>
  <2>1. LoopType'
    BY <1>1, <1>2, <1>5 DEF LoopType
  <2>2. Agreed'
    BY <1>1, <1>5 DEF Agreed
  <2>3. OnItsChannel'
    BY <1>1, <1>2, <1>5 DEF OnItsChannel
  <2>4. ChannelsOk'
    BY <1>1, <1>2, <1>5 DEF ChannelsOk, Calling
  <2>5. SentAnswered'
    BY <1>1, <1>2, <1>5, Zenon DEF SentAnswered, MethodOn
  <2> QED
    BY <1>4, <2>1, <2>2, <2>3, <2>4, <2>5
<1>6. CASE Become("closing") /\ UNCHANGED channels
  <2>1. /\ phase' \in [Peers -> {"tuning", "serving", "told", "closing", "closed"}] /\ phase'[Pub] = "closing"
        /\ \A d \in Peers : d # Pub => phase'[d] = phase[d]
    BY <1>3, <1>6 DEF Become, LoopType
  <2>2. LoopType'
    BY <1>1, <1>2, <1>6, <2>1 DEF LoopType
  <2>3. Agreed'
    BY <1>1, <1>3, <1>6, <2>1 DEF Agreed
  <2>4. OnItsChannel'
    BY <1>1, <1>2, <1>6 DEF OnItsChannel
  <2>5. ChannelsOk' /\ SentAnswered'
    BY <2>1 DEF ChannelsOk, Calling, SentAnswered
  <2> QED
    BY <1>4, <2>2, <2>3, <2>4, <2>5
<1>7. ASSUME ~Ignored(ch), ~(ch = 0 \/ ch > negotiated[Pub].channelMax \/ ch \in DOMAIN channels),
             channels' = [c \in DOMAIN channels \cup {ch} |->
                             IF c = ch THEN ChannelState([NoMethod EXCEPT !.kind = "open"]) ELSE channels[c]],
             phase' = phase
      PROVE  LoopInv'
  <2> DEFINE st == ChannelState([NoMethod EXCEPT !.kind = "open"])
  <2>1. st \in StateSet /\ Clean(st)
    <3> DEFINE me == [NoMethod EXCEPT !.kind = "open"]
    <3>1. <<>> \in KeysRead /\ FALSE \in MandatoryRead
      BY DEF KeysRead, MandatoryRead
    <3>2. NoMethod \in MethodRead
      BY <3>1 DEF NoMethod, MethodRead
    <3>3. me \in MethodRead /\ me.kind = "open"
      BY <3>2 DEF MethodRead
    <3>4. st = [method |-> me, header |-> Nothing, size |-> 0, body |-> Nothing, closing |-> FALSE]
      BY DEF ChannelState
    <3> HIDE DEF me, st
    <3>5. st \in StateSet
      BY <3>3, <3>4 DEF StateSet
    <3>6. st.header = Nothing /\ st.body = Nothing /\ st.method = me
      BY <3>4
    <3> QED
      BY <3>3, <3>5, <3>6 DEF Clean
  <2> HIDE DEF st
  <2>2. channels' = [c \in DOMAIN channels \cup {ch} |-> IF c = ch THEN st ELSE channels[c]]
    BY <1>7 DEF st
  <2>3. /\ DOMAIN channels' = DOMAIN channels \cup {ch} /\ channels'[ch] = st
        /\ \A c \in DOMAIN channels : c # ch /\ channels'[c] = channels[c]
    BY <1>7, <2>2
  <2>4. LoopType'
    <3>1. DOMAIN channels' \subseteq Channels /\ channels' \in [DOMAIN channels' -> StateSet]
      BY <2>1, <2>2, <2>3 DEF LoopType
    <3> QED
      BY <1>1, <1>2, <1>7, <3>1 DEF LoopType
  <2>5. Agreed'
    <3>1. 0 < ch /\ ch <= negotiated[Pub].channelMax
      <4>1. ch \in Nat /\ negotiated[Pub].channelMax \in Nat
        <5>1. ch \in Nat
          BY FrameLoopAssumption
        <5>2. MaxUint16 \in Nat
          BY DEF MaxUint16
        <5>3. negotiated[Pub] \in Limits
          BY <1>3 DEF LoopType
        <5> QED
          BY <5>1, <5>2, <5>3 DEF Limits
      <4> QED
        BY <1>7, <4>1
    <3> QED
      BY <1>1, <1>3, <1>7, <2>3, <3>1 DEF Agreed
  <2>6. OnItsChannel'
    BY <1>1, <1>2, <2>3 DEF OnItsChannel
  <2>7. ChannelsOk'
    <3> SUFFICES ASSUME ~mixed', NEW c \in DOMAIN channels'
                 PROVE  ChannelOk(channels'[c], sending[c], c \in stalled, phase[Pub])
      BY <1>1, <1>7 DEF ChannelsOk
    <3>1. CASE c = ch
      BY <1>1, <2>1, <2>3, <3>1 DEF ChannelOk
    <3>2. CASE c # ch
      BY <1>1, <1>2, <2>3, <3>2 DEF ChannelsOk
    <3> QED
      BY <3>1, <3>2
  <2>8. SentAnswered'
    BY <1>1, <1>2, <1>7, <2>3 DEF SentAnswered
  <2> QED
    BY <1>4, <2>4, <2>5, <2>6, <2>7, <2>8
<1> QED
  BY <1>5, <1>6, <1>7 DEF ClientOpen

LEMMA ClientCloseKeeps == ASSUME LoopInv, NEW ch \in Channels, ClientClose(ch) PROVE LoopInv'
<1> USE DEF LoopInv
<1>1. /\ Calling /\ ch \in DOMAIN channels /\ MethodOn(ch)
      /\ channels' = [c \in DOMAIN channels \ {ch} |-> channels[c]]
      /\ sending' = [sending EXCEPT ![ch] = Nothing] /\ stalled' = stalled \ {ch}
      /\ fate' = [m \in DOMAIN fate |-> IF fate[m].on \in {ch} /\ fate[m].at \in {"sending", "sent"}
                                        THEN [fate[m] EXCEPT !.at = "done"] ELSE fate[m]]
      /\ UNCHANGED <<phase, offer, negotiated, published>>
  BY DEF ClientClose, GivenUp
<1>2. /\ channelNum' = ch /\ channelNum' \in Nat /\ mixed' \in BOOLEAN /\ (~mixed' => ~mixed)
      /\ ~mixed' => \A other \in Channels : sending[other] # Nothing => other = ch
  BY <1>1, MethodOnFacts
<1>3. DOMAIN channels' = DOMAIN channels \ {ch} /\ \A c \in DOMAIN channels' : channels'[c] = channels[c]
  BY <1>1
<1>4. sending' \in [Channels -> Sends \cup {Nothing}] /\ sending'[ch] = Nothing /\ \A c \in Channels : c # ch => sending'[c] = sending[c]
  BY <1>1 DEF LoopType
<1>5. fate' \in [DOMAIN Messages -> Fates] /\ \A m \in DOMAIN Messages :
         IF fate[m].on = ch THEN fate'[m].at # "sent" /\ (fate[m].at = "unsent" <=> fate'[m].at = "unsent") ELSE fate'[m] = fate[m]
  <2>1. DOMAIN fate = DOMAIN Messages /\ \A m \in DOMAIN Messages : fate[m] \in Fates
    BY DEF LoopType
  <2>2. \A x \in Fates : [x EXCEPT !.at = "done"] \in Fates /\ [x EXCEPT !.at = "done"].at = "done"
    BY DEF Fates
  <2> QED
    BY <1>1, <2>1, <2>2
<1>6. LoopType'
  <2>1. DOMAIN channels' \subseteq Channels /\ channels' \in [DOMAIN channels' -> StateSet]
    BY <1>1, <1>3 DEF LoopType
  <2>2. stalled' \subseteq Channels
    BY <1>1 DEF LoopType
  <2> QED
    BY <1>1, <1>2, <1>4, <1>5, <2>1, <2>2 DEF LoopType
<1>7. Agreed'
  <2>1. phase[Pub] # "tuning"
    BY <1>1 DEF Calling
  <2> QED
    BY <1>1, <1>3, <2>1 DEF Agreed
<1>8. OnItsChannel'
  <2> SUFFICES ASSUME NEW c \in Channels, sending'[c] # Nothing
               PROVE  /\ c \in DOMAIN channels' /\ fate'[sending'[c].msg].at # "unsent" /\ fate'[sending'[c].msg].on = c
                      /\ ~mixed' => channelNum' = c
    BY DEF OnItsChannel
  <2>1. c # ch /\ sending'[c] = sending[c] /\ sending[c] # Nothing
    BY <1>4
  <2>2. sending[c].msg \in DOMAIN Messages
    BY <2>1 DEF LoopType, Sends
  <2>3. c \in DOMAIN channels /\ fate[sending[c].msg].at # "unsent" /\ fate[sending[c].msg].on = c
    BY <2>1 DEF OnItsChannel
  <2> QED
    BY <1>2, <1>3, <1>5, <2>1, <2>2, <2>3
<1>9. ChannelsOk'
  <2> SUFFICES ASSUME ~mixed', NEW c \in DOMAIN channels'
               PROVE  ChannelOk(channels'[c], sending'[c], c \in stalled', phase[Pub])
    BY <1>1 DEF ChannelsOk
  <2>1. c \in DOMAIN channels /\ c # ch /\ channels'[c] = channels[c] /\ c \in Channels
    BY <1>3 DEF LoopType
  <2>2. ChannelOk(channels[c], sending[c], c \in stalled, phase[Pub])
    BY <1>1, <1>2, <2>1 DEF ChannelsOk
  <2>3. sending'[c] = sending[c] /\ (c \in stalled' <=> c \in stalled)
    BY <1>1, <1>4, <2>1
  <2> QED
    BY <2>1, <2>2, <2>3 DEF ChannelOk, Dead
<1>10. SentAnswered'
  <2> SUFFICES ASSUME NEW m \in DOMAIN Messages, fate'[m].at = "sent", ~mixed', phase'[Pub] = "serving", fate'[m].on \notin stalled'
               PROVE  fate'[m].on \in DOMAIN channels' /\ channels'[fate'[m].on].closing
    BY DEF SentAnswered
  <2>1. fate'[m] = fate[m] /\ fate[m].on # ch
    BY <1>5
  <2>2. fate[m].on \in DOMAIN channels /\ channels[fate[m].on].closing
    BY <1>1, <1>2, <2>1 DEF SentAnswered
  <2> QED
    BY <1>3, <2>1, <2>2
<1>11. HandedAsSent'
  BY <1>1, <1>2 DEF HandedAsSent
<1> QED
  BY <1>6, <1>7, <1>8, <1>9, <1>10, <1>11

LEMMA LimitInForce == ASSUME LoopInv, phase[Pub] \in {"serving", "told", "closing"} PROVE negotiated[Pub].frameMax \in FrameMaxes
<1>1. Pub \in Peers
  BY DEF Peers
<1>2. offer[Pub] \in TuneOks /\ negotiated[Pub] = Negotiate(offer[Pub]) /\ negotiated[Pub] # Refused
  BY <1>1 DEF LoopInv, Agreed
<1> QED
  BY <1>2, NegotiateLimits

LEMMA ClientPublishKeeps ==
    ASSUME LoopInv, NEW ch \in Channels, NEW m \in DOMAIN Messages, ClientPublish(ch, m) PROVE LoopInv'
<1> USE DEF LoopInv
<1> DEFINE method == [kind |-> "publish", key |-> ParsePublish(Messages[m]).key, mandatory |-> ParsePublish(Messages[m]).mandatory]
<1>1. /\ Calling /\ sending[ch] = Nothing /\ ch \in DOMAIN channels /\ fate[m].at = "unsent" /\ MethodOn(ch)
      /\ fate' = [fate EXCEPT ![m] = [at |-> "sending", on |-> ch]]
      /\ channels' = IF Ignored(ch) THEN channels ELSE [channels EXCEPT ![ch].method = method]
      /\ UNCHANGED <<phase, offer, negotiated, stalled, published>>
  BY DEF ClientPublish
<1>2. PICK max \in {negotiated[Pub].frameMax, Tuning.frameMax} :
        sending' = [sending EXCEPT ![ch] = [msg |-> m, next |-> 1, max |-> max]]
  BY DEF ClientPublish
<1>3. /\ channelNum' = ch /\ channelNum' \in Nat /\ mixed' \in BOOLEAN /\ (~mixed' => ~mixed)
      /\ ~mixed' => \A other \in Channels : sending[other] # Nothing => other = ch
  BY <1>1, MethodOnFacts
<1>4. max \in FrameMaxes
  <2>1. negotiated[Pub].frameMax \in FrameMaxes
    BY <1>1, LimitInForce DEF Calling
  <2>2. Tuning.frameMax \in FrameMaxes
    BY DEF FrameMaxes
  <2> QED
    BY <2>1, <2>2
<1> DEFINE s == [msg |-> m, next |-> 1, max |-> max]
<1>5. s \in Sends /\ s # Nothing /\ s.msg = m /\ s.next = 1 /\ s.max = max
  <2>1. DOMAIN Frames[<<m, max>>] = 1..Len(Frames[<<m, max>>]) /\ Len(Frames[<<m, max>>]) \in Nat /\ Len(Frames[<<m, max>>]) >= 1
    BY <1>4, FrameFacts
  <2>2. 1 \in DOMAIN Frames[<<m, max>>]
    BY <2>1
  <2>3. [msg |-> m, next |-> 1, max |-> max] # Nothing
    BY <1>4, <2>2, FrameLoopAssumption
  <2> QED
    BY <1>4, <2>2, <2>3 DEF Sends
<1>6. method \in MethodRead /\ method.kind = "publish" /\ method.key = Messages[m].key
  <2>1. ParsePublish(Messages[m]).key \in KeysRead /\ ParsePublish(Messages[m]).mandatory \in MandatoryRead
    BY DEF KeysRead, MandatoryRead
  <2>2. ParsePublish(Messages[m]).key = Messages[m].key
    BY CodecAssumption
  <2> QED
    BY <2>1, <2>2 DEF MethodRead
<1> HIDE DEF method, s
<1>7. sending' \in [Channels -> Sends \cup {Nothing}] /\ sending'[ch] = s /\ \A c \in Channels : c # ch => sending'[c] = sending[c]
  <2>1. sending' = [sending EXCEPT ![ch] = s]
    BY <1>2 DEF s
  <2> QED
    BY <1>5, <2>1 DEF LoopType
<1>8. fate' \in [DOMAIN Messages -> Fates] /\ fate'[m].at = "sending" /\ fate'[m].on = ch /\ \A n \in DOMAIN Messages : n # m => fate'[n] = fate[n]
  <2>1. [at |-> "sending", on |-> ch] \in Fates
    BY FrameLoopAssumption DEF Fates
  <2> QED
    BY <1>1, <2>1 DEF LoopType
<1>9. /\ DOMAIN channels' = DOMAIN channels /\ channels' \in [DOMAIN channels' -> StateSet]
      /\ \A c \in DOMAIN channels : c # ch => channels'[c] = channels[c]
      /\ IF channels[ch].closing THEN channels'[ch] = channels[ch]
         ELSE channels'[ch] = [channels[ch] EXCEPT !.method = method]
  <2>1. CASE Ignored(ch)
    BY <1>1, <2>1 DEF Ignored, LoopType
  <2>2. CASE ~Ignored(ch)
    <3>1. channels[ch] \in StateSet /\ ~channels[ch].closing
      BY <1>1, <2>2 DEF Ignored, LoopType
    <3>2. [channels[ch] EXCEPT !.method = method] \in StateSet
      BY <1>6, <3>1 DEF StateSet
    <3>3. channels' = [channels EXCEPT ![ch] = [channels[ch] EXCEPT !.method = method]]
      BY <1>1, <2>2
    <3> QED
      BY <1>1, <3>1, <3>2, <3>3 DEF LoopType
  <2> QED
    BY <2>1, <2>2
<1>10. LoopType'
  BY <1>1, <1>3, <1>7, <1>8, <1>9 DEF LoopType
<1>11. Agreed'
  <2>1. phase[Pub] # "tuning"
    BY <1>1 DEF Calling
  <2> QED
    BY <1>1, <1>9, <2>1 DEF Agreed
<1>12. OnItsChannel'
  <2> SUFFICES ASSUME NEW c \in Channels, sending'[c] # Nothing
               PROVE  /\ c \in DOMAIN channels' /\ fate'[sending'[c].msg].at # "unsent" /\ fate'[sending'[c].msg].on = c
                      /\ ~mixed' => channelNum' = c
    BY DEF OnItsChannel
  <2>1. CASE c = ch
    BY <1>1, <1>3, <1>5, <1>7, <1>8, <1>9, <2>1
  <2>2. CASE c # ch
    <3>1. sending'[c] = sending[c] /\ sending[c] # Nothing
      BY <1>7, <2>2
    <3>2. sending[c].msg \in DOMAIN Messages
      BY <3>1 DEF LoopType, Sends
    <3>3. c \in DOMAIN channels /\ fate[sending[c].msg].at # "unsent" /\ fate[sending[c].msg].on = c
      BY <3>1 DEF OnItsChannel
    <3> QED
      BY <1>1, <1>3, <1>8, <1>9, <3>1, <3>2, <3>3
  <2> QED
    BY <2>1, <2>2
<1>13. ChannelsOk'
  <2> SUFFICES ASSUME ~mixed', NEW c \in DOMAIN channels
               PROVE  ChannelOk(channels'[c], sending'[c], c \in stalled, phase[Pub])
    BY <1>1, <1>9 DEF ChannelsOk
  <2>1. ChannelOk(channels[c], sending[c], c \in stalled, phase[Pub]) /\ c \in Channels
    BY <1>1, <1>3 DEF ChannelsOk, LoopType
  <2>2. CASE c # ch
    BY <1>7, <1>9, <2>1, <2>2
  <2>3. CASE c = ch
    <3>1. CASE channels[ch].closing
      BY <1>9, <2>3, <3>1 DEF ChannelOk
    <3>2. CASE ~channels[ch].closing
      <4> DEFINE st == channels[ch]
                 new == channels'[ch]
      <4>1. /\ new.method = method /\ new.header = st.header /\ new.size = st.size /\ new.body = st.body
        <5>1. st \in StateSet /\ new = [st EXCEPT !.method = method]
          BY <1>1, <1>9, <3>2 DEF LoopType
        <5> QED
          BY <5>1 DEF StateSet
      <4> HIDE DEF st, new
      <4>2. Dead(st, ch \in stalled, phase[Pub]) \/ Clean(st)
        BY <1>1, <2>1, <2>3, <3>2 DEF ChannelOk, st
      <4>3. CASE Dead(st, ch \in stalled, phase[Pub])
        <5>1. Dead(new, ch \in stalled, phase[Pub])
          BY <1>6, <4>1, <4>3 DEF Dead
        <5> QED
          BY <2>3, <5>1 DEF ChannelOk, new
      <4>4. CASE Clean(st)
        <5>1. Following(new, s)
          BY <1>5, <1>6, <4>1, <4>4 DEF Clean, Following
        <5> QED
          BY <1>5, <1>7, <2>3, <5>1 DEF ChannelOk, new
      <4> QED
        BY <4>2, <4>3, <4>4
    <3> QED
      BY <3>1, <3>2
  <2> QED
    BY <2>2, <2>3
<1>14. SentAnswered'
  <2> SUFFICES ASSUME NEW n \in DOMAIN Messages, fate'[n].at = "sent", ~mixed', phase[Pub] = "serving", fate'[n].on \notin stalled
               PROVE  fate'[n].on \in DOMAIN channels' /\ channels'[fate'[n].on].closing
    BY <1>1 DEF SentAnswered
  <2>1. fate'[n] = fate[n]
    BY <1>8
  <2>2. fate[n].on \in DOMAIN channels /\ channels[fate[n].on].closing
    BY <1>3, <2>1 DEF SentAnswered
  <2> QED
    BY <1>9, <2>1, <2>2
<1>15. HandedAsSent'
  BY <1>1, <1>3 DEF HandedAsSent
<1> QED
  BY <1>10, <1>11, <1>12, <1>13, <1>14, <1>15

-----------------------------------------------------------------------------
(* A content frame.  First what is known of the frame that is sent.        *)
Carries(ch, s, f, frame) ==
    /\ ch \in Channels /\ sending[ch] # Nothing /\ s = sending[ch]
    /\ f = Frames[<<s.msg, s.max>>] /\ frame = f[s.next]

LEMMA SendingFacts ==
    ASSUME LoopInv, NEW ch, NEW s, NEW f, NEW frame, Carries(ch, s, f, frame)
    PROVE  /\ s \in Sends /\ s.msg \in DOMAIN Messages /\ s.max \in FrameMaxes /\ s.next \in Nat /\ s.next >= 1 /\ s.next <= Len(f)
           /\ Len(f) \in Nat /\ frame.payload \in Payloads /\ frame.payload # Nothing
           /\ Messages[s.msg].body = <<>> <=> Len(f) = 1
           /\ s.next # Len(f) => LET t == [s EXCEPT !.next = @ + 1]
                                 IN  t \in Sends /\ t # Nothing /\ t.msg = s.msg /\ t.next = s.next + 1
<1>0. ch \in Channels /\ sending[ch] # Nothing /\ s = sending[ch] /\ f = Frames[<<s.msg, s.max>>] /\ frame = f[s.next]
  BY DEF Carries
<1>1. s \in Sends /\ s \in [msg : DOMAIN Messages, next : Nat, max : FrameMaxes] /\ s.next \in DOMAIN f
  BY <1>0 DEF LoopInv, LoopType, Sends
<1>2. s.msg \in DOMAIN Messages /\ s.max \in FrameMaxes /\ s.next \in Nat
  BY <1>1
<1>3. /\ Len(f) \in Nat /\ Len(f) >= 1 /\ DOMAIN f = 1..Len(f)
      /\ \A n \in DOMAIN f : f[n].payload \in Payloads /\ f[n].payload # Nothing
      /\ Messages[s.msg].body = <<>> <=> Len(f) = 1
  <2>1. PICK m \in DOMAIN Messages, max \in FrameMaxes : m = s.msg /\ max = s.max
    BY <1>2
  <2>2. f = Frames[<<m, max>>]
    BY <1>0, <2>1
  <2>3. Len(f) \in Nat /\ Len(f) >= 1 /\ DOMAIN f = 1..Len(f)
    BY <2>2, FrameFacts
  <2>6. \A n \in DOMAIN f : f[n].payload \in Payloads /\ f[n].payload # Nothing
    BY <2>2, FrameFacts
  <2>7. Messages[m].body = <<>> <=> Len(f) = 1
    BY <2>2, FrameFacts
  <2> QED
    BY <2>1, <2>3, <2>6, <2>7
<1>4. s.next >= 1 /\ s.next <= Len(f)
  BY <1>1, <1>3
<1>6. ASSUME s.next # Len(f), NEW t, t = [s EXCEPT !.next = @ + 1]
      PROVE  t \in Sends /\ t # Nothing /\ t.msg = s.msg /\ t.next = s.next + 1
  <2>1. t = [msg |-> s.msg, next |-> s.next + 1, max |-> s.max]
    BY <1>1, <1>6
  <2>2. s.next + 1 \in DOMAIN f /\ s.next + 1 \in Nat
    BY <1>2, <1>3, <1>4, <1>6
  <2>3. [msg |-> s.msg, next |-> s.next + 1, max |-> s.max] # Nothing
    BY <1>0, <1>2, <2>2, FrameLoopAssumption
  <2> QED
    BY <1>0, <1>2, <2>1, <2>2, <2>3 DEF Sends
<1>7. frame.payload \in Payloads /\ frame.payload # Nothing
  BY <1>0, <1>1, <1>3
<1> QED
  BY <1>1, <1>2, <1>3, <1>4, <1>6, <1>7

LEMMA FrameSent ==
    ASSUME LoopInv, NEW ch, NEW s, NEW f, NEW frame, Carries(ch, s, f, frame)
    PROVE  /\ s.next = 1 => frame.type = 2
           /\ s.next # 1 => frame.type = 3
           /\ frame.type = 2 => frame.payload = ClientHeader(Messages[s.msg])
<1>1. s.msg \in DOMAIN Messages /\ s.max \in FrameMaxes /\ s.next \in Nat /\ s.next >= 1 /\ s.next <= Len(f) /\ Len(f) \in Nat
  BY SendingFacts
<1>2. PICK m \in DOMAIN Messages, max \in FrameMaxes : m = s.msg /\ max = s.max
  BY <1>1
<1>3. f = Frames[<<m, max>>] /\ frame = f[s.next]
  BY <1>2 DEF Carries
<1>4. f[1].type = 2 /\ f[1].payload = ClientHeader(Messages[m])
  BY <1>3, FrameFacts
<1>5. \A n \in 2..Len(f) : f[n].type = 3
  BY <1>3, FrameFacts
<1>6. CASE s.next = 1
  <2>1. frame.type = 2 /\ frame.payload = ClientHeader(Messages[m])
    BY <1>3, <1>4, <1>6
  <2> QED
    BY <1>2, <1>6, <2>1
<1>7. CASE s.next # 1
  <2>1. s.next \in 2..Len(f)
    BY <1>1, <1>7
  <2>2. frame.type = 3
    BY <1>3, <1>5, <2>1
  <2> QED
    BY <1>7, <2>2
<1> QED
  BY <1>6, <1>7

(* The header that is stored is the one the client sent.                   *)
LEMMA HeaderFacts ==
    ASSUME NEW m \in DOMAIN Messages, HeaderRead(m).ok
    PROVE  /\ HeaderRead(m).val.size = Len(Messages[m].body) /\ HeaderRead(m).val.size \in Nat
           /\ HeaderRead(m).val.size = 0 <=> Messages[m].body = <<>>
           /\ HeaderRead(m).val.props \in PropsRead /\ HeaderRead(m).val.props # Nothing
           /\ DOMAIN HeaderRead(m).val.props = Kept(Messages[m].props)
<1>1. Messages[m].body \in Seq(0..255)
  BY FrameLoopAssumption
<1>2. Len(Messages[m].body) \in Nat /\ (Len(Messages[m].body) = 0 <=> Messages[m].body = <<>>)
  BY <1>1
<1>3. HeaderRead(m).val.props \in PropsRead
  BY DEF PropsRead
<1>4. /\ HeaderRead(m).val.size = Len(Messages[m].body) /\ HeaderRead(m).val.props # Nothing
      /\ DOMAIN HeaderRead(m).val.props = Kept(Messages[m].props)
  BY CodecAssumption DEF HeaderRead
<1> QED
  BY <1>2, <1>3, <1>4

(* What every outcome of a content frame has to keep, besides what the     *)
(* client does.                                                            *)
Advanced(ch, s, f) ==
    /\ sending' = [sending EXCEPT ![ch] = IF s.next = Len(f) THEN Nothing ELSE [s EXCEPT !.next = @ + 1]]
    /\ stalled' = IF s.next = Len(f) /\ Messages[s.msg].body = <<>> THEN stalled \cup {ch} ELSE stalled
    /\ UNCHANGED <<channelNum, offer, negotiated, mixed>>

Effects(ch, m) ==
    /\ phase' = phase \/ Become("told") \/ Become("closing")
    /\ DOMAIN channels' = DOMAIN channels /\ channels' \in [DOMAIN channels -> StateSet]
    /\ fate' \in [DOMAIN Messages -> Fates] /\ \A n \in DOMAIN Messages : n # m => fate'[n] = fate[n]
    /\ fate'[m].on = fate[m].on /\ fate'[m].at # "unsent"
    /\ published' \in Seq(Handed) /\ HandedAsSent'
    /\ ~mixed => \A c \in DOMAIN channels : c # ch => channels'[c] = channels[c]
    /\ ~mixed /\ channels[ch].closing => channels'[ch].closing
    /\ ~mixed /\ Calling' => ChannelOk(channels'[ch], sending'[ch], ch \in stalled', phase'[Pub])
    /\ fate'[m].at = "sent" /\ ~mixed /\ phase'[Pub] = "serving" => ch \in stalled' \/ channels'[ch].closing

LEMMA ContentKeeps ==
    ASSUME LoopInv, Calling, NEW ch, NEW s, NEW f, NEW frame, Carries(ch, s, f, frame),
           Advanced(ch, s, f), Effects(ch, s.msg)
    PROVE  LoopInv'
<1> USE DEF LoopInv
<1>0. ch \in Channels /\ sending[ch] # Nothing /\ s = sending[ch]
  BY DEF Carries
<1>1. /\ s \in Sends /\ s.msg \in DOMAIN Messages
      /\ s.next # Len(f) => LET t == [s EXCEPT !.next = @ + 1]
                            IN  t \in Sends /\ t # Nothing /\ t.msg = s.msg /\ t.next = s.next + 1
  BY SendingFacts
<1>2. /\ sending' \in [Channels -> Sends \cup {Nothing}]
      /\ sending'[ch] # Nothing => sending'[ch].msg = s.msg
      /\ \A c \in Channels : c # ch => sending'[c] = sending[c]
  BY <1>0, <1>1 DEF Advanced, LoopType
<1>3. UNCHANGED <<channelNum, offer, negotiated, mixed>> /\ stalled' \subseteq Channels
      /\ \A c \in Channels : (c \in stalled => c \in stalled') /\ (c # ch => (c \in stalled' <=> c \in stalled))
  BY <1>0 DEF Advanced, LoopType
<1>4. phase[Pub] \in {"serving", "told"} /\ Pub \in Peers
  BY DEF Calling, Peers
<1>5. /\ phase' \in [Peers -> {"tuning", "serving", "told", "closing", "closed"}]
      /\ phase'[Pub] \in {"serving", "told", "closing"} /\ (phase'[Pub] = "serving" => phase[Pub] = "serving")
      /\ \A d \in Peers : d # Pub => phase'[d] = phase[d]
  BY <1>4 DEF LoopType, Become, Effects
<1>6. LoopType'
  BY <1>2, <1>3, <1>5 DEF LoopType, Effects
<1>7. Agreed'
  BY <1>3, <1>4, <1>5 DEF Agreed, Effects
<1>8. ch \in DOMAIN channels /\ fate[s.msg].on = ch /\ (~mixed => channelNum = ch)
  BY <1>0 DEF OnItsChannel
<1>9. OnItsChannel'
  <2> SUFFICES ASSUME NEW c \in Channels, sending'[c] # Nothing
               PROVE  /\ c \in DOMAIN channels /\ fate'[sending'[c].msg].at # "unsent" /\ fate'[sending'[c].msg].on = c
                      /\ ~mixed => channelNum = c
    BY <1>3 DEF OnItsChannel, Effects
  <2>1. CASE c = ch
    BY <1>2, <1>8, <2>1 DEF Effects
  <2>2. CASE c # ch
    <3>1. sending'[c] = sending[c] /\ sending[c] # Nothing
      BY <1>2, <2>2
    <3>2. sending[c].msg \in DOMAIN Messages
      BY <3>1 DEF LoopType, Sends
    <3>3. c \in DOMAIN channels /\ fate[sending[c].msg].at # "unsent" /\ fate[sending[c].msg].on = c /\ (~mixed => channelNum = c)
      BY <3>1 DEF OnItsChannel
    <3> QED
      BY <1>8, <2>2, <3>1, <3>2, <3>3 DEF Effects
  <2> QED
    BY <2>1, <2>2
<1>10. ChannelsOk'
  <2> SUFFICES ASSUME ~mixed, Calling', NEW c \in DOMAIN channels
               PROVE  ChannelOk(channels'[c], sending'[c], c \in stalled', phase'[Pub])
    BY <1>3 DEF ChannelsOk, Effects
  <2>1. CASE c = ch
    BY <2>1 DEF Effects
  <2>2. CASE c # ch
    <3>1. ChannelOk(channels[c], sending[c], c \in stalled, phase[Pub]) /\ c \in Channels
      BY DEF ChannelsOk, LoopType
    <3>2. channels'[c] = channels[c] /\ sending'[c] = sending[c] /\ (c \in stalled => c \in stalled')
      BY <1>2, <1>3, <2>2, <3>1 DEF Effects
    <3>3. Dead(channels[c], c \in stalled, phase[Pub]) => Dead(channels[c], c \in stalled', phase'[Pub])
      BY <1>5, <3>2 DEF Dead
    <3> QED
      BY <3>1, <3>2, <3>3 DEF ChannelOk
  <2> QED
    BY <2>1, <2>2
<1>11. SentAnswered'
  <2> SUFFICES ASSUME NEW n \in DOMAIN Messages, fate'[n].at = "sent", ~mixed, phase'[Pub] = "serving", fate'[n].on \notin stalled'
               PROVE  fate'[n].on \in DOMAIN channels /\ channels'[fate'[n].on].closing
    BY <1>3 DEF SentAnswered, Effects
  <2>1. CASE n = s.msg
    BY <1>8, <2>1 DEF Effects
  <2>2. CASE n # s.msg
    <3>1. fate'[n] = fate[n]
      BY <2>2 DEF Effects
    <3>2. fate[n].on \notin stalled
      BY <1>3, <3>1 DEF LoopType
    <3>3. fate[n].on \in DOMAIN channels /\ channels[fate[n].on].closing
      BY <1>5, <3>1, <3>2 DEF SentAnswered
    <3> QED
      BY <1>8, <3>1, <3>3 DEF Effects
  <2> QED
    BY <2>1, <2>2
<1> QED
  BY <1>6, <1>7, <1>9, <1>10, <1>11 DEF Effects

(* The channel state after a content frame, as basicPublishHandler stores it. *)
After(st, frame) ==
    IF frame.type = 2 /\ st.header = Nothing THEN StoreHeader(st, ParseHeader(frame.payload).val)
    ELSE IF frame.type = 3 /\ st.body = Nothing THEN [st EXCEPT !.body = frame.payload]
    ELSE st

LEMMA AfterFacts ==
    ASSUME NEW m \in DOMAIN Messages, NEW frame, frame.payload \in Payloads,
           frame.type = 2 => frame.payload = ClientHeader(Messages[m]) /\ ParseHeader(frame.payload).ok,
           NEW st \in StateSet, NEW next, next = After(st, frame)
    PROVE  /\ next \in StateSet /\ next.method = st.method /\ next.closing = st.closing
           /\ frame.type = 2 /\ st.header = Nothing =>
                /\ HeaderRead(m).ok /\ next.header = HeaderRead(m).val.props
                /\ next.size = HeaderRead(m).val.size /\ next.body = st.body
           /\ ~(frame.type = 2 /\ st.header = Nothing) =>
                /\ next.header = st.header /\ next.size = st.size
                /\ next.body = IF frame.type = 3 /\ st.body = Nothing THEN frame.payload ELSE st.body
<1>2. CASE frame.type = 2 /\ st.header = Nothing
  <2>1. HeaderRead(m) = ParseHeader(frame.payload) /\ HeaderRead(m).ok
    BY <1>2 DEF HeaderRead
  <2>2. HeaderRead(m).val.props \in PropsRead /\ HeaderRead(m).val.size \in Nat
    BY <2>1, HeaderFacts
  <2>3. next = [st EXCEPT !.header = HeaderRead(m).val.props, !.size = HeaderRead(m).val.size]
    BY <1>2, <2>1 DEF After, StoreHeader
  <2>4. /\ next \in StateSet /\ next.method = st.method /\ next.closing = st.closing /\ next.body = st.body
        /\ next.header = HeaderRead(m).val.props /\ next.size = HeaderRead(m).val.size
    BY <2>2, <2>3 DEF StateSet
  <2> QED
    BY <1>2, <2>1, <2>4
<1>3. CASE ~(frame.type = 2 /\ st.header = Nothing)
  <2>1. CASE frame.type = 3 /\ st.body = Nothing
    <3>1. next = [st EXCEPT !.body = frame.payload]
      BY <1>3, <2>1 DEF After
    <3> QED
      BY <1>3, <2>1, <3>1 DEF StateSet
  <2>2. CASE ~(frame.type = 3 /\ st.body = Nothing)
    BY <1>3, <2>2 DEF After
  <2> QED
    BY <2>1, <2>2
<1> QED
  BY <1>2, <1>3

LEMMA AfterKeeps ==
    ASSUME NEW st \in StateSet, NEW frame
    PROVE  After(st, frame).method = st.method /\ After(st, frame).closing = st.closing
<1>1. ASSUME NEW h PROVE StoreHeader(st, h).method = st.method /\ StoreHeader(st, h).closing = st.closing
  BY DEF StoreHeader, StateSet
<1>2. ASSUME NEW p PROVE [st EXCEPT !.body = p].method = st.method /\ [st EXCEPT !.body = p].closing = st.closing
  BY DEF StateSet
<1> QED
  BY <1>1, <1>2 DEF After

(* Unless the client mixes channels, the channel of the frame follows the  *)
(* message it belongs to, is dead, or is being closed.                     *)
LEMMA FollowsOrDead ==
    ASSUME LoopInv, Calling, ~mixed, NEW ch \in Channels, sending[ch] # Nothing
    PROVE  /\ ch = channelNum /\ ch \in DOMAIN channels
           /\ channels[ch].closing \/ Dead(channels[ch], ch \in stalled, phase[Pub]) \/ Following(channels[ch], sending[ch])
<1>1. ch = channelNum /\ ch \in DOMAIN channels
  BY DEF LoopInv, OnItsChannel
<1>2. ChannelOk(channels[ch], sending[ch], ch \in stalled, phase[Pub])
  BY <1>1 DEF LoopInv, ChannelsOk
<1> QED
  BY <1>1, <1>2 DEF ChannelOk

(* A frame that is stored and completes nothing.                           *)
LEMMA StoredOk ==
    ASSUME LoopInv, Calling, ~mixed, NEW ch, NEW s, NEW f, NEW frame, Carries(ch, s, f, frame),
           frame.type = 2 => ParseHeader(frame.payload).ok, Advanced(ch, s, f),
           ~channels[ch].closing, NEW next, next = After(channels[ch], frame),
           (frame.type = 2 /\ channels[ch].header = Nothing) \/ ~Complete(next)
    PROVE  /\ ChannelOk(next, sending'[ch], ch \in stalled', phase[Pub])
           /\ s.next = Len(f) => ch \in stalled'
<1> DEFINE st == channels[ch]
<1>0. ch \in Channels /\ sending[ch] # Nothing /\ s = sending[ch]
  BY DEF Carries
<1>1. st \in StateSet /\ ch \in DOMAIN channels
  BY <1>0, FollowsOrDead DEF LoopInv, LoopType
<1>2. /\ next \in StateSet /\ next.method = st.method
      /\ frame.type = 2 /\ st.header = Nothing =>
           /\ HeaderRead(s.msg).ok
           /\ next.header = HeaderRead(s.msg).val.props /\ next.size = HeaderRead(s.msg).val.size /\ next.body = st.body
      /\ ~(frame.type = 2 /\ st.header = Nothing) =>
           /\ next.header = st.header /\ next.size = st.size
           /\ next.body = IF frame.type = 3 /\ st.body = Nothing THEN frame.payload ELSE st.body
  <2>0. s.msg \in DOMAIN Messages /\ frame.payload \in Payloads
    BY SendingFacts
  <2>1. /\ s.msg \in DOMAIN Messages /\ frame.payload \in Payloads
        /\ frame.type = 2 => frame.payload = ClientHeader(Messages[s.msg])
    BY <2>0, FrameSent
  <2> QED
    BY <1>1, <2>1, AfterFacts
<1>3. /\ s.msg \in DOMAIN Messages /\ s.next \in Nat /\ s.next >= 1 /\ s.next <= Len(f) /\ Len(f) \in Nat
      /\ frame.payload # Nothing
      /\ s.next = 1 => frame.type = 2
      /\ s.next # 1 => frame.type = 3
      /\ Messages[s.msg].body = <<>> <=> Len(f) = 1
  <2>1. s.msg \in DOMAIN Messages /\ s.next \in Nat /\ s.next >= 1 /\ s.next <= Len(f) /\ Len(f) \in Nat
    BY SendingFacts
  <2>2. frame.payload # Nothing
    BY SendingFacts
  <2>3. (s.next = 1 => frame.type = 2) /\ (s.next # 1 => frame.type = 3)
    BY FrameSent
  <2>4. Messages[s.msg].body = <<>> <=> Len(f) = 1
    BY SendingFacts
  <2> QED
    BY <2>1, <2>2, <2>3, <2>4
<1>4. s.next # Len(f) => LET t == [s EXCEPT !.next = @ + 1] IN t # Nothing /\ t.msg = s.msg /\ t.next = s.next + 1
  BY SendingFacts
<1>5. sending'[ch] = IF s.next = Len(f) THEN Nothing ELSE [s EXCEPT !.next = @ + 1]
  BY <1>0 DEF Advanced, LoopInv, LoopType
<1>6. (ch \in stalled => ch \in stalled') /\ (s.next = Len(f) /\ Messages[s.msg].body = <<>> => ch \in stalled')
  BY DEF Advanced
<1>7. Dead(st, ch \in stalled, phase[Pub]) \/ Following(st, s)
  BY <1>0, FollowsOrDead
<1>8. st.size \in Nat
  BY <1>1 DEF StateSet
<1> HIDE DEF st
<1>9. CASE Dead(st, ch \in stalled, phase[Pub])
  <2>1. st.method.kind = "publish" /\ st.header # Nothing /\ next.header = st.header /\ next.size = st.size
    BY <1>2, <1>9 DEF Dead
  <2>2. CASE st.size = 0
    <3>1. ch \in stalled
      BY <1>9, <2>2 DEF Dead
    <3>2. Dead(next, ch \in stalled', phase[Pub])
      BY <1>2, <1>6, <2>1, <2>2, <3>1 DEF Dead
    <3> QED
      BY <1>6, <3>1, <3>2 DEF ChannelOk
  <2>3. CASE st.size # 0
    <3>1. st.size > 0 /\ st.body # Nothing
      BY <1>9, <2>3 DEF Dead
    <3>2. next.body = st.body
      BY <1>2, <2>1, <3>1
    <3>3. Complete(next)
      BY <2>1, <3>1, <3>2 DEF Complete
    <3> QED
      BY <2>1, <3>3 DEF st
  <2> QED
    BY <2>2, <2>3
<1>10. CASE Following(st, s) /\ s.next = 1
  <2>1. st.method.kind = "publish" /\ st.method.key = Messages[s.msg].key /\ st.body = Nothing /\ st.header = Nothing
    BY <1>10 DEF Following
  <2>2. /\ HeaderRead(s.msg).ok /\ next.header = HeaderRead(s.msg).val.props
        /\ next.size = HeaderRead(s.msg).val.size /\ next.body = Nothing
    BY <1>2, <1>3, <1>10, <2>1
  <2>3. /\ HeaderRead(s.msg).val.size \in Nat /\ HeaderRead(s.msg).val.props # Nothing
        /\ HeaderRead(s.msg).val.size = 0 <=> Messages[s.msg].body = <<>>
    BY <1>3, <2>2, HeaderFacts
  <2>4. CASE Len(f) = 1
    <3>1. ch \in stalled' /\ next.size = 0
      BY <1>3, <1>6, <1>10, <2>2, <2>3, <2>4
    <3>2. Dead(next, ch \in stalled', phase[Pub])
      BY <1>2, <2>1, <2>2, <2>3, <3>1 DEF Dead
    <3> QED
      BY <3>1, <3>2 DEF ChannelOk
  <2>5. CASE Len(f) # 1
    <3>1. next.size > 0 /\ s.next # Len(f)
      BY <1>3, <1>10, <2>2, <2>3, <2>5
    <3>2. sending'[ch] # Nothing /\ sending'[ch].msg = s.msg /\ sending'[ch].next = 2
      BY <1>4, <1>5, <1>10, <3>1
    <3>3. Following(next, sending'[ch])
      BY <1>2, <2>1, <2>2, <3>1, <3>2 DEF Following
    <3> QED
      BY <3>1, <3>2, <3>3 DEF ChannelOk
  <2> QED
    BY <2>4, <2>5
<1>11. CASE Following(st, s) /\ s.next # 1
  <2>1. st.body = Nothing /\ st.size > 0 /\ HeaderRead(s.msg).ok /\ st.header = HeaderRead(s.msg).val.props
    BY <1>11 DEF Following
  <2>2. st.header # Nothing
    BY <1>3, <2>1, HeaderFacts
  <2>3. next.header = st.header /\ next.size = st.size /\ next.body = frame.payload
    BY <1>2, <1>3, <1>11, <2>1, <2>2
  <2>4. Complete(next)
    BY <1>3, <2>1, <2>2, <2>3 DEF Complete
  <2> QED
    BY <2>2, <2>4 DEF st
<1> QED
  BY <1>7, <1>9, <1>10, <1>11

(* The message handed to the vhost.                                        *)
MessageOf(m, st) == [from |-> m, key |-> st.method.key, props |-> st.header, body |-> st.body]

LEMMA MessageHanded ==
    ASSUME NEW m \in DOMAIN Messages, NEW st \in StateSet
    PROVE  /\ MessageOf(m, st) \in Handed /\ MessageOf(m, st).from = m /\ MessageOf(m, st).key = st.method.key
           /\ MessageOf(m, st).props = st.header /\ MessageOf(m, st).body = st.body
<1>1. /\ st.method \in MethodRead /\ st.header \in PropsRead \cup {Nothing} /\ st.body \in Payloads \cup {Nothing}
  BY DEF StateSet
<1>2. st.method.key \in KeysRead
  BY <1>1 DEF MethodRead
<1> QED
  BY <1>1, <1>2 DEF MessageOf, Handed

LEMMA ResetState == ASSUME NEW st PROVE Reset(st) \in StateSet /\ Clean(Reset(st))
<1>1. <<>> \in KeysRead /\ FALSE \in MandatoryRead
  BY DEF KeysRead, MandatoryRead
<1>2. NoMethod \in MethodRead /\ NoMethod.kind = "none"
  BY <1>1 DEF NoMethod, MethodRead
<1>3. Reset(st) = [method |-> NoMethod, header |-> Nothing, size |-> 0, body |-> Nothing, closing |-> FALSE]
  BY DEF Reset, ChannelState
<1>4. Reset(st) \in StateSet
  BY <1>2, <1>3 DEF StateSet
<1>5. Reset(st).header = Nothing /\ Reset(st).body = Nothing /\ Reset(st).method = NoMethod
  BY <1>3
<1> QED
  BY <1>2, <1>4, <1>5 DEF Clean

(* What the fates become when the frame decides nothing.                   *)
Undecided(s, f) ==
    IF s.next = Len(f) /\ fate[s.msg].at = "sending" THEN [fate EXCEPT ![s.msg].at = "sent"] ELSE fate

LEMMA UndecidedFacts ==
    ASSUME LoopInv, NEW ch, NEW s, NEW f, NEW frame, Carries(ch, s, f, frame), NEW u, u = Undecided(s, f)
    PROVE  /\ u \in [DOMAIN Messages -> Fates] /\ \A n \in DOMAIN Messages : n # s.msg => u[n] = fate[n]
           /\ u[s.msg].on = fate[s.msg].on /\ u[s.msg].at # "unsent"
           /\ u[s.msg].at = "sent" => fate[s.msg].at = "sent" \/ s.next = Len(f)
<1>1. s.msg \in DOMAIN Messages /\ fate \in [DOMAIN Messages -> Fates] /\ fate[s.msg] \in Fates
  BY SendingFacts DEF LoopInv, LoopType
<1>2. fate[s.msg].at # "unsent"
  BY DEF LoopInv, OnItsChannel, Carries
<1>3. CASE s.next = Len(f) /\ fate[s.msg].at = "sending"
  <2> DEFINE x == [fate[s.msg] EXCEPT !.at = "sent"]
  <2>1. u = [fate EXCEPT ![s.msg] = x]
    BY <1>3 DEF Undecided
  <2>2. x \in Fates /\ x.on = fate[s.msg].on /\ x.at = "sent"
    BY <1>1 DEF Fates
  <2> HIDE DEF x
  <2> QED
    BY <1>1, <1>3, <2>1, <2>2
<1>4. CASE ~(s.next = Len(f) /\ fate[s.msg].at = "sending")
  BY <1>1, <1>2, <1>4 DEF Undecided
<1> QED
  BY <1>3, <1>4

(* basicPublishHandler.                                                    *)
LEMMA HandledKeeps ==
    ASSUME LoopInv, Calling, NEW ch, NEW s, NEW f, NEW frame, Carries(ch, s, f, frame),
           Fits(frame.payload, negotiated[Pub].frameMax), frame.type = 2 => ParseHeader(frame.payload).ok,
           Advanced(ch, s, f), NEW u,
           u = Undecided(s, f),
           channelNum \in DOMAIN channels, NEW st \in StateSet, st = channels[channelNum],
           ~st.closing, st.method.kind = "publish", BasicPublishHandler(channelNum, frame, s.msg, u)
    PROVE  LoopInv'
<1> DEFINE next == After(st, frame)
           message == MessageOf(s.msg, next)
<1>0. ch \in Channels /\ sending[ch] # Nothing /\ s = sending[ch] /\ next = After(st, frame)
  BY DEF Carries
<1> HIDE DEF next
<1>1. /\ u \in [DOMAIN Messages -> Fates] /\ (\A n \in DOMAIN Messages : n # s.msg => u[n] = fate[n])
      /\ u[s.msg].on = fate[s.msg].on /\ u[s.msg].at # "unsent"
      /\ u[s.msg].at = "sent" => fate[s.msg].at = "sent" \/ s.next = Len(f)
  <2>1. u \in [DOMAIN Messages -> Fates] /\ \A n \in DOMAIN Messages : n # s.msg => u[n] = fate[n]
    BY UndecidedFacts
  <2>2. u[s.msg].on = fate[s.msg].on /\ u[s.msg].at # "unsent"
    BY UndecidedFacts
  <2>3. u[s.msg].at = "sent" => fate[s.msg].at = "sent" \/ s.next = Len(f)
    BY UndecidedFacts
  <2> QED
    BY <2>1, <2>2, <2>3
<1>2. /\ channels \in [DOMAIN channels -> StateSet] /\ published \in Seq(Handed) /\ negotiated' = negotiated /\ mixed' = mixed
      /\ HandedAsSent /\ Pub \in DOMAIN phase
  BY DEF LoopInv, LoopType, Advanced, Peers
<1>3. next \in StateSet /\ next.method = st.method /\ next.closing = st.closing
  <2>0. s.msg \in DOMAIN Messages /\ frame.payload \in Payloads
    BY SendingFacts
  <2>1. /\ s.msg \in DOMAIN Messages /\ frame.payload \in Payloads
        /\ frame.type = 2 => frame.payload = ClientHeader(Messages[s.msg])
    BY <2>0, FrameSent
  <2>2. frame.type = 2 => frame.payload = ClientHeader(Messages[s.msg]) /\ ParseHeader(frame.payload).ok
    BY <2>1
  <2>3. next \in StateSet
    BY <1>0, <2>1, <2>2, AfterFacts
  <2>4. next.method = st.method /\ next.closing = st.closing
    BY <1>0, AfterKeeps
  <2> QED
    BY <2>3, <2>4
<1>4. ~mixed => ch = channelNum
  BY <1>0, FollowsOrDead
<1>5. s.msg \in DOMAIN Messages
  BY SendingFacts
<1>6. fate[s.msg].at = "sent" /\ ~mixed /\ phase[Pub] = "serving" => ch \in stalled'
  <2> SUFFICES ASSUME fate[s.msg].at = "sent", ~mixed, phase[Pub] = "serving" PROVE ch \in stalled'
    OBVIOUS
  <2>1. fate[s.msg].on = ch
    BY <1>0 DEF LoopInv, OnItsChannel
  <2>2. ch \in stalled
    BY <1>4, <1>5, <2>1 DEF LoopInv, SentAnswered
  <2> QED
    BY <2>2 DEF Advanced
<1>7. ASSUME NEW n \in StateSet, channels' = [channels EXCEPT ![channelNum] = n]
      PROVE  /\ DOMAIN channels' = DOMAIN channels /\ channels' \in [DOMAIN channels -> StateSet]
             /\ ~mixed => channels'[ch] = n /\ \A c \in DOMAIN channels : c # ch => channels'[c] = channels[c]
  BY <1>0, <1>2, <1>4, <1>7
<1>8. ASSUME ~mixed PROVE ~channels[ch].closing /\ next = After(channels[ch], frame) /\ st = channels[ch]
  BY <1>4, <1>8 DEF next
<1>9. CASE (frame.type = 2 /\ st.header = Nothing) \/ ~Complete(next)
  <2>1. channels' = [channels EXCEPT ![channelNum] = next] /\ fate' = u /\ UNCHANGED <<phase, published>>
    BY <1>9 DEF BasicPublishHandler, After, next
  <2>2. /\ DOMAIN channels' = DOMAIN channels /\ channels' \in [DOMAIN channels -> StateSet]
        /\ ~mixed => channels'[ch] = next /\ \A c \in DOMAIN channels : c # ch => channels'[c] = channels[c]
    BY <1>3, <1>7, <2>1
  <2>3. HandedAsSent'
    BY <1>2, <2>1 DEF HandedAsSent
  <2>4. ASSUME ~mixed PROVE ChannelOk(next, sending'[ch], ch \in stalled', phase[Pub]) /\ (s.next = Len(f) => ch \in stalled')
    BY <1>8, <1>9, <2>4, StoredOk, Zenon
  <2>5. ~mixed => ChannelOk(channels'[ch], sending'[ch], ch \in stalled', phase'[Pub])
    BY <2>1, <2>2, <2>4
  <2>6. fate'[s.msg].at = "sent" /\ ~mixed /\ phase'[Pub] = "serving" => ch \in stalled'
    BY <1>1, <1>6, <2>1, <2>4
  <2>7. Effects(ch, s.msg)
    BY <1>1, <1>2, <1>8, <2>1, <2>2, <2>3, <2>5, <2>6 DEF Effects
  <2> QED
    BY <2>7, ContentKeeps, Zenon
<1>10. CASE ~((frame.type = 2 /\ st.header = Nothing) \/ ~Complete(next)) /\ Len(next.body) # next.size
  <2>1. channels' = [channels EXCEPT ![channelNum] = next] /\ fate' = u /\ Become("told") /\ UNCHANGED published
    BY <1>10 DEF BasicPublishHandler, After, next
  <2>2. /\ DOMAIN channels' = DOMAIN channels /\ channels' \in [DOMAIN channels -> StateSet]
        /\ ~mixed => channels'[ch] = next /\ \A c \in DOMAIN channels : c # ch => channels'[c] = channels[c]
    BY <1>3, <1>7, <2>1
  <2>3. HandedAsSent'
    BY <1>2, <2>1 DEF HandedAsSent
  <2>4. phase'[Pub] = "told"
    BY <1>2, <2>1 DEF Become
  <2>5. Dead(next, ch \in stalled', phase'[Pub])
    BY <1>3, <1>10, <2>4 DEF Dead, Complete
  <2>6. ~mixed => ChannelOk(channels'[ch], sending'[ch], ch \in stalled', phase'[Pub])
    BY <2>2, <2>5 DEF ChannelOk
  <2>7. Effects(ch, s.msg)
    BY <1>1, <1>2, <1>8, <2>1, <2>2, <2>3, <2>4, <2>6 DEF Effects
  <2> QED
    BY <2>7, ContentKeeps, Zenon
<1>11. CASE ~((frame.type = 2 /\ st.header = Nothing) \/ ~Complete(next)) /\ Len(next.body) = next.size
  <2>1. Publish(channelNum, next, s.msg)
    BY <1>11 DEF BasicPublishHandler, After, next
  <2>2. PICK outcome \in Outcomes :
          /\ fate' = [fate EXCEPT ![s.msg].at = "done"]
          /\ channels' = [channels EXCEPT ![channelNum] = CASE outcome = "missing" -> [next EXCEPT !.closing = TRUE]
                                                            [] outcome = "error" -> next
                                                            [] OTHER -> Reset(next)]
          /\ published' = IF outcome = "routed" THEN Append(published, message) ELSE published
          /\ IF outcome = "error" THEN Become("closing") ELSE UNCHANGED phase
    BY <2>1 DEF Publish, MessageOf
  <2> DEFINE new == CASE outcome = "missing" -> [next EXCEPT !.closing = TRUE]
                      [] outcome = "error" -> next
                      [] OTHER -> Reset(next)
  <2>3. /\ new \in StateSet /\ (outcome = "missing" => new.closing) /\ (outcome \notin {"missing", "error"} => Clean(new))
    <3>1. CASE outcome = "missing"
      <4>1. new = [next EXCEPT !.closing = TRUE]
        BY <3>1
      <4> HIDE DEF new
      <4>2. new \in StateSet
        BY <1>3, <4>1 DEF StateSet
      <4>3. new.closing
        BY <1>3, <4>1 DEF StateSet
      <4> QED
        BY <3>1, <4>2, <4>3
    <3>2. CASE outcome = "error"
      BY <1>3, <3>2
    <3>3. CASE outcome \notin {"missing", "error"}
      <4>1. new = Reset(next)
        BY <3>3
      <4> HIDE DEF new
      <4> QED
        BY <3>3, <4>1, ResetState
    <3> QED
      BY <3>1, <3>2, <3>3
  <2>4. channels' = [channels EXCEPT ![channelNum] = new]
    BY <2>2
  <2> HIDE DEF new
  <2>5. /\ DOMAIN channels' = DOMAIN channels /\ channels' \in [DOMAIN channels -> StateSet]
        /\ ~mixed => channels'[ch] = new /\ \A c \in DOMAIN channels : c # ch => channels'[c] = channels[c]
    BY <1>7, <2>3, <2>4
  <2>6. /\ fate' \in [DOMAIN Messages -> Fates] /\ (\A n \in DOMAIN Messages : n # s.msg => fate'[n] = fate[n])
        /\ fate'[s.msg].on = fate[s.msg].on /\ fate'[s.msg].at = "done"
    <3>1. fate \in [DOMAIN Messages -> Fates] /\ fate[s.msg] \in Fates
      BY <1>5 DEF LoopInv, LoopType
    <3>2. fate' = [fate EXCEPT ![s.msg] = [fate[s.msg] EXCEPT !.at = "done"]]
      BY <2>2
    <3>3. /\ [fate[s.msg] EXCEPT !.at = "done"] \in Fates /\ [fate[s.msg] EXCEPT !.at = "done"].at = "done"
          /\ [fate[s.msg] EXCEPT !.at = "done"].on = fate[s.msg].on
      BY <3>1 DEF Fates
    <3> QED
      BY <1>5, <3>1, <3>2, <3>3
  <2>7. /\ message \in Handed /\ message.from = s.msg /\ message.key = next.method.key
        /\ message.props = next.header /\ message.body = next.body
    BY <1>3, <1>5, MessageHanded
  <2> HIDE DEF message
  <2>8. published' \in Seq(Handed)
    BY <1>2, <2>2, <2>7
  <2>9. ASSUME ~mixed
        PROVE  /\ s.next = Len(f)
               /\ next.method.key = Messages[s.msg].key /\ next.body = Messages[s.msg].body /\ next.body = frame.payload
               /\ DOMAIN next.header = Kept(Messages[s.msg].props)
    <3>1. st = channels[ch] /\ (Dead(st, ch \in stalled, phase[Pub]) \/ Following(st, s))
      BY <1>0, <1>8, <2>9, FollowsOrDead
    <3>2. /\ next.method = st.method /\ next.header = st.header /\ next.size = st.size
          /\ next.body = IF frame.type = 3 /\ st.body = Nothing THEN frame.payload ELSE st.body
      <4>1. CASE frame.type = 3 /\ st.body = Nothing
        <5>1. next = [st EXCEPT !.body = frame.payload]
          BY <1>0, <1>11, <4>1 DEF After
        <5> QED
          BY <4>1, <5>1 DEF StateSet
      <4>2. CASE ~(frame.type = 3 /\ st.body = Nothing)
        BY <1>0, <1>11, <4>2 DEF After
      <4> QED
        BY <4>1, <4>2
    <3>3. s.max \in FrameMaxes /\ s.next \in Nat /\ s.next <= Len(f) /\ Len(f) \in Nat
      BY SendingFacts
    <3>4. s.next # 1 => frame.type = 3
      BY FrameSent
    <3>5. next.size > 0 /\ next.header # Nothing /\ st.size \in Nat
      BY <1>11 DEF Complete, StateSet
    <3>6. ~Dead(st, ch \in stalled, phase[Pub])
      <4> SUFFICES ASSUME Dead(st, ch \in stalled, phase[Pub]) PROVE FALSE
        OBVIOUS
      <4>1. st.body # Nothing /\ Len(st.body) # st.size
        BY <3>2, <3>5 DEF Dead
      <4> QED
        BY <1>11, <3>2, <4>1
    <3>7. s.next # 1
      <4> SUFFICES ASSUME s.next = 1 PROVE FALSE
        OBVIOUS
      <4>1. st.header = Nothing
        BY <3>1, <3>6 DEF Following
      <4> QED
        BY <3>2, <3>5, <4>1
    <3>8. /\ s.next = 2 /\ st.method.key = Messages[s.msg].key /\ st.body = Nothing /\ HeaderRead(s.msg).ok
          /\ st.header = HeaderRead(s.msg).val.props /\ st.size = HeaderRead(s.msg).val.size
      BY <3>1, <3>6, <3>7 DEF Following
    <3>9. next.body = frame.payload /\ frame = f[2] /\ Len(f) >= 2
      BY <3>2, <3>3, <3>4, <3>7, <3>8 DEF Carries
    <3>10. st.size = Len(Messages[s.msg].body) /\ DOMAIN st.header = Kept(Messages[s.msg].props)
      BY <1>5, <3>8, HeaderFacts
    <3>11. Len(f[2].payload) = Len(Messages[s.msg].body)
      BY <1>11, <3>2, <3>9, <3>10
    <3>12. Len(f) = 2 /\ f[2].payload = Messages[s.msg].body
      <4>1. PICK m \in DOMAIN Messages, max \in FrameMaxes : m = s.msg /\ max = s.max
        BY <1>5, <3>3
      <4>2. f = Frames[<<m, max>>] /\ Len(f[2].payload) = Len(Messages[m].body)
        BY <3>11, <4>1 DEF Carries
      <4>3. Len(f) = 2 /\ f[2].payload = Messages[m].body
        BY <3>9, <4>2, FrameFacts
      <4> QED
        BY <4>1, <4>3
    <3> QED
      BY <3>2, <3>8, <3>9, <3>10, <3>12
  <2>10. HandedAsSent'
    <3> SUFFICES ASSUME ~mixed PROVE published' \in Seq({p \in Handed : AsSent(p, negotiated[Pub].frameMax)})
      BY <1>2 DEF HandedAsSent
    <3>1. AsSent(message, negotiated[Pub].frameMax)
      BY <2>7, <2>9 DEF AsSent
    <3> DEFINE S == {p \in Handed : AsSent(p, negotiated[Pub].frameMax)}
    <3>2. published \in Seq(S) /\ message \in S
      BY <1>2, <2>7, <3>1 DEF HandedAsSent
    <3> HIDE DEF S
    <3>3. published' \in Seq(S)
      BY <2>2, <3>2
    <3> QED
      BY <3>3 DEF S
  <2>11. phase' = phase \/ Become("closing")
    BY <2>2
  <2>12. outcome = "error" => ~Calling'
    BY <1>2, <2>2 DEF Become, Calling
  <2>13. ~mixed /\ Calling' => ChannelOk(channels'[ch], sending'[ch], ch \in stalled', phase'[Pub])
    <3> SUFFICES ASSUME ~mixed, Calling' PROVE ChannelOk(new, sending'[ch], ch \in stalled', phase'[Pub])
      BY <2>5
    <3>1. sending'[ch] = Nothing
      BY <1>0, <2>9 DEF Advanced, LoopInv, LoopType
    <3> QED
      BY <2>3, <2>12, <3>1 DEF ChannelOk
  <2>14. fate'[s.msg].at # "unsent" /\ fate'[s.msg].at # "sent"
    BY <2>6
  <2>15. ~mixed => ~channels[ch].closing
    BY <1>8
  <2>16. Effects(ch, s.msg)
    BY <2>5, <2>6, <2>8, <2>10, <2>11, <2>13, <2>14, <2>15 DEF Effects
  <2> QED
    BY <2>16, ContentKeeps, Zenon
<1> QED
  BY <1>9, <1>10, <1>11

(* The frame is ignored, or the loop closes the connection.                *)
LEMMA UnheardKeeps ==
    ASSUME LoopInv, Calling, NEW ch, NEW s, NEW f, NEW frame, Carries(ch, s, f, frame), Advanced(ch, s, f), NEW u,
           u = Undecided(s, f),
           fate' = u, UNCHANGED <<channels, published>>,
           \/ Become("closing")
           \/ phase' = phase /\ (\/ channelNum \notin DOMAIN channels
                                 \/ channels[channelNum].method.kind = "none" \/ Ignored(channelNum))
    PROVE  LoopInv'
<1>1. /\ u \in [DOMAIN Messages -> Fates] /\ (\A n \in DOMAIN Messages : n # s.msg => u[n] = fate[n])
      /\ u[s.msg].on = fate[s.msg].on /\ u[s.msg].at # "unsent"
  BY UndecidedFacts
<1>2. /\ channels \in [DOMAIN channels -> StateSet] /\ published \in Seq(Handed) /\ negotiated' = negotiated /\ mixed' = mixed
      /\ HandedAsSent /\ Pub \in DOMAIN phase
  BY DEF LoopInv, LoopType, Advanced, Peers
<1>3. HandedAsSent'
  BY <1>2 DEF HandedAsSent
<1>4. CASE Become("closing")
  <2>1. phase'[Pub] = "closing"
    BY <1>2, <1>4 DEF Become
  <2>2. ~Calling'
    BY <2>1 DEF Calling
  <2>4. Effects(ch, s.msg)
    BY <1>1, <1>2, <1>3, <1>4, <2>1, <2>2 DEF Effects
  <2> QED
    BY <2>4, ContentKeeps, Zenon
<1>5. CASE ~Become("closing")
  <2>1. phase' = phase
    BY <1>5
  <2>2. ASSUME ~mixed PROVE channels[ch].closing
    <3>1. /\ ch = channelNum /\ ch \in DOMAIN channels
          /\ channels[ch].closing \/ Dead(channels[ch], ch \in stalled, phase[Pub]) \/ Following(channels[ch], sending[ch])
      BY <2>2, FollowsOrDead DEF Carries
    <3>2. channels[ch].method.kind = "none" \/ channels[ch].closing
      BY <1>5, <3>1 DEF Ignored
    <3> QED
      BY <3>1, <3>2 DEF Dead, Following, Carries
  <2>3. ~mixed => ChannelOk(channels'[ch], sending'[ch], ch \in stalled', phase'[Pub]) /\ channels'[ch].closing
    BY <2>2 DEF ChannelOk
  <2>4. Effects(ch, s.msg)
    BY <1>1, <1>2, <1>3, <2>1, <2>3 DEF Effects
  <2> QED
    BY <2>4, ContentKeeps, Zenon
<1> QED
  BY <1>4, <1>5

LEMMA ClientContentKeeps == ASSUME LoopInv, NEW ch \in Channels, ClientContent(ch) PROVE LoopInv'
<1> DEFINE s == sending[ch]
           f == Frames[<<s.msg, s.max>>]
           frame == f[s.next]
           u == Undecided(s, f)
           st == channels[channelNum]
<1>1. Calling /\ sending[ch] # Nothing /\ UNCHANGED <<offer, negotiated, mixed>>
  BY DEF ClientContent
<1>4. Carries(ch, s, f, frame)
  BY <1>1 DEF Carries
<1>2. CASE ~Fits(frame.payload, negotiated[Pub].frameMax) \/ (frame.type = 2 /\ ~ParseHeader(frame.payload).ok)
  <2>1. Closed
    BY <1>2 DEF ClientContent
  <2>2. phase[Pub] # "tuning"
    BY <1>1 DEF Calling
  <2> QED
    BY <1>1, <2>1, <2>2, ClosedKeeps
<1>3. CASE ~(~Fits(frame.payload, negotiated[Pub].frameMax) \/ (frame.type = 2 /\ ~ParseHeader(frame.payload).ok))
  <2>1. Advanced(ch, s, f)
    BY <1>1, <1>3 DEF ClientContent, Advanced
  <2>2. Fits(frame.payload, negotiated[Pub].frameMax) /\ (frame.type = 2 => ParseHeader(frame.payload).ok)
    BY <1>3
  <2>3. CASE channelNum \notin DOMAIN channels \/ channels[channelNum].method.kind = "none" \/ Ignored(channelNum)
    <3>1. fate' = u /\ UNCHANGED <<phase, channels, published>>
      BY <1>3, <2>3 DEF ClientContent, Undecided
    <3> HIDE DEF s, f, frame, u
    <3>3. u = Undecided(s, f)
      BY DEF u
    <3> QED
      BY <1>1, <1>4, <2>1, <2>3, <3>1, <3>3, UnheardKeeps
  <2>4. CASE /\ ~(channelNum \notin DOMAIN channels \/ channels[channelNum].method.kind = "none" \/ Ignored(channelNum))
             /\ channels[channelNum].method.kind = "open"
    <3>1. fate' = u /\ Become("closing") /\ UNCHANGED <<channels, published>>
      BY <1>3, <2>4 DEF ClientContent, Undecided
    <3> HIDE DEF s, f, frame, u
    <3>3. u = Undecided(s, f)
      BY DEF u
    <3> QED
      BY <1>1, <1>4, <2>1, <3>1, <3>3, UnheardKeeps
  <2>5. CASE /\ ~(channelNum \notin DOMAIN channels \/ channels[channelNum].method.kind = "none" \/ Ignored(channelNum))
             /\ channels[channelNum].method.kind # "open"
    <3>1. BasicPublishHandler(channelNum, frame, s.msg, u)
      BY <1>3, <2>5 DEF ClientContent, Undecided
    <3>2. channelNum \in DOMAIN channels /\ ~st.closing /\ st \in StateSet /\ st.method.kind = "publish"
      <4>1. channelNum \in DOMAIN channels /\ ~st.closing /\ st \in StateSet
        BY <2>5 DEF Ignored, LoopInv, LoopType
      <4>2. st.method.kind \in {"none", "open", "publish"}
        BY <4>1 DEF StateSet, MethodRead
      <4> QED
        BY <2>5, <4>1, <4>2
    <3>3. u = Undecided(s, f) /\ st = channels[channelNum]
      OBVIOUS
    <3> HIDE DEF s, f, frame, u, st
    <3> QED
      BY <1>1, <1>4, <2>1, <2>2, <3>1, <3>2, <3>3, HandledKeeps
  <2> QED
    BY <2>3, <2>4, <2>5
<1> QED
  BY <1>2, <1>3

-----------------------------------------------------------------------------
LEMMA LoopStep == LoopInv /\ [ContentNext]_loopVars => LoopInv'
<1> SUFFICES ASSUME LoopInv, [ContentNext]_loopVars PROVE LoopInv'
  OBVIOUS
<1>1. ASSUME NEW c \in Peers, TuneOk(c) PROVE LoopInv'
  BY <1>1, TuneOkKeeps
<1>2. ASSUME NEW ch \in Channels, ClientOpen(ch) PROVE LoopInv'
  BY <1>2, ClientOpenKeeps
<1>3. ASSUME NEW ch \in Channels, ClientContent(ch) PROVE LoopInv'
  BY <1>3, ClientContentKeeps
<1>4. ASSUME NEW ch \in Channels, ClientClose(ch) PROVE LoopInv'
  BY <1>4, ClientCloseKeeps
<1>5. ASSUME NEW ch \in Channels, NEW m \in DOMAIN Messages, ClientPublish(ch, m) PROVE LoopInv'
  BY <1>5, ClientPublishKeeps
<1>6. CASE ClientCloseOk
  <2>1. Closed /\ UNCHANGED <<offer, negotiated, mixed>> /\ phase[Pub] # "tuning"
    BY <1>6 DEF ClientCloseOk
  <2> QED
    BY <2>1, ClosedKeeps
<1>7. CASE Deliver
  BY <1>7, DeliverKeeps
<1>8. CASE UNCHANGED loopVars
  BY <1>8 DEF loopVars, LoopInv, LoopType, Agreed, OnItsChannel, ChannelsOk, Calling, SentAnswered, HandedAsSent
<1> QED
  BY <1>1, <1>2, <1>3, <1>4, <1>5, <1>6, <1>7, <1>8 DEF ContentNext

LEMMA LoopInvariant == ContentSpec => []LoopInv
<1>1. ContentInit => LoopInv
  BY LoopInitially
<1>2. LoopInv /\ [ContentNext]_loopVars => LoopInv'
  BY LoopStep
<1> QED
  BY <1>1, <1>2, PTL DEF ContentSpec

(* What a client that does not mix the content of two channels publishes   *)
(* reaches the vhost as it was sent, for all messages, limits and channels *)
(* and any number of publishes: key, body and the properties it set, from  *)
(* frames within the limit (basicPublishHandler and resetChannelState).    *)
THEOREM ContentAsSent == ContentSpec => []PublishedAsSent
<1>1. LoopInv => PublishedAsSent
  <2> SUFFICES ASSUME LoopInv, ~mixed, NEW i \in DOMAIN published
               PROVE  LET p == published[i]
                          m == Messages[p.from]
                      IN  /\ p.key = m.key /\ p.body = m.body /\ DOMAIN p.props = Kept(m.props)
                          /\ Fits(p.body, negotiated[Pub].frameMax)
    BY DEF PublishedAsSent
  <2> DEFINE S == {p \in Handed : AsSent(p, negotiated[Pub].frameMax)}
  <2>1. published \in Seq(S)
    BY DEF LoopInv, HandedAsSent
  <2> HIDE DEF S
  <2>2. published[i] \in S
    BY <2>1
  <2>3. AsSent(published[i], negotiated[Pub].frameMax)
    BY <2>2 DEF S
  <2> QED
    BY <2>3 DEF AsSent
<1> QED
  BY <1>1, LoopInvariant, PTL

(* A message whose last frame was sent is decided: published, returned,    *)
(* dropped as unroutable or answered with a close, unless an empty body    *)
(* was sent on its channel (the size > 0 of basicPublishHandler).          *)
THEOREM ContentDecided == ContentSpec => []NothingSwallowed
<1>1. LoopInv => NothingSwallowed
  <2> SUFFICES ASSUME LoopInv, NEW m \in DOMAIN Messages, fate[m].at = "sent"
               PROVE  mixed \/ phase[Pub] # "serving" \/ fate[m].on \in stalled \/ channels[fate[m].on].closing
    BY DEF NothingSwallowed
  <2> QED
    BY DEF LoopInv, SentAnswered
<1> QED
  BY <1>1, LoopInvariant, PTL

(* The limits of a connection that is served are within both sides' (tuning.go, *)
(* channelOpenHandler): no channel above either channel-max, and heartbeats as  *)
(* often as the client asked for, or none.                                      *)
THEOREM LimitsKept == ContentSpec => []LimitsRespected
<1>1. LoopInv => LimitsRespected
  <2> SUFFICES ASSUME LoopInv, NEW c \in Peers, phase[c] \in {"serving", "told", "closing"}
               PROVE  /\ c = Pub => \A ch \in DOMAIN channels :
                            0 < ch /\ ch <= NoLimit(offer[c].channelMax) /\ ch <= NoLimit(Tuning.channelMax)
                      /\ IF offer[c].heartbeat = 0 THEN negotiated[c].heartbeat = 0
                         ELSE negotiated[c].heartbeat > 0
                                /\ HeartbeatSendInterval(negotiated[c].heartbeat) <= 2 * offer[c].heartbeat
    BY DEF LimitsRespected
  <2>1. offer[c] \in TuneOks /\ negotiated[c] = Negotiate(offer[c]) /\ negotiated[c] # Refused
    BY DEF LoopInv, Agreed
  <2>2. /\ offer[c] \in Limits /\ negotiated[c] \in Limits
        /\ negotiated[c].channelMax <= NoLimit(offer[c].channelMax)
        /\ negotiated[c].channelMax <= NoLimit(Tuning.channelMax)
        /\ IF offer[c].heartbeat = 0 THEN negotiated[c].heartbeat = 0
           ELSE negotiated[c].heartbeat > 0 /\ negotiated[c].heartbeat <= offer[c].heartbeat
    BY <2>1, NegotiateLimits
  <2>3. ASSUME c = Pub, NEW ch \in DOMAIN channels
        PROVE  0 < ch /\ ch <= NoLimit(offer[c].channelMax) /\ ch <= NoLimit(Tuning.channelMax)
    <3>1. 0 < ch /\ ch <= negotiated[c].channelMax
      BY <2>3 DEF LoopInv, Agreed
    <3>2. MaxUint16 \in Nat
      BY DEF MaxUint16
    <3>3. ch \in Nat
      BY FrameLoopAssumption DEF LoopInv, LoopType
    <3>4. negotiated[c].channelMax \in 0..MaxUint16 /\ offer[c].channelMax \in 0..MaxUint16 /\ Tuning.channelMax \in 0..MaxUint16
      BY <2>2, TuningLimits DEF Limits
    <3>5. NoLimit(offer[c].channelMax) \in Nat /\ NoLimit(Tuning.channelMax) \in Nat
      BY <3>2, <3>4 DEF NoLimit
    <3> QED
      BY <2>2, <3>1, <3>2, <3>3, <3>4, <3>5
  <2>4. negotiated[c].heartbeat \in Nat /\ offer[c].heartbeat \in Nat
    BY <2>2 DEF Limits
  <2>5. IF offer[c].heartbeat = 0 THEN negotiated[c].heartbeat = 0
        ELSE negotiated[c].heartbeat > 0 /\ HeartbeatSendInterval(negotiated[c].heartbeat) <= 2 * offer[c].heartbeat
    BY <2>2, <2>4 DEF HeartbeatSendInterval
  <2> QED
    BY <2>3, <2>5
<1> QED
  BY <1>1, LoopInvariant, PTL

=============================================================================
