------------------------------ MODULE StoreSpec ------------------------------
(***************************************************************************)
(* What the persistence interface promises of one entity: a queue with its *)
(* messages, or an exchange with its bindings.  Each method is atomic with *)
(* respect to the others, a method that returned is durable, except a      *)
(* deletion, and a crash leaves every entity with a value it had.  The     *)
(* exception are the entities a failed creation left uncertain: a crash    *)
(* may leave them missing.                                                 *)
(***************************************************************************)
EXTENDS Naturals, FiniteSets

CONSTANTS
    Procs,       \* the goroutines that call the store
    Files,       \* the entities
    Exchanges,   \* those that are exchanges; the others are queues
    Items,       \* messages of a queue, bindings of an exchange
    Missing      \* an entity that does not exist

VARIABLES
    value,     \* what a method called now finds
    maybe,     \* what a crash may leave of it
    uncertain, \* the entities a crash may remove
    call       \* the method each goroutine is in

specVars == <<value, maybe, uncertain, call>>

Ops == {"saveMeta", "add", "del"}
Idle == [state |-> "idle"]

(* SaveQueueMetadata keeps the messages of an existing queue, while        *)
(* SaveExchangeMetadata writes an exchange without bindings.  The other    *)
(* methods fail on an entity that does not exist.                          *)
Defined(op, v) == op = "saveMeta" \/ v # Missing
Effect(op, f, i, v) ==
    CASE op = "saveMeta" -> IF v = Missing \/ f \in Exchanges THEN {} ELSE v
      [] op = "add" -> v \union {i}
      [] op = "del" -> v \ {i}
      [] op = "remove" -> Missing

SpecInit ==
    /\ value = [f \in Files |-> Missing]
    /\ maybe = [f \in Files |-> {Missing}]
    /\ uncertain = {}
    /\ call = [p \in Procs |-> Idle]

Called(p) ==
    /\ call[p].state = "idle"
    /\ \E op \in Ops \union {"remove", "load"}, f \in Files, i \in Items :
        call' = [call EXCEPT ![p] = [state |-> "called", op |-> op, file |-> f, item |-> i]]
    /\ UNCHANGED <<value, maybe, uncertain>>

(* The method takes effect on the value the entity has at that moment. *)
Applied(p) ==
    LET c == call[p]
        new == Effect(c.op, c.file, c.item, value[c.file])
    IN /\ c.state = "called"
       /\ c.op \in Ops \union {"remove"}
       /\ Defined(c.op, value[c.file])
       /\ value' = [value EXCEPT ![c.file] = new]
       /\ maybe' = [maybe EXCEPT ![c.file] = @ \union {new}]
       /\ call' = [call EXCEPT ![p] = IF c.op = "remove" THEN Idle ELSE [c EXCEPT !.state = "applied"]]
       /\ UNCHANGED uncertain

(* A write returns once it is durable, or as good as an uncertain entity   *)
(* gets; what else it makes durable is open.                               *)
Returned(p) ==
    /\ call[p].state = "applied"
    /\ \E S \in SUBSET Files :
        /\ call[p].file \in S
        /\ maybe' = [f \in Files |->
               IF f \in S THEN {value[f]} \union IF f \in uncertain THEN {Missing} ELSE {}
               ELSE maybe[f]]
    /\ call' = [call EXCEPT ![p] = Idle]
    /\ UNCHANGED <<value, uncertain>>

(* A load, a method that finds nothing to do, and one that fails. *)
GivenUp(p) ==
    /\ call[p].state # "idle"
    /\ call' = [call EXCEPT ![p] = Idle]
    /\ UNCHANGED <<value, maybe, uncertain>>

(* A creation that fails may leave entities uncertain that do not exist,   *)
(* neither now nor after a crash.                                          *)
CreationFailed(p) ==
    /\ call[p].state = "called" /\ call[p].op = "saveMeta"
    /\ call' = [call EXCEPT ![p] = Idle]
    /\ \E S \in SUBSET {f \in Files : maybe[f] = {Missing}} : uncertain' = uncertain \union S
    /\ UNCHANGED <<value, maybe>>

(* Opening the store fails, before any method is called. *)
OpeningFailed ==
    /\ \A p \in Procs : call[p] = Idle
    /\ \E S \in SUBSET {f \in Files : maybe[f] = {Missing}} : uncertain' = uncertain \union S
    /\ UNCHANGED <<value, maybe, call>>

(* A later creation makes uncertain entities durable. *)
Assured ==
    /\ uncertain' \subseteq uncertain
    /\ \E S \in SUBSET {f \in uncertain : value[f] # Missing} :
        maybe' = [f \in Files |-> IF f \in S THEN maybe[f] \ {Missing} ELSE maybe[f]]
    /\ UNCHANGED <<value, call>>

Crashed ==
    /\ value' \in [Files -> UNION {maybe[f] : f \in Files}]
    /\ \A f \in Files : value'[f] \in maybe[f]
    /\ maybe' = [f \in Files |-> {value'[f]}]
    /\ uncertain' = {}
    /\ call' = [p \in Procs |-> Idle]

SpecNext ==
    \/ \E p \in Procs : Called(p) \/ Applied(p) \/ Returned(p) \/ GivenUp(p) \/ CreationFailed(p)
    \/ OpeningFailed \/ Assured \/ Crashed

StoreSpecification == SpecInit /\ [][SpecNext]_specVars
=============================================================================
