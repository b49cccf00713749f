----------------------------- MODULE VHostProofs -----------------------------
(***************************************************************************)
(* Proofs about VHost, for any exchanges, queues, bindings, messages,      *)
(* clients and crashes: bindings lead to live queues, what auto-deletes    *)
(* goes, the files follow the registry, what the queues hold is on disk,   *)
(* and topic exchanges route by what their patterns mean, for keys of any  *)
(* number of words.                                                        *)
(***************************************************************************)
EXTENDS VHost, FiniteSetTheorems, WellFoundedInduction, TLAPS

AllNames == ExNames \union {Default}
RegistryType == [ex : [AllNames -> ExchangeObject \union {None}],
                 qu : [QNames -> QueueObject \union {None}],
                 xf : [ExNames -> ExchangeFile \union {None}],
                 qf : [QNames -> QueueFile \union {None}]]

-----------------------------------------------------------------------------
(* The invariant, in three parts.  First the requests: an idle handler     *)
(* holds nothing, the others what their step needs, and a dead process has *)
(* only its files.                                                         *)
HandlerOf(h, n) ==
    /\ h.pc = "idle" => h = Idle
    /\ h.pc \in {"declared", "deleting"} => h.q \in QNames /\ h.m = None
    /\ h.pc = "dropping" => h.e \in ExNames /\ h.m = None
    /\ h.pc \in {"pushing", "discarding", "removing"} => h.m \in Msgs
    /\ h.pc \in {"discarding", "removing"} \/ (h.pc = "pushing" /\ "remove" \in h.flags) => h.q \in QNames
    /\ h.pc = "discarding" => h.e \in ExNames
    /\ h.to # {} <=> h.pc = "pushing"
    /\ \A t \in h.to \union h.back : t[2] <= n
    /\ h.back # {} => h.pc \in {"discarding", "removing", "pushing"} /\ "remove" \in h.flags
Backed(h) == \A t \in h.back : <<t[1], h.m>> \in exposed
HandlerInv ==
    /\ \A c \in Conns : HandlerOf(handler[c], born)
    /\ ~up => /\ exchanges = mandatory
              /\ \A q \in QNames : queues[q] = None
              /\ \A c \in Conns : handler[c] = Idle
    /\ \A c \in Conns : Backed(handler[c])

(* An exchange x with its file f: its bindings lead to the queues of qu,   *)
(* it has a binding if it must, and the file lists its durable bindings.   *)
LiveEx(x, qu) ==
    x # None => \A b \in x.bindings : qu[b.queue] # None /\ qu[b.queue].born = b.born
AutoEx(x) == x # None /\ x.kind.autoDelete /\ x.bound => x.bindings # {}
Listed(x, qu, b) ==
    \E d \in x.bindings : Entry(x, d) = b /\ qu[d.queue].kind.durable
FileEx(x, f, qu, skipped) ==
    IF x # None /\ x.kind.durable
    THEN /\ f # None
         /\ SameKind(f.kind, x.kind)
         /\ \A b \in FileBinding : b.queue \notin skipped => (b \in f.bindings <=> Listed(x, qu, b))
    ELSE f = None
AutoQu(x) == x # None /\ x.kind.autoDelete /\ x.consumed => x.consumers # {}
FileQu(x, f, skip) ==
    skip \/ IF x # None /\ x.kind.durable THEN f # None /\ f.kind = x.kind ELSE f = None
FileKinds(r) ==
    /\ \A e \in ExNames : r.xf[e] # None => r.xf[e].kind.durable
    /\ \A q \in QNames : r.qf[q] # None => r.qf[q].kind.durable

(* The registry. *)
RegistryInv(r, skipped) ==
    /\ r.ex[Default] # None /\ ~r.ex[Default].kind.durable /\ ~r.ex[Default].kind.autoDelete
    /\ \A e \in AllNames : LiveEx(r.ex[e], r.qu) /\ AutoEx(r.ex[e])
    /\ \A e \in ExNames \ skipped : FileEx(r.ex[e], r.xf[e], r.qu, skipped)
    /\ \A q \in QNames : AutoQu(r.qu[q]) /\ FileQu(r.qu[q], r.qf[q], q \in skipped)
    /\ FileKinds(r)

(* The files on their own: they are those of durable objects. *)
FilesInv == FileKinds(Registry)
BornInv == \A q \in QNames : queues[q] # None => queues[q].born <= born

(* The messages.  A handler is pushing m to the queue object that is now   *)
(* registered as q, or has taken m from a queue q.                         *)
Pushing(c, q, m) == handler[c].m = m /\ <<q, queues[q].born>> \in handler[c].to
Taken(c, q, m) == handler[c].m = m /\ handler[c].q = q
FreshInv ==
    \A m \in fresh :
        /\ \A c \in Conns : handler[c].m # m
        /\ \A q \in QNames : queues[q] # None => m \notin queues[q].held
        /\ \A q \in QNames : qFiles[q] # None => m \notin qFiles[q].messages
InFile(q, m) == qFiles[q] # None /\ m \in qFiles[q].messages
OnDisk(q, m) ==
    /\ m \in queues[q].held \/ (\E c \in Conns : Pushing(c, q, m)) => InFile(q, m)
    /\ (\E c \in Conns : Taken(c, q, m)) \/ m \in queues[q].held => \A c \in Conns : ~Pushing(c, q, m)
    /\ (\E c \in Conns : Taken(c, q, m)) => m \notin queues[q].held
    /\ \A c, d \in Conns : Pushing(c, q, m) /\ Pushing(d, q, m) => c = d
DiskInv ==
    \A q \in QNames : queues[q] # None /\ queues[q].kind.durable =>
        \A m \in Msgs : <<q, m>> \in exposed \/ OnDisk(q, m)
WillRemove(c, q, m) ==
    /\ Taken(c, q, m)
    /\ handler[c].pc \in {"discarding", "removing"} \/ (handler[c].pc = "pushing" /\ "remove" \in handler[c].flags)
Accounted(q, m) ==
    \/ m \in queues[q].held \/ <<q, m>> \in leaked
    \/ \E c \in Conns : Pushing(c, q, m) \/ WillRemove(c, q, m)
AccountedInv ==
    \A q \in QNames : queues[q] # None /\ queues[q].kind.durable /\ q \notin adrift =>
        \A m \in qFiles[q].messages : Accounted(q, m)

RegInv == up => RegistryInv(Registry, adrift)
MsgInv == FreshInv /\ (up => DiskInv /\ AccountedInv)
IInv == TypeOK /\ HandlerInv /\ RegInv /\ FilesInv /\ BornInv /\ MsgInv

-----------------------------------------------------------------------------
(* The registry's operators: the type of what they return, and what it is  *)
(* for each exchange and queue.                                            *)
LEMMA RegistryTyped ==
    ASSUME TypeOK
    PROVE  /\ Registry \in RegistryType
           /\ Registry.ex = exchanges /\ Registry.qu = queues /\ Registry.xf = exFiles /\ Registry.qf = qFiles
  BY DEF TypeOK, Registry, RegistryType, AllNames

(* The registry becomes r, whatever of it the files fail to follow.        *)
LEMMA BecomeStep ==
    ASSUME TypeOK, FilesInv, NEW r \in RegistryType, NEW odd \in SUBSET (AllNames \union QNames),
           Become(r, odd), RegistryInv(r, adrift \union odd)
    PROVE  /\ exchanges' = r.ex /\ queues' = r.qu
           /\ exchanges' \in [AllNames -> ExchangeObject \union {None}]
           /\ queues' \in [QNames -> QueueObject \union {None}]
           /\ exFiles' \in [ExNames -> ExchangeFile \union {None}]
           /\ qFiles' \in [QNames -> QueueFile \union {None}]
           /\ \A q \in QNames : qFiles'[q] = r.qf[q] \/ qFiles'[q] = qFiles[q]
           /\ adrift \subseteq adrift' /\ adrift' \subseteq AllNames \union QNames
           /\ RegistryInv(Registry', adrift') /\ FilesInv'
<1>1. PICK X \in SUBSET {e \in ExNames : r.xf[e] # exFiles[e]}, Q \in SUBSET {q \in QNames : r.qf[q] # qFiles[q]} :
        \E C \in SUBSET UNION {{e} \X Undone(r, e) : e \in X} :
            /\ exFiles' = [e \in ExNames |-> IF e \notin X THEN r.xf[e]
                                            ELSE IF exFiles[e] = None THEN None
                                            ELSE [exFiles[e] EXCEPT !.bindings = {b \in @ : <<e, b>> \notin C}]]
            /\ qFiles' = [q \in QNames |-> IF q \in Q THEN qFiles[q] ELSE r.qf[q]]
            /\ adrift' = adrift \union odd \union X \union Q
  BY Zenon DEF Become
<1>2. PICK C :
            /\ exFiles' = [e \in ExNames |-> IF e \notin X THEN r.xf[e]
                                            ELSE IF exFiles[e] = None THEN None
                                            ELSE [exFiles[e] EXCEPT !.bindings = {b \in @ : <<e, b>> \notin C}]]
            /\ qFiles' = [q \in QNames |-> IF q \in Q THEN qFiles[q] ELSE r.qf[q]]
            /\ adrift' = adrift \union odd \union X \union Q
  BY <1>1
<1>3. exchanges' = r.ex /\ queues' = r.qu
  BY DEF Become
<1>4. /\ exFiles \in [ExNames -> ExchangeFile \union {None}] /\ qFiles \in [QNames -> QueueFile \union {None}]
      /\ adrift \subseteq AllNames \union QNames
  BY DEF TypeOK, AllNames
<1>5. /\ r.ex \in [AllNames -> ExchangeObject \union {None}] /\ r.qu \in [QNames -> QueueObject \union {None}]
      /\ r.xf \in [ExNames -> ExchangeFile \union {None}] /\ r.qf \in [QNames -> QueueFile \union {None}]
  BY DEF RegistryType
<1>6. ASSUME NEW e \in ExNames
      PROVE  /\ exFiles'[e] \in ExchangeFile \union {None}
             /\ e \notin X => exFiles'[e] = r.xf[e]
             /\ exFiles'[e] # None => exFiles'[e].kind.durable
  <2>0. /\ exFiles[e] # None => exFiles[e] \in ExchangeFile /\ exFiles[e].kind.durable
        /\ r.xf[e] # None => r.xf[e].kind.durable
    BY <1>4 DEF FilesInv, FileKinds, Registry, RegistryInv
  <2>1. CASE e \notin X
    BY <1>2, <1>5, <2>0, <2>1
  <2>2. CASE e \in X /\ exFiles[e] = None
    BY <1>2, <2>2
  <2>3. CASE e \in X /\ exFiles[e] # None
    <3> DEFINE f == exFiles[e]
               B == {b \in f.bindings : <<e, b>> \notin C}
               g == [f EXCEPT !.bindings = B]
    <3>1. exFiles'[e] = g
      BY <1>2, <2>3
    <3>2. f \in ExchangeFile /\ f.kind.durable
      BY <2>0, <2>3
    <3>3. B \in SUBSET FileBinding
      BY <3>2 DEF ExchangeFile
    <3> HIDE DEF B
    <3>4. g \in ExchangeFile /\ g.kind = f.kind
      BY <3>2, <3>3 DEF ExchangeFile
    <3> QED
      BY <2>3, <3>1, <3>2, <3>4
  <2> QED
    BY <2>1, <2>2, <2>3
<1>7. ASSUME NEW q \in QNames
      PROVE  /\ qFiles'[q] \in QueueFile \union {None}
             /\ q \notin Q => qFiles'[q] = r.qf[q]
             /\ qFiles'[q] = r.qf[q] \/ qFiles'[q] = qFiles[q]
             /\ qFiles'[q] # None => qFiles'[q].kind.durable
  <2>0. /\ qFiles[q] # None => qFiles[q].kind.durable
        /\ r.qf[q] # None => r.qf[q].kind.durable
    BY DEF FilesInv, FileKinds, Registry, RegistryInv
  <2> QED
    BY <1>2, <1>4, <1>5, <2>0
<1>8. DOMAIN exFiles' = ExNames /\ exFiles' = [e \in ExNames |-> exFiles'[e]]
      /\ DOMAIN qFiles' = QNames /\ qFiles' = [q \in QNames |-> qFiles'[q]]
  BY <1>2
<1>9. exFiles' \in [ExNames -> ExchangeFile \union {None}] /\ qFiles' \in [QNames -> QueueFile \union {None}]
  BY <1>6, <1>7, <1>8
<1>10. adrift \subseteq adrift' /\ odd \subseteq adrift' /\ X \subseteq adrift' /\ Q \subseteq adrift'
       /\ adrift' \subseteq AllNames \union QNames
  BY <1>2, <1>4 DEF AllNames
<1>11. Registry' = [ex |-> r.ex, qu |-> r.qu, xf |-> exFiles', qf |-> qFiles']
  BY <1>3 DEF Registry
<1>12. FileKinds(Registry')
  BY <1>6, <1>7, <1>11 DEF FileKinds
<1>13. \A e \in ExNames \ adrift' : FileEx(r.ex[e], exFiles'[e], r.qu, adrift')
  <2> TAKE e \in ExNames \ adrift'
  <2>1. exFiles'[e] = r.xf[e] /\ FileEx(r.ex[e], r.xf[e], r.qu, adrift \union odd)
    BY <1>6, <1>10 DEF RegistryInv
  <2> QED
    BY <1>10, <2>1 DEF FileEx
<1>14. \A q \in QNames : AutoQu(r.qu[q]) /\ FileQu(r.qu[q], qFiles'[q], q \in adrift')
  <2> TAKE q \in QNames
  <2>1. AutoQu(r.qu[q]) /\ FileQu(r.qu[q], r.qf[q], q \in adrift \union odd)
    BY DEF RegistryInv
  <2>2. q \notin adrift' => qFiles'[q] = r.qf[q] /\ q \notin adrift \union odd
    BY <1>7, <1>10
  <2> QED
    BY <2>1, <2>2 DEF FileQu
<1>15. RegistryInv(Registry', adrift')
  BY <1>11, <1>12, <1>13, <1>14 DEF RegistryInv
<1> QED
  BY <1>3, <1>5, <1>7, <1>9, <1>10, <1>12, <1>15 DEF FilesInv

LEMMA KeptFacts ==
    ASSUME NEW r \in RegistryType, NEW e \in AllNames, NEW B
    PROVE  /\ Kept(r, e, B) \in ExchangeObject \union {None}
           /\ r.ex[e] = None => Kept(r, e, B) = None
           /\ r.ex[e] # None /\ ~LosesAll(r, e, B) =>
                /\ Kept(r, e, B) # None
                /\ Kept(r, e, B).kind = r.ex[e].kind /\ Kept(r, e, B).bound = r.ex[e].bound
                /\ Kept(r, e, B).bindings = r.ex[e].bindings \ B
           /\ LosesAll(r, e, B) =>
                /\ Kept(r, e, B) = None /\ r.ex[e] # None /\ r.ex[e].kind.autoDelete
                /\ r.ex[e].bindings \subseteq B
<1>1. CASE r.ex[e] = None
  BY <1>1 DEF Kept, Exists, LosesAll
<1>2. CASE LosesAll(r, e, B)
  BY <1>2 DEF Kept, Exists, LosesAll
<1>3. CASE r.ex[e] # None /\ ~LosesAll(r, e, B)
  <2> DEFINE x == r.ex[e]
             n == [x EXCEPT !.bindings = x.bindings \ B]
  <2>1. x \in ExchangeObject
    BY <1>3 DEF RegistryType
  <2>2. Kept(r, e, B) = n
    BY <1>3 DEF Kept, Exists
  <2>3. x.bindings \ B \in SUBSET Binding
    BY <2>1 DEF ExchangeObject
  <2>4. n \in ExchangeObject /\ n.kind = x.kind /\ n.bound = x.bound /\ n.bindings = x.bindings \ B
    BY <2>1, <2>3 DEF ExchangeObject
  <2>5. n # None
    BY <2>4, NoneAssumption
  <2> QED
    BY <1>3, <2>2, <2>4, <2>5
<1> QED
  BY <1>1, <1>2, <1>3

LEMMA KeptFileFacts ==
    ASSUME NEW r \in RegistryType, NEW e \in ExNames, NEW B
    PROVE  /\ KeptFile(r, e, B) \in ExchangeFile \union {None}
           /\ r.xf[e] = None \/ (LosesAll(r, e, B) /\ r.ex[e].kind.durable) => KeptFile(r, e, B) = None
           /\ r.xf[e] # None /\ ~(LosesAll(r, e, B) /\ r.ex[e].kind.durable) =>
                /\ KeptFile(r, e, B) # None /\ KeptFile(r, e, B).kind = r.xf[e].kind
                /\ KeptFile(r, e, B).bindings \subseteq r.xf[e].bindings
                /\ r.ex[e] # None /\ r.ex[e].kind.durable =>
                     KeptFile(r, e, B).bindings = r.xf[e].bindings \ Entries(r, e, B)
<1>1. CASE r.xf[e] = None \/ (LosesAll(r, e, B) /\ r.ex[e].kind.durable)
  BY <1>1 DEF KeptFile
<1>2. CASE ~(r.xf[e] = None \/ (LosesAll(r, e, B) /\ r.ex[e].kind.durable))
  <2> DEFINE f == r.xf[e]
             n == [f EXCEPT !.bindings = f.bindings \ Entries(r, e, B)]
  <2>1. f \in ExchangeFile
    BY <1>2 DEF RegistryType
  <2>2. CASE ~Exists(r, e) \/ ~r.ex[e].kind.durable
    <3>1. KeptFile(r, e, B) = f
      BY <1>2, <2>2 DEF KeptFile
    <3> QED
      BY <1>2, <2>1, <2>2, <3>1 DEF Exists
  <2>3. CASE ~(~Exists(r, e) \/ ~r.ex[e].kind.durable)
    <3>1. KeptFile(r, e, B) = n
      BY <1>2, <2>3 DEF KeptFile
    <3>2. f.bindings \ Entries(r, e, B) \in SUBSET FileBinding
      BY <2>1 DEF ExchangeFile
    <3>3. n \in ExchangeFile /\ n.kind = f.kind /\ n.bindings = f.bindings \ Entries(r, e, B)
      BY <2>1, <3>2 DEF ExchangeFile
    <3>4. n # None
      BY <3>3, NoneAssumption
    <3> QED
      BY <1>2, <3>1, <3>3, <3>4
  <2> QED
    BY <2>2, <2>3
<1> QED
  BY <1>1, <1>2

LEMMA WithoutFacts ==
    ASSUME NEW r \in RegistryType, NEW B
    PROVE  /\ WithoutBindings(r, B) \in RegistryType
           /\ \A e \in AllNames : WithoutBindings(r, B).ex[e] = Kept(r, e, B)
           /\ \A e \in ExNames : WithoutBindings(r, B).xf[e] = KeptFile(r, e, B)
           /\ WithoutBindings(r, B).qu = r.qu /\ WithoutBindings(r, B).qf = r.qf
<1> DEFINE X == [e \in AllNames |-> Kept(r, e, B)]
           F == [e \in ExNames |-> KeptFile(r, e, B)]
           n == [r EXCEPT !.ex = X, !.xf = F]
<1>1. DOMAIN r.ex = AllNames /\ DOMAIN r.xf = ExNames
  BY DEF RegistryType
<1>2. WithoutBindings(r, B) = n
  BY <1>1 DEF WithoutBindings
<1>3. X \in [AllNames -> ExchangeObject \union {None}]
  BY KeptFacts
<1>4. F \in [ExNames -> ExchangeFile \union {None}]
  BY KeptFileFacts
<1>5. (\A e \in AllNames : X[e] = Kept(r, e, B)) /\ \A e \in ExNames : F[e] = KeptFile(r, e, B)
  OBVIOUS
<1> HIDE DEF X, F
<1>6. n \in RegistryType /\ n.ex = X /\ n.xf = F /\ n.qu = r.qu /\ n.qf = r.qf
  BY <1>3, <1>4 DEF RegistryType
<1> QED
  BY <1>2, <1>5, <1>6

LEMMA DeleteFacts ==
    ASSUME NEW r \in RegistryType, NEW D \in SUBSET QNames
    PROVE  LET n == DeleteQueues(r, D)
               B == BindingsOf(r, D)
           IN /\ n \in RegistryType
              /\ \A e \in AllNames : n.ex[e] = Kept(r, e, B)
              /\ \A e \in ExNames : n.xf[e] = KeptFile(r, e, B)
              /\ \A q \in QNames : n.qu[q] = IF q \in D THEN None ELSE r.qu[q]
              /\ \A q \in QNames : n.qf[q] = IF q \in D /\ r.qu[q].kind.durable THEN None ELSE r.qf[q]
<1> DEFINE B == BindingsOf(r, D)
           w == WithoutBindings(r, B)
           Q == [q \in QNames |-> IF q \in D THEN None ELSE r.qu[q]]
           G == [q \in QNames |-> IF q \in D /\ r.qu[q].kind.durable THEN None ELSE r.qf[q]]
           n == [w EXCEPT !.qu = Q, !.qf = G]
<1>1. DeleteQueues(r, D) = n
  BY DEF DeleteQueues
<1>2. /\ w \in RegistryType
      /\ \A e \in AllNames : w.ex[e] = Kept(r, e, B)
      /\ \A e \in ExNames : w.xf[e] = KeptFile(r, e, B)
  BY WithoutFacts
<1>3. Q \in [QNames -> QueueObject \union {None}]
  BY DEF RegistryType
<1>4. G \in [QNames -> QueueFile \union {None}]
  BY DEF RegistryType
<1>5. /\ \A q \in QNames : Q[q] = IF q \in D THEN None ELSE r.qu[q]
      /\ \A q \in QNames : G[q] = IF q \in D /\ r.qu[q].kind.durable THEN None ELSE r.qf[q]
  OBVIOUS
<1> HIDE DEF Q, G, w, B
<1>6. n \in RegistryType /\ n.ex = w.ex /\ n.xf = w.xf /\ n.qu = Q /\ n.qf = G
  BY <1>2, <1>3, <1>4 DEF RegistryType
<1> QED
  BY <1>1, <1>2, <1>5, <1>6 DEF B

(* The consumers of c on the queues of Q are gone; queues that are left    *)
(* alone stay as they are.                                                 *)
Cancels(r, c, Q, cut, D) ==
    /\ CancelConsumers(r, c, Q) = DeleteQueues(cut, D)
    /\ cut.ex = r.ex /\ cut.xf = r.xf /\ cut.qf = r.qf
    /\ \A q \in QNames \ Q : cut.qu[q] = r.qu[q]
    /\ \A q \in Q : /\ cut.qu[q] # None /\ cut.qu[q].kind = r.qu[q].kind /\ cut.qu[q].born = r.qu[q].born
          /\ cut.qu[q].held = r.qu[q].held /\ cut.qu[q].consumed = r.qu[q].consumed
          /\ cut.qu[q].owner = r.qu[q].owner
          /\ cut.qu[q].consumers = r.qu[q].consumers \ {c}
    /\ D = {q \in Q : c \in r.qu[q].consumers /\ cut.qu[q].kind.autoDelete /\ cut.qu[q].consumers = {}}

LEMMA CancelFacts ==
    ASSUME NEW r \in RegistryType, NEW c, NEW Q \in SUBSET QNames, \A q \in Q : r.qu[q] # None
    PROVE  \E cut \in RegistryType, D \in SUBSET Q : Cancels(r, c, Q, cut, D)
<1> DEFINE qu == [q \in QNames |-> IF q \in Q THEN [r.qu[q] EXCEPT !.consumers = @ \ {c}] ELSE r.qu[q]]
           cut == [r EXCEPT !.qu = qu]
           D == {q \in Q : c \in r.qu[q].consumers /\ qu[q].kind.autoDelete /\ qu[q].consumers = {}}
<1>1. CancelConsumers(r, c, Q) = DeleteQueues(cut, D)
  BY DEF CancelConsumers
<1>2. ASSUME NEW q \in Q
      PROVE  /\ qu[q] \in QueueObject
             /\ qu[q].kind = r.qu[q].kind /\ qu[q].born = r.qu[q].born /\ qu[q].held = r.qu[q].held
             /\ qu[q].consumed = r.qu[q].consumed /\ qu[q].owner = r.qu[q].owner
             /\ qu[q].consumers = r.qu[q].consumers \ {c}
  <2> DEFINE x == r.qu[q]
             n == [x EXCEPT !.consumers = x.consumers \ {c}]
  <2>1. x \in QueueObject
    BY DEF RegistryType
  <2>2. qu[q] = n
    OBVIOUS
  <2>3. x.consumers \ {c} \in SUBSET Clients
    BY <2>1 DEF QueueObject
  <2> HIDE DEF x
  <2>4. n \in QueueObject /\ n.kind = x.kind /\ n.born = x.born /\ n.held = x.held /\ n.consumed = x.consumed
        /\ n.owner = x.owner /\ n.consumers = x.consumers \ {c}
    BY <2>1, <2>3 DEF QueueObject
  <2> HIDE DEF n, qu
  <2> QED
    BY <2>2, <2>4 DEF x
<1>3. \A q \in QNames \ Q : qu[q] = r.qu[q]
  OBVIOUS
<1>4. qu \in [QNames -> QueueObject \union {None}]
  <2>1. \A q \in QNames : qu[q] \in QueueObject \union {None}
    BY <1>2, <1>3 DEF RegistryType
  <2>2. DOMAIN qu = QNames /\ qu = [q \in QNames |-> qu[q]]
    OBVIOUS
  <2> HIDE DEF qu
  <2> QED
    BY <2>1, <2>2
<1> HIDE DEF qu
<1>5. cut \in RegistryType /\ cut.ex = r.ex /\ cut.xf = r.xf /\ cut.qf = r.qf /\ cut.qu = qu
  BY <1>4 DEF RegistryType
<1>6. \A q \in Q : qu[q] # None
  BY <1>2, NoneAssumption
<1>7. D \in SUBSET Q
  OBVIOUS
<1>8. D = {q \in Q : c \in r.qu[q].consumers /\ cut.qu[q].kind.autoDelete /\ cut.qu[q].consumers = {}}
  BY <1>5
<1> HIDE DEF cut, D
<1>9. \A q \in Q : /\ cut.qu[q] # None /\ cut.qu[q].kind = r.qu[q].kind /\ cut.qu[q].born = r.qu[q].born
                   /\ cut.qu[q].held = r.qu[q].held /\ cut.qu[q].consumed = r.qu[q].consumed
                   /\ cut.qu[q].owner = r.qu[q].owner
                   /\ cut.qu[q].consumers = r.qu[q].consumers \ {c}
  BY <1>2, <1>5, <1>6
<1>10. \A q \in QNames \ Q : cut.qu[q] = r.qu[q]
  BY <1>3, <1>5
<1>11. Cancels(r, c, Q, cut, D)
  BY <1>1, <1>5, <1>8, <1>9, <1>10 DEF Cancels
<1> QED
  BY <1>5, <1>7, <1>11

LEMMA DropFacts ==
    ASSUME NEW r \in RegistryType, NEW e \in ExNames, r.ex[e] # None
    PROVE  LET n == DropExchange(r, e)
           IN /\ n \in RegistryType
              /\ n.ex = [r.ex EXCEPT ![e] = None] /\ n.qu = r.qu /\ n.qf = r.qf
              /\ n.xf = IF r.ex[e].kind.durable THEN [r.xf EXCEPT ![e] = None] ELSE r.xf
<1> DEFINE X == [r.ex EXCEPT ![e] = None]
           F == IF r.ex[e].kind.durable THEN [r.xf EXCEPT ![e] = None] ELSE r.xf
           n == [r EXCEPT !.ex = X, !.xf = F]
<1>1. DropExchange(r, e) = n
  BY DEF DropExchange, RegistryType
<1>2. X \in [AllNames -> ExchangeObject \union {None}] /\ F \in [ExNames -> ExchangeFile \union {None}]
  BY DEF RegistryType
<1>3. X = [r.ex EXCEPT ![e] = None] /\ F = IF r.ex[e].kind.durable THEN [r.xf EXCEPT ![e] = None] ELSE r.xf
  OBVIOUS
<1> HIDE DEF X, F
<1>4. n \in RegistryType /\ n.ex = X /\ n.xf = F /\ n.qu = r.qu /\ n.qf = r.qf
  BY <1>2 DEF RegistryType
<1> QED
  BY <1>1, <1>3, <1>4

(* A new binding: in the exchange, and in its file if both ends are        *)
(* durable.                                                                *)
Adds(r, e, q, key, n) ==
    LET new == [key |-> key, queue |-> q, born |-> r.qu[q].born]
        entry == Entry(r.ex[e], new)
    IN /\ ~ \E b \in r.ex[e].bindings : b.key = key /\ b.queue = q
       /\ n \in RegistryType /\ n.qu = r.qu /\ n.qf = r.qf
       /\ \A g \in AllNames \ {e} : n.ex[g] = r.ex[g]
       /\ n.ex[e] # None /\ n.ex[e].kind = r.ex[e].kind /\ n.ex[e].bound = TRUE
       /\ n.ex[e].bindings = r.ex[e].bindings \union {new}
       /\ \A g \in ExNames \ {e} : n.xf[g] = r.xf[g]
       /\ ~(r.ex[e].kind.durable /\ r.qu[q].kind.durable /\ r.xf[e] # None) => n.xf = r.xf
       /\ r.ex[e].kind.durable /\ r.qu[q].kind.durable /\ r.xf[e] # None =>
            /\ n.xf[e] # None /\ n.xf[e].kind = r.xf[e].kind
            /\ n.xf[e].bindings = r.xf[e].bindings \union {entry}

LEMMA BoundFacts ==
    ASSUME NEW r \in RegistryType, NEW e \in AllNames, NEW q \in QNames, NEW key \in Keys,
           r.ex[e] # None, r.qu[q] # None,
           r.ex[e].kind.durable => e \in ExNames
    PROVE  LET n == Bound(r, e, q, key)
           IN n = r \/ Adds(r, e, q, key, n)
<1> DEFINE new == [key |-> key, queue |-> q, born |-> r.qu[q].born]
           entry == Entry(r.ex[e], new)
           known == \E b \in r.ex[e].bindings : b.key = key /\ b.queue = q
           saved == r.ex[e].kind.durable /\ r.qu[q].kind.durable /\ r.xf[e] # None
           x == r.ex[e]
           nx == [x EXCEPT !.bindings = x.bindings \union {new}, !.bound = TRUE]
           X == [r.ex EXCEPT ![e] = nx]
           nf == [r.xf[e] EXCEPT !.bindings = r.xf[e].bindings \union {entry}]
           F == IF saved THEN [r.xf EXCEPT ![e] = nf] ELSE r.xf
           n == [r EXCEPT !.ex = X, !.xf = F]
<1>1. CASE known
  BY <1>1 DEF Bound
<1>2. CASE ~known
  <2>1. Bound(r, e, q, key) = n
    BY <1>2 DEF Bound, RegistryType
  <2>2. x \in ExchangeObject /\ r.qu[q] \in QueueObject
    BY DEF RegistryType
  <2>3. new \in Binding /\ entry \in FileBinding
    BY <2>2 DEF Binding, FileBinding, QueueObject, Entry, Keys
  <2>4. x.bindings \union {new} \in SUBSET Binding
    BY <2>2, <2>3 DEF ExchangeObject
  <2> HIDE DEF new, entry
  <2>5. nx \in ExchangeObject /\ nx.kind = x.kind /\ nx.bound = TRUE /\ nx.bindings = x.bindings \union {new}
    BY <2>2, <2>4 DEF ExchangeObject
  <2>6. nx # None
    BY <2>5, NoneAssumption
  <2> HIDE DEF nx
  <2>7. X \in [AllNames -> ExchangeObject \union {None}] /\ X[e] = nx /\ \A g \in AllNames \ {e} : X[g] = r.ex[g]
    BY <2>5 DEF RegistryType
  <2> HIDE DEF X
  <2>8. CASE ~saved
    <3>1. F = r.xf
      BY <2>8
    <3> HIDE DEF F, saved
    <3>2. n \in RegistryType /\ n.ex = X /\ n.xf = r.xf /\ n.qu = r.qu /\ n.qf = r.qf
      BY <2>7, <3>1 DEF RegistryType
    <3> HIDE DEF n
    <3>3. ~(r.ex[e].kind.durable /\ r.qu[q].kind.durable /\ r.xf[e] # None)
      BY <2>8 DEF saved
    <3> QED
      BY <1>2, <2>1, <2>5, <2>6, <2>7, <3>2, <3>3 DEF new, entry, Adds
  <2>9. CASE saved
    <3>1. e \in ExNames /\ r.xf[e] # None /\ r.xf[e] \in ExchangeFile
      BY <2>9 DEF RegistryType
    <3>2. r.xf[e].bindings \union {entry} \in SUBSET FileBinding
      BY <2>3, <3>1 DEF ExchangeFile
    <3>3. nf \in ExchangeFile /\ nf.kind = r.xf[e].kind /\ nf.bindings = r.xf[e].bindings \union {entry}
      BY <3>1, <3>2 DEF ExchangeFile
    <3>4. nf # None
      BY <3>3, NoneAssumption
    <3> HIDE DEF nf
    <3>5. F = [r.xf EXCEPT ![e] = nf]
      BY <2>9
    <3> HIDE DEF F
    <3>6. F \in [ExNames -> ExchangeFile \union {None}] /\ F[e] = nf /\ \A g \in ExNames \ {e} : F[g] = r.xf[g]
      BY <3>1, <3>3, <3>5 DEF RegistryType
    <3>7. n \in RegistryType /\ n.ex = X /\ n.xf = F /\ n.qu = r.qu /\ n.qf = r.qf
      BY <2>7, <3>6 DEF RegistryType
    <3> HIDE DEF n
    <3> QED
      BY <1>2, <2>1, <2>5, <2>6, <2>7, <2>9, <3>3, <3>4, <3>6, <3>7 DEF new, entry, Adds
  <2> QED
    BY <2>8, <2>9
<1> QED
  BY <1>1, <1>2

-----------------------------------------------------------------------------
(* What the operators do to the registry's invariant.                      *)

(* The queues of qu2 are those of qu, as far as bindings can tell. *)
SameQueue(x, y) == (x = None <=> y = None) /\ (x # None => x.born = y.born /\ x.kind = y.kind)

(* No binding in B shares its entry in the file with one that is not.      *)
Distinct(r, e, B) ==
    \A d \in Bindings(r, e) \intersect B, d2 \in Bindings(r, e) \ B : Entry(r.ex[e], d) # Entry(r.ex[e], d2)

(* The bindings in B are removed from an exchange and from its file. *)
LEMMA CutExchange ==
    ASSUME NEW r \in RegistryType, NEW e \in AllNames, NEW B, NEW qu, NEW S,
           LiveEx(r.ex[e], r.qu), AutoEx(r.ex[e]),
           \A b \in Bindings(r, e) \ B : SameQueue(r.qu[b.queue], qu[b.queue])
    PROVE  /\ LiveEx(Kept(r, e, B), qu) /\ AutoEx(Kept(r, e, B))
           /\ e \in ExNames /\ Distinct(r, e, B) /\ FileEx(r.ex[e], r.xf[e], r.qu, S) => FileEx(Kept(r, e, B), KeptFile(r, e, B), qu, S)
<1> DEFINE x == r.ex[e]
           y == Kept(r, e, B)
<1>1. CASE x = None
  <2>1. y = None
    BY <1>1, KeptFacts
  <2>2. e \in ExNames /\ FileEx(x, r.xf[e], r.qu, S) => KeptFile(r, e, B) = None
    BY <1>1, KeptFileFacts DEF FileEx
  <2> HIDE DEF y
  <2> QED
    BY <2>1, <2>2 DEF LiveEx, AutoEx, FileEx, y
<1>2. CASE LosesAll(r, e, B)
  <2>1. y = None
    BY <1>2, KeptFacts
  <2>2. e \in ExNames /\ FileEx(x, r.xf[e], r.qu, S) => KeptFile(r, e, B) = None
    BY <1>2, KeptFileFacts DEF FileEx
  <2> HIDE DEF y
  <2> QED
    BY <2>1, <2>2 DEF LiveEx, AutoEx, FileEx, y
<1>3. CASE x # None /\ ~LosesAll(r, e, B)
  <2>1. y # None /\ y.kind = x.kind /\ y.bound = x.bound /\ y.bindings = x.bindings \ B
    BY <1>3, KeptFacts
  <2>2. Bindings(r, e) = x.bindings /\ x \in ExchangeObject
    BY <1>3 DEF Bindings, RegistryType
  <2>3. LiveEx(y, qu)
    <3> HIDE DEF y, x
    <3> SUFFICES ASSUME NEW b \in y.bindings PROVE qu[b.queue] # None /\ qu[b.queue].born = b.born
      BY DEF LiveEx
    <3>1. b \in x.bindings /\ SameQueue(r.qu[b.queue], qu[b.queue])
      BY <2>1, <2>2
    <3>2. r.qu[b.queue] # None /\ r.qu[b.queue].born = b.born
      BY <1>3, <3>1 DEF LiveEx, x
    <3> QED
      BY <3>1, <3>2 DEF SameQueue
  <2>4. AutoEx(y)
    BY <1>3, <2>1 DEF AutoEx, LosesAll, Exists
  <2>5. ASSUME e \in ExNames, Distinct(r, e, B), FileEx(x, r.xf[e], r.qu, S)
        PROVE  FileEx(y, KeptFile(r, e, B), qu, S)
    <3> DEFINE f == r.xf[e]
               g == KeptFile(r, e, B)
    <3>1. CASE ~x.kind.durable
      <4>1. f = None
        BY <1>3, <2>5, <3>1 DEF FileEx
      <4>2. g = None
        BY <2>5, <4>1, KeptFileFacts
      <4> QED
        BY <2>1, <3>1, <4>2 DEF FileEx
    <3>2. CASE x.kind.durable
      <4>1. /\ f # None /\ SameKind(f.kind, x.kind)
            /\ \A b \in FileBinding : b.queue \notin S => (b \in f.bindings <=> Listed(x, r.qu, b))
        BY <1>3, <2>5, <3>2 DEF FileEx
      <4>2. g # None /\ g.kind = f.kind /\ g.bindings = f.bindings \ Entries(r, e, B)
        BY <1>3, <2>5, <3>2, <4>1, KeptFileFacts
      <4>3. ASSUME NEW b \in FileBinding, b.queue \notin S
            PROVE  b \in g.bindings <=> Listed(y, qu, b)
        <5>1. b \in Entries(r, e, B) <=>
                \E d \in x.bindings \intersect B : Entry(x, d) = b /\ r.qu[d.queue].kind.durable
          BY <2>2 DEF Entries
        <5>2. \A d \in x.bindings \intersect B, d2 \in x.bindings \ B : Entry(x, d) # Entry(x, d2)
          BY <2>2, <2>5 DEF Distinct
        <5>3. \A d \in x.bindings \ B : r.qu[d.queue].kind = qu[d.queue].kind
          BY <1>3, <2>2 DEF SameQueue, LiveEx
        <5>4. Listed(y, qu, b) <=> \E d \in x.bindings \ B : Entry(x, d) = b /\ r.qu[d.queue].kind.durable
          <6>1. \A d : Entry(y, d) = Entry(x, d)
            BY <2>1 DEF Entry
          <6> HIDE DEF x, y
          <6> QED
            BY <2>1, <5>3, <6>1 DEF Listed
        <5>5. b \in f.bindings <=> \E d \in x.bindings : Entry(x, d) = b /\ r.qu[d.queue].kind.durable
          BY <4>1, <4>3 DEF Listed
        <5> HIDE DEF x, y, f, g
        <5> QED
          BY <4>2, <5>1, <5>2, <5>4, <5>5
      <4> HIDE DEF x, y, f, g
      <4> QED
        BY <2>1, <3>2, <4>1, <4>2, <4>3 DEF FileEx, g
    <3> QED
      BY <3>1, <3>2
  <2> QED
    BY <2>3, <2>4, <2>5
<1> QED
  BY <1>1, <1>2, <1>3

(* An exchange whose queues are the same to its bindings. *)
LEMMA SameExchange ==
    ASSUME NEW x \in ExchangeObject \union {None}, NEW f, NEW qu, NEW qu2, NEW S,
           \A q \in QNames : qu[q] # None => SameQueue(qu[q], qu2[q])
    PROVE  /\ LiveEx(x, qu) => LiveEx(x, qu2)
           /\ LiveEx(x, qu) /\ FileEx(x, f, qu, S) => FileEx(x, f, qu2, S)
<1>1. CASE x = None
  BY <1>1 DEF LiveEx, FileEx
<1>2. CASE x # None
  <2>1. \A b \in x.bindings : b.queue \in QNames
    BY <1>2 DEF ExchangeObject, Binding
  <2>2. LiveEx(x, qu) => LiveEx(x, qu2)
    BY <1>2, <2>1 DEF LiveEx, SameQueue
  <2>3. ASSUME LiveEx(x, qu), NEW b \in FileBinding
        PROVE  Listed(x, qu, b) <=> Listed(x, qu2, b)
    <3>1. \A d \in x.bindings : qu[d.queue].kind = qu2[d.queue].kind
      BY <1>2, <2>1, <2>3 DEF LiveEx, SameQueue
    <3> QED
      BY <3>1 DEF Listed
  <2> QED
    BY <2>2, <2>3 DEF FileEx
<1> QED
  BY <1>1, <1>2

LEMMA DeleteKeeps ==
    ASSUME NEW r \in RegistryType, NEW S, NEW D \in SUBSET QNames,
           r.ex[Default] # None, ~r.ex[Default].kind.durable, ~r.ex[Default].kind.autoDelete,
           \A e \in AllNames : LiveEx(r.ex[e], r.qu) /\ AutoEx(r.ex[e]),
           \A e \in ExNames \ S : FileEx(r.ex[e], r.xf[e], r.qu, S), FileKinds(r),
           \A q \in QNames \ D : AutoQu(r.qu[q]),
           \A q \in QNames : FileQu(r.qu[q], r.qf[q], q \in S)
    PROVE  RegistryInv(DeleteQueues(r, D), S)
<1> DEFINE n == DeleteQueues(r, D)
           B == BindingsOf(r, D)
<1>1. /\ n \in RegistryType
      /\ \A e \in AllNames : n.ex[e] = Kept(r, e, B)
      /\ \A e \in ExNames : n.xf[e] = KeptFile(r, e, B)
      /\ \A q \in QNames : n.qu[q] = IF q \in D THEN None ELSE r.qu[q]
      /\ \A q \in QNames : n.qf[q] = IF q \in D /\ r.qu[q].kind.durable THEN None ELSE r.qf[q]
  BY DeleteFacts
<1> HIDE DEF n
<1>2. ASSUME NEW e \in AllNames
      PROVE  \A b \in Bindings(r, e) \ B : SameQueue(r.qu[b.queue], n.qu[b.queue])
  <2> TAKE b \in Bindings(r, e) \ B
  <2>1. b.queue \notin D
    <3>1. DOMAIN r.ex = AllNames
      BY DEF RegistryType
    <3> QED
      BY <3>1 DEF BindingsOf
  <2>2. b.queue \in QNames
    BY DEF Bindings, RegistryType, ExchangeObject, Binding
  <2> QED
    BY <1>1, <2>1, <2>2 DEF SameQueue
<1>3. \A e \in AllNames : LiveEx(n.ex[e], n.qu) /\ AutoEx(n.ex[e])
  <2> TAKE e \in AllNames
  <2> QED
    BY <1>1, <1>2, CutExchange
<1>4. \A e \in ExNames \ S : FileEx(n.ex[e], n.xf[e], n.qu, S)
  <2> TAKE e \in ExNames \ S
  <2>1. e \in AllNames
    BY DEF AllNames
  <2>2. Distinct(r, e, B)
    <3>1. DOMAIN r.ex = AllNames
      BY DEF RegistryType
    <3>2. \A d \in Bindings(r, e) \intersect B, d2 \in Bindings(r, e) \ B : d.queue # d2.queue
      BY <2>1, <3>1 DEF BindingsOf
    <3> QED
      BY <3>2 DEF Distinct, Entry
  <2> QED
    BY <1>1, <1>2, <2>1, <2>2, CutExchange
<1>5. n.ex[Default] # None /\ ~n.ex[Default].kind.durable /\ ~n.ex[Default].kind.autoDelete
  <2>1. Default \in AllNames
    BY DEF AllNames
  <2> QED
    BY <1>1, <2>1, KeptFacts
<1>6. \A q \in QNames : AutoQu(n.qu[q])
  <2> TAKE q \in QNames
  <2>1. CASE q \in D
    BY <1>1, <2>1 DEF AutoQu
  <2>2. CASE q \notin D
    BY <1>1, <2>2
  <2> QED
    BY <2>1, <2>2
<1>7. \A q \in QNames : FileQu(n.qu[q], n.qf[q], q \in S)
  <2> TAKE q \in QNames
  <2>1. CASE q \in D
    BY <1>1, <2>1 DEF FileQu
  <2>2. CASE q \notin D
    BY <1>1, <2>2
  <2> QED
    BY <2>1, <2>2
<1>8. FileKinds(n)
  BY <1>1, KeptFileFacts DEF FileKinds
<1> QED
  BY <1>3, <1>4, <1>5, <1>6, <1>7, <1>8 DEF RegistryInv, n

LEMMA CancelKeeps ==
    ASSUME NEW r \in RegistryType, NEW S, NEW c, NEW Q \in SUBSET QNames, \A q \in Q : r.qu[q] # None,
           RegistryInv(r, S)
    PROVE  /\ CancelConsumers(r, c, Q) \in RegistryType
           /\ RegistryInv(CancelConsumers(r, c, Q), S)
<1>0. PICK cut \in RegistryType, D \in SUBSET Q : Cancels(r, c, Q, cut, D)
  BY CancelFacts, Zenon
<1>1. /\ CancelConsumers(r, c, Q) = DeleteQueues(cut, D)
      /\ cut.ex = r.ex /\ cut.xf = r.xf /\ cut.qf = r.qf
      /\ \A q \in QNames \ Q : cut.qu[q] = r.qu[q]
      /\ \A q \in Q : /\ cut.qu[q] # None /\ cut.qu[q].kind = r.qu[q].kind /\ cut.qu[q].born = r.qu[q].born
              /\ cut.qu[q].held = r.qu[q].held /\ cut.qu[q].consumed = r.qu[q].consumed
              /\ cut.qu[q].owner = r.qu[q].owner
              /\ cut.qu[q].consumers = r.qu[q].consumers \ {c}
      /\ D = {q \in Q : c \in r.qu[q].consumers /\ cut.qu[q].kind.autoDelete /\ cut.qu[q].consumers = {}}
  BY <1>0 DEF Cancels
<1>2. \A q \in QNames : SameQueue(r.qu[q], cut.qu[q])
  BY <1>1 DEF SameQueue
<1>3. \A e \in AllNames : LiveEx(cut.ex[e], cut.qu) /\ AutoEx(cut.ex[e])
  <2> TAKE e \in AllNames
  <2>1. r.ex[e] \in ExchangeObject \union {None} /\ LiveEx(r.ex[e], r.qu) /\ AutoEx(r.ex[e])
    BY DEF RegistryType, RegistryInv
  <2>2. LiveEx(r.ex[e], cut.qu)
    BY <1>2, <2>1, SameExchange
  <2> QED
    BY <1>1, <2>1, <2>2
<1>4. \A e \in ExNames \ S : FileEx(cut.ex[e], cut.xf[e], cut.qu, S)
  <2> TAKE e \in ExNames \ S
  <2>1. e \in AllNames
    BY DEF AllNames
  <2>2. r.ex[e] \in ExchangeObject \union {None} /\ LiveEx(r.ex[e], r.qu) /\ FileEx(r.ex[e], r.xf[e], r.qu, S)
    BY <2>1 DEF RegistryType, RegistryInv
  <2>3. FileEx(r.ex[e], r.xf[e], cut.qu, S)
    BY <1>2, <2>2, SameExchange
  <2> QED
    BY <1>1, <2>3
<1>5. \A q \in QNames \ D : AutoQu(cut.qu[q])
  <2> TAKE q \in QNames \ D
  <2>1. AutoQu(r.qu[q])
    BY DEF RegistryInv
  <2>2. CASE q \notin Q
    BY <1>1, <2>1, <2>2
  <2>3. CASE q \in Q
    <3>1. r.qu[q] # None /\ cut.qu[q].consumers = r.qu[q].consumers \ {c}
          /\ cut.qu[q].kind = r.qu[q].kind /\ cut.qu[q].consumed = r.qu[q].consumed
      BY <1>1, <2>3
    <3>2. cut.qu[q].kind.autoDelete /\ c \in r.qu[q].consumers => cut.qu[q].consumers # {}
      BY <1>1, <2>3
    <3> QED
      BY <2>1, <3>1, <3>2 DEF AutoQu
  <2> QED
    BY <2>2, <2>3
<1>6. \A q \in QNames : FileQu(cut.qu[q], cut.qf[q], q \in S)
  <2> TAKE q \in QNames
  <2>1. FileQu(r.qu[q], r.qf[q], q \in S)
    BY DEF RegistryInv
  <2>2. SameQueue(r.qu[q], cut.qu[q]) /\ cut.qf[q] = r.qf[q]
    BY <1>1, <1>2
  <2> QED
    BY <2>1, <2>2 DEF FileQu, SameQueue
<1>7. cut.ex[Default] # None /\ ~cut.ex[Default].kind.durable /\ ~cut.ex[Default].kind.autoDelete
  BY <1>1 DEF RegistryInv
<1>8. D \in SUBSET QNames /\ FileKinds(cut)
  BY <1>1 DEF RegistryInv, FileKinds
<1>9. RegistryInv(DeleteQueues(cut, D), S)
  BY <1>3, <1>4, <1>5, <1>6, <1>7, <1>8, DeleteKeeps
<1> QED
  BY <1>1, <1>8, <1>9, DeleteFacts

LEMMA DropKeeps ==
    ASSUME NEW r \in RegistryType, NEW S, NEW e \in ExNames, r.ex[e] # None, RegistryInv(r, S)
    PROVE  RegistryInv(DropExchange(r, e), S)
<1> DEFINE n == DropExchange(r, e)
<1>1. /\ n \in RegistryType
      /\ n.ex = [r.ex EXCEPT ![e] = None] /\ n.qu = r.qu /\ n.qf = r.qf
      /\ n.xf = IF r.ex[e].kind.durable THEN [r.xf EXCEPT ![e] = None] ELSE r.xf
  BY DropFacts
<1> HIDE DEF n
<1>2. e \in AllNames /\ e # Default
  BY VHostAssumption DEF AllNames
<1>3. n.ex[e] = None /\ \A g \in AllNames \ {e} : n.ex[g] = r.ex[g]
  BY <1>1, <1>2 DEF RegistryType
<1>4. e \notin S => FileEx(r.ex[e], r.xf[e], r.qu, S)
  BY DEF RegistryInv
<1>5. (e \notin S => n.xf[e] = None) /\ \A g \in ExNames : n.xf[g] # None => n.xf[g] = r.xf[g]
  BY <1>1, <1>4 DEF RegistryType, FileEx
<1>5a. \A g \in ExNames \ {e} : n.xf[g] = r.xf[g]
  BY <1>1, <1>4 DEF RegistryType, FileEx
<1>6. \A g \in AllNames : LiveEx(n.ex[g], n.qu) /\ AutoEx(n.ex[g])
  BY <1>1, <1>3 DEF RegistryInv, LiveEx, AutoEx
<1>7. \A g \in ExNames \ S : FileEx(n.ex[g], n.xf[g], n.qu, S)
  <2> TAKE g \in ExNames \ S
  <2>1. CASE g = e
    BY <1>3, <1>5, <2>1 DEF FileEx
  <2>2. CASE g # e
    BY <1>1, <1>3, <1>5a, <2>2 DEF RegistryInv, AllNames
  <2> QED
    BY <2>1, <2>2
<1>8. n.ex[Default] # None /\ ~n.ex[Default].kind.durable /\ ~n.ex[Default].kind.autoDelete
  <2>1. n.ex[Default] = r.ex[Default]
    BY <1>2, <1>3 DEF AllNames
  <2> QED
    BY <2>1 DEF RegistryInv
<1>9. \A q \in QNames : AutoQu(n.qu[q]) /\ FileQu(n.qu[q], n.qf[q], q \in S)
  BY <1>1 DEF RegistryInv
<1>10. FileKinds(n)
  BY <1>1, <1>5 DEF RegistryInv, FileKinds
<1> QED
  BY <1>6, <1>7, <1>8, <1>9, <1>10 DEF RegistryInv, n

LEMMA BoundKeeps ==
    ASSUME NEW r \in RegistryType, NEW S, NEW e \in AllNames, NEW q \in QNames, NEW key \in Keys,
           r.ex[e] # None, r.qu[q] # None, RegistryInv(r, S)
    PROVE  /\ Bound(r, e, q, key) \in RegistryType /\ RegistryInv(Bound(r, e, q, key), S)
           /\ Bound(r, e, q, key).qu = r.qu /\ Bound(r, e, q, key).qf = r.qf
<1> DEFINE n == Bound(r, e, q, key)
           new == [key |-> key, queue |-> q, born |-> r.qu[q].born]
           entry == Entry(r.ex[e], new)
           x == r.ex[e]
<1>1. x.kind.durable => e \in ExNames
  BY DEF RegistryInv, AllNames
<1>2. CASE n = r
  BY <1>2
<1>3. CASE n # r
  <2>0. Adds(r, e, q, key, n)
    BY <1>1, <1>3, BoundFacts
  <2>1. /\ ~ \E b \in x.bindings : b.key = key /\ b.queue = q
        /\ n \in RegistryType /\ n.qu = r.qu /\ n.qf = r.qf
        /\ \A g \in AllNames \ {e} : n.ex[g] = r.ex[g]
        /\ n.ex[e] # None /\ n.ex[e].kind = x.kind /\ n.ex[e].bound = TRUE
        /\ n.ex[e].bindings = x.bindings \union {new}
        /\ \A g \in ExNames \ {e} : n.xf[g] = r.xf[g]
        /\ ~(x.kind.durable /\ r.qu[q].kind.durable /\ r.xf[e] # None) => n.xf = r.xf
        /\ x.kind.durable /\ r.qu[q].kind.durable /\ r.xf[e] # None =>
             /\ n.xf[e] # None /\ n.xf[e].kind = r.xf[e].kind
             /\ n.xf[e].bindings = r.xf[e].bindings \union {entry}
    BY <2>0 DEF Adds
  <2>2. new.key = key /\ new.queue = q /\ new.born = r.qu[q].born
    OBVIOUS
  <2>3. entry = Entry(x, new)
    OBVIOUS
  <2> HIDE DEF n, new, entry
  <2>4. LiveEx(x, r.qu) /\ AutoEx(x)
    BY DEF RegistryInv
  <2>5. LiveEx(n.ex[e], n.qu) /\ AutoEx(n.ex[e])
    BY <2>1, <2>2, <2>4 DEF LiveEx, AutoEx
  <2>6. \A g \in AllNames : LiveEx(n.ex[g], n.qu) /\ AutoEx(n.ex[g])
    BY <2>1, <2>5 DEF RegistryInv
  <2>7. ASSUME e \in ExNames \ S
        PROVE  FileEx(n.ex[e], n.xf[e], n.qu, S)
    <3>1. FileEx(x, r.xf[e], r.qu, S)
      BY <2>7 DEF RegistryInv
    <3>2. CASE ~x.kind.durable
      BY <2>1, <3>1, <3>2 DEF FileEx
    <3>3. CASE x.kind.durable
      <4>1. /\ r.xf[e] # None /\ SameKind(r.xf[e].kind, x.kind)
            /\ \A b \in FileBinding : b.queue \notin S => (b \in r.xf[e].bindings <=> Listed(x, r.qu, b))
        BY <3>1, <3>3 DEF FileEx
      <4>2. ASSUME NEW b \in FileBinding
            PROVE  Listed(n.ex[e], n.qu, b) <=>
                     Listed(x, r.qu, b) \/ (b = entry /\ r.qu[q].kind.durable)
        <5>1. \A d : Entry(n.ex[e], d) = Entry(x, d)
          BY <2>1 DEF Entry
        <5> QED
          BY <2>1, <2>2, <2>3, <5>1 DEF Listed
      <4>3. CASE r.qu[q].kind.durable
        BY <2>1, <3>3, <4>1, <4>2, <4>3 DEF FileEx
      <4>4. CASE ~r.qu[q].kind.durable
        BY <2>1, <3>3, <4>1, <4>2, <4>4 DEF FileEx
      <4> QED
        BY <4>3, <4>4
    <3> QED
      BY <3>2, <3>3
  <2>8. \A g \in ExNames \ S : FileEx(n.ex[g], n.xf[g], n.qu, S)
    <3> TAKE g \in ExNames \ S
    <3>1. CASE g = e
      BY <2>7, <3>1
    <3>2. CASE g # e
      BY <2>1, <3>2 DEF RegistryInv, AllNames
    <3> QED
      BY <3>1, <3>2
  <2>9. n.ex[Default] # None /\ n.ex[Default].kind = r.ex[Default].kind
    BY <2>1 DEF RegistryInv, AllNames
  <2>10. FileKinds(n)
    <3>1. ASSUME NEW g \in ExNames PROVE n.xf[g] # None => n.xf[g].kind.durable
      <4>1. r.xf[g] # None => r.xf[g].kind.durable
        BY DEF RegistryInv, FileKinds
      <4> QED
        BY <2>1, <4>1
    <3> QED
      BY <2>1, <3>1 DEF RegistryInv, FileKinds
  <2> QED
    BY <2>1, <2>6, <2>8, <2>9, <2>10 DEF RegistryInv, n
<1> QED
  BY <1>2, <1>3

LEMMA UnbindKeeps ==
    ASSUME NEW r \in RegistryType, NEW n \in RegistryType, NEW S, NEW e \in AllNames, NEW B,
           RegistryInv(r, S), e \in S \/ Distinct(r, e, B), n.qu = r.qu, n.qf = r.qf,
           n.ex[e] = Kept(r, e, B), \A g \in AllNames \ {e} : n.ex[g] = r.ex[g],
           e \in ExNames => n.xf[e] = KeptFile(r, e, B), \A g \in ExNames \ {e} : n.xf[g] = r.xf[g]
    PROVE  RegistryInv(n, S)
<1>1. LiveEx(r.ex[e], r.qu) /\ AutoEx(r.ex[e])
  BY DEF RegistryInv
<1>2. \A b \in Bindings(r, e) \ B : SameQueue(r.qu[b.queue], n.qu[b.queue])
  BY DEF SameQueue
<1>3. /\ LiveEx(Kept(r, e, B), n.qu) /\ AutoEx(Kept(r, e, B))
      /\ e \in ExNames /\ Distinct(r, e, B) /\ FileEx(r.ex[e], r.xf[e], r.qu, S)
            => FileEx(Kept(r, e, B), KeptFile(r, e, B), n.qu, S)
  BY <1>1, <1>2, CutExchange
<1>4. \A g \in AllNames : LiveEx(n.ex[g], n.qu) /\ AutoEx(n.ex[g])
  BY <1>3 DEF RegistryInv
<1>5. \A g \in ExNames \ S : FileEx(n.ex[g], n.xf[g], n.qu, S)
  <2> TAKE g \in ExNames \ S
  <2>1. CASE g = e
    BY <1>3, <2>1 DEF RegistryInv
  <2>2. CASE g # e
    BY <2>2 DEF RegistryInv, AllNames
  <2> QED
    BY <2>1, <2>2
<1>6. n.ex[Default] # None /\ ~n.ex[Default].kind.durable /\ ~n.ex[Default].kind.autoDelete
  <2>1. CASE e = Default
    BY <2>1, KeptFacts DEF RegistryInv
  <2>2. CASE e # Default
    BY <2>2 DEF RegistryInv, AllNames
  <2> QED
    BY <2>1, <2>2
<1>7. FileKinds(n)
  <2>1. ASSUME NEW g \in ExNames PROVE n.xf[g] # None => n.xf[g].kind.durable
    <3>1. r.xf[g] # None => r.xf[g].kind.durable
      BY DEF RegistryInv, FileKinds
    <3>2. CASE g # e
      BY <3>1, <3>2
    <3>3. CASE g = e
      BY <3>1, <3>3, KeptFileFacts
    <3> QED
      BY <3>2, <3>3
  <2> QED
    BY <2>1 DEF RegistryInv, FileKinds
<1> QED
  BY <1>4, <1>5, <1>6, <1>7 DEF RegistryInv

(* More names may be left out. *)
LEMMA Weaker ==
    ASSUME NEW r, NEW S, NEW T, S \subseteq T, RegistryInv(r, S)
    PROVE  RegistryInv(r, T)
<1>1. \A e \in ExNames \ T : FileEx(r.ex[e], r.xf[e], r.qu, T)
  BY DEF RegistryInv, FileEx
<1>2. \A q \in QNames : AutoQu(r.qu[q]) /\ FileQu(r.qu[q], r.qf[q], q \in T)
  BY DEF RegistryInv, FileQu
<1> QED
  BY <1>1, <1>2 DEF RegistryInv

-----------------------------------------------------------------------------
(* Steps, by what they do.  First the requests.                            *)
LEMMA StartedTypes ==
    ASSUME TypeOK, HandlerInv, NEW c \in Conns, MayStart(c), Started(c)
    PROVE  /\ up /\ handler[c] = Idle
           /\ conn' \in [Conns -> {"open", "closing", "closed"}] /\ requests' \in 0..MaxRequests
<1>1. handler[c] = Idle
  BY DEF MayStart, HandlerInv, HandlerOf
<1>2. requests' \in 0..MaxRequests
  BY VHostAssumption DEF TypeOK, MayStart, Started
<1>3. conn' \in [Conns -> {"open", "closing", "closed"}]
  BY DEF TypeOK, MayStart, Started
<1> QED
  BY <1>1, <1>2, <1>3 DEF MayStart

LEMMA IdleFacts ==
    /\ Idle \in Request /\ \A n \in Nat : HandlerOf(Idle, n)
    /\ Idle.pc = "idle" /\ Idle.m = None /\ Idle.q = None /\ Idle.e = None /\ Idle.to = {} /\ Idle.flags = {}
    /\ Idle.back = {}
  BY DEF Idle, Request, HandlerOf

LEMMA GotoStep ==
    ASSUME TypeOK, HandlerInv, up, up', NEW c \in Conns, NEW h \in Request, Goto(c, h),
           born' \in Nat, born <= born', HandlerOf(h, born'),
           exposed \subseteq exposed', \A t \in h.back : <<t[1], h.m>> \in exposed'
    PROVE  /\ handler' \in [Conns -> Request] /\ HandlerInv'
           /\ handler'[c] = h /\ \A d \in Conns \ {c} : handler'[d] = handler[d]
<1>1. /\ handler' \in [Conns -> Request]
      /\ handler'[c] = h /\ \A d \in Conns \ {c} : handler'[d] = handler[d]
  BY DEF TypeOK, Goto
<1>2. \A d \in Conns : HandlerOf(handler'[d], born')
  <2> TAKE d \in Conns
  <2>1. CASE d = c
    BY <1>1, <2>1
  <2>2. CASE d # c
    <3>1. handler'[d] = handler[d] /\ HandlerOf(handler[d], born) /\ handler[d] \in Request
      BY <1>1, <2>2 DEF HandlerInv, TypeOK
    <3>2. \A t \in handler[d].to \union handler[d].back : t[2] \in Nat
      BY <3>1, VHostAssumption DEF Request
    <3> QED
      BY <3>1, <3>2 DEF HandlerOf, TypeOK
  <2> QED
    BY <2>1, <2>2
<1>3. \A d \in Conns : Backed(handler[d])'
  BY <1>1 DEF Backed, HandlerInv
<1> QED
  BY <1>1, <1>2, <1>3 DEF HandlerInv

LEMMA SameHandlers ==
    ASSUME TypeOK, HandlerInv, up, up', UNCHANGED handler, born' \in Nat, born <= born', exposed \subseteq exposed'
    PROVE  handler' \in [Conns -> Request] /\ HandlerInv'
<1>2. \A d \in Conns : HandlerOf(handler'[d], born')
  <2> TAKE d \in Conns
  <2>1. handler'[d] = handler[d] /\ HandlerOf(handler[d], born) /\ handler[d] \in Request
    BY DEF HandlerInv, TypeOK
  <2>2. \A t \in handler[d].to \union handler[d].back : t[2] \in Nat
    BY <2>1, VHostAssumption DEF Request
  <2> QED
    BY <2>1, <2>2 DEF HandlerOf, TypeOK
<1>3. \A d \in Conns : Backed(handler[d])'
  BY DEF Backed, HandlerInv
<1> QED
  BY <1>2, <1>3 DEF HandlerInv, TypeOK

(* A handler that is at no message. *)
Quiet(h) == h.m = None /\ h.to = {} /\ h.back = {}
QuietStep == \A d \in Conns : handler'[d] = handler[d] \/ (Quiet(handler[d]) /\ Quiet(handler'[d]))

LEMMA QuietTokens ==
    ASSUME QuietStep, NEW q \in QNames, NEW m \in Msgs, NEW c \in Conns
    PROVE  /\ Taken(c, q, m)' <=> Taken(c, q, m)
           /\ WillRemove(c, q, m)' <=> WillRemove(c, q, m)
           /\ queues'[q].born = queues[q].born => (Pushing(c, q, m)' <=> Pushing(c, q, m))
  BY NoneAssumption DEF QuietStep, Quiet, Taken, WillRemove, Pushing

(* A queue object with its messages and its file stays, or is new.         *)
Stays(q) ==
    /\ queues[q] # None /\ queues'[q].born = queues[q].born /\ queues'[q].kind = queues[q].kind
    /\ queues'[q].held = queues[q].held /\ qFiles'[q] = qFiles[q]
    /\ \A m \in Msgs : <<q, m>> \in leaked => <<q, m>> \in leaked'
Appears(q) ==
    /\ queues'[q].held = {} /\ queues'[q].born > born
    /\ queues'[q].kind.durable /\ qFiles'[q] # None => \A m \in qFiles'[q].messages : <<q, m>> \in leaked'

LEMMA QuietMessages ==
    ASSUME TypeOK, TypeOK', HandlerInv, RegInv', MsgInv, up, up', QuietStep, UNCHANGED <<fresh, exposed>>,
           adrift \subseteq adrift',
           \A q \in QNames : queues'[q] = None \/ Stays(q) \/ Appears(q),
           \A q \in QNames : qFiles'[q] = None \/ qFiles'[q].messages = {}
                                \/ (qFiles[q] # None /\ qFiles'[q].messages = qFiles[q].messages)
    PROVE  MsgInv'
<1>1. FreshInv'
  <2> SUFFICES ASSUME NEW m \in fresh'
               PROVE  /\ \A c \in Conns : handler'[c].m # m
                      /\ \A q \in QNames : queues'[q] # None => m \notin queues'[q].held
                      /\ \A q \in QNames : qFiles'[q] # None => m \notin qFiles'[q].messages
    BY DEF FreshInv
  <2>1. m \in fresh /\ m \in Msgs
    BY DEF TypeOK
  <2>2. /\ \A c \in Conns : handler[c].m # m
        /\ \A q \in QNames : queues[q] # None => m \notin queues[q].held
        /\ \A q \in QNames : qFiles[q] # None => m \notin qFiles[q].messages
    BY <2>1 DEF MsgInv, FreshInv
  <2>3. \A c \in Conns : handler'[c].m # m
    BY <2>1, <2>2, NoneAssumption DEF QuietStep, Quiet
  <2>4. \A q \in QNames : queues'[q] # None => m \notin queues'[q].held
    BY <2>2 DEF Stays, Appears
  <2>5. \A q \in QNames : qFiles'[q] # None => m \notin qFiles'[q].messages
    BY <2>2
  <2> QED
    BY <2>3, <2>4, <2>5
<1>2. ASSUME NEW q \in QNames, queues'[q] # None, queues'[q].kind.durable, NEW m \in Msgs, NEW c \in Conns, Appears(q)
      PROVE  ~Pushing(c, q, m)'
  <2>1. HandlerOf(handler[c], born) /\ handler[c] \in Request
    BY DEF HandlerInv, TypeOK
  <2>2. \A t \in handler[c].to : t[2] <= born /\ t[2] \in Nat
    BY <2>1, VHostAssumption DEF HandlerOf, Request
  <2>3. queues'[q].born \in Nat /\ born \in Nat /\ queues'[q].born > born
    BY <1>2, VHostAssumption DEF TypeOK, QueueObject, Appears
  <2>4. <<q, queues'[q].born>> \notin handler[c].to
    BY <2>2, <2>3
  <2> QED
    BY <2>4 DEF Pushing, QuietStep, Quiet
<1>3. DiskInv'
  <2> SUFFICES ASSUME NEW q \in QNames, queues'[q] # None, queues'[q].kind.durable,
                      NEW m \in Msgs, <<q, m>> \notin exposed'
               PROVE  OnDisk(q, m)'
    BY DEF DiskInv
  <2>1. CASE Stays(q)
    <3>1. OnDisk(q, m)
      BY <2>1 DEF MsgInv, DiskInv, Stays
    <3>2. \A c \in Conns : (Taken(c, q, m)' <=> Taken(c, q, m)) /\ (Pushing(c, q, m)' <=> Pushing(c, q, m))
      BY <2>1, QuietTokens DEF Stays
    <3> QED
      BY <2>1, <3>1, <3>2 DEF OnDisk, Stays, InFile
  <2>2. CASE Appears(q)
    <3>1. \A c \in Conns : ~Pushing(c, q, m)'
      BY <1>2, <2>2
    <3> QED
      BY <2>2, <3>1 DEF OnDisk, Appears, InFile
  <2> QED
    BY <2>1, <2>2
<1>4. AccountedInv'
  <2> SUFFICES ASSUME NEW q \in QNames, queues'[q] # None, queues'[q].kind.durable, q \notin adrift',
                      NEW m \in qFiles'[q].messages
               PROVE  Accounted(q, m)'
    BY DEF AccountedInv
  <2>0. m \in Msgs /\ qFiles'[q] # None
    <3>1. FileQu(queues'[q], qFiles'[q], q \in adrift')
      BY DEF RegInv, RegistryInv, Registry
    <3> QED
      BY <3>1 DEF FileQu, TypeOK, QueueFile
  <2>1. CASE Stays(q)
    <3>1. Accounted(q, m)
      BY <2>1 DEF MsgInv, AccountedInv, Stays
    <3>2. \A c \in Conns : (WillRemove(c, q, m)' <=> WillRemove(c, q, m)) /\ (Pushing(c, q, m)' <=> Pushing(c, q, m))
      BY <2>0, <2>1, QuietTokens DEF Stays
    <3> QED
      BY <2>0, <2>1, <3>1, <3>2 DEF Accounted, Stays
  <2>2. CASE Appears(q)
    BY <2>0, <2>2 DEF Accounted, Appears
  <2> QED
    BY <2>1, <2>2
<1> QED
  BY <1>1, <1>3, <1>4 DEF MsgInv

(* The registry becomes n: queues are left as they are, or go.             *)
Keeps(r, n) ==
    \A q \in QNames :
        /\ n.qu[q] # None =>
             /\ r.qu[q] # None /\ n.qu[q].born = r.qu[q].born /\ n.qu[q].kind = r.qu[q].kind
             /\ n.qu[q].held = r.qu[q].held /\ n.qf[q] = r.qf[q]
        /\ n.qf[q] # None => n.qf[q] = r.qf[q]

LEMMA OddStep ==
    ASSUME IInv, up, up', NEW r \in RegistryType, NEW odd \in SUBSET (AllNames \union QNames), Become(r, odd),
           RegistryInv(r, adrift \union odd), Keeps(Registry, r),
           QuietStep, handler' \in [Conns -> Request], HandlerInv',
           conn' \in [Conns -> {"open", "closing", "closed"}], requests' \in 0..MaxRequests,
           UNCHANGED <<born, fresh, ghosts>>, leaked' \in SUBSET leaked,
           \A q \in QNames, m \in Msgs : r.qu[q] # None /\ <<q, m>> \in leaked => <<q, m>> \in leaked'
    PROVE  IInv'
<1>1. /\ exchanges' = r.ex /\ queues' = r.qu
      /\ exchanges' \in [AllNames -> ExchangeObject \union {None}]
      /\ queues' \in [QNames -> QueueObject \union {None}]
      /\ exFiles' \in [ExNames -> ExchangeFile \union {None}]
      /\ qFiles' \in [QNames -> QueueFile \union {None}]
      /\ \A q \in QNames : qFiles'[q] = r.qf[q] \/ qFiles'[q] = qFiles[q]
      /\ adrift \subseteq adrift' /\ adrift' \subseteq AllNames \union QNames
      /\ RegistryInv(Registry', adrift') /\ FilesInv'
  BY BecomeStep DEF IInv
<1>2. TypeOK'
  BY <1>1 DEF IInv, TypeOK, ghosts, AllNames
<1>3. RegInv'
  BY <1>1 DEF RegInv
<1>4. Registry.qu = queues /\ Registry.qf = qFiles
  BY DEF Registry
<1>5. \A q \in QNames :
        /\ queues'[q] # None => /\ queues[q] # None /\ queues'[q].born = queues[q].born /\ queues'[q].kind = queues[q].kind
                                /\ queues'[q].held = queues[q].held /\ qFiles'[q] = qFiles[q]
        /\ qFiles'[q] # None => qFiles'[q] = qFiles[q]
  BY <1>1, <1>4 DEF Keeps
<1>7. BornInv'
  BY <1>5 DEF IInv, BornInv
<1>8. MsgInv'
  <2>1. \A q \in QNames : queues'[q] = None \/ Stays(q) \/ Appears(q)
    BY <1>1, <1>5 DEF Stays
  <2>2. \A q \in QNames : qFiles'[q] = None \/ qFiles'[q].messages = {}
                                \/ (qFiles[q] # None /\ qFiles'[q].messages = qFiles[q].messages)
    BY <1>5
  <2> QED
    BY <1>1, <1>2, <1>3, <2>1, <2>2, QuietMessages DEF IInv, ghosts
<1> QED
  BY <1>1, <1>2, <1>3, <1>7, <1>8 DEF IInv

LEMMA RegistryStep ==
    ASSUME IInv, up, up', NEW r \in RegistryType, Become(r, {}), RegistryInv(r, adrift), Keeps(Registry, r),
           QuietStep, handler' \in [Conns -> Request], HandlerInv',
           conn' \in [Conns -> {"open", "closing", "closed"}], requests' \in 0..MaxRequests,
           UNCHANGED <<born, fresh, ghosts>>, leaked' \in SUBSET leaked,
           \A q \in QNames, m \in Msgs : r.qu[q] # None /\ <<q, m>> \in leaked => <<q, m>> \in leaked'
    PROVE  IInv'
<1>1. {} \in SUBSET (AllNames \union QNames) /\ adrift \union {} = adrift
  OBVIOUS
<1>2. RegistryInv(r, adrift \union {})
  BY <1>1
<1> QED
  BY <1>1, <1>2, OddStep

(* Requests that only wait, or are done. *)
LEMMA QuietGoto ==
    ASSUME IInv, up, up', NEW c \in Conns, NEW h \in Request, Goto(c, h), born' \in Nat, born <= born',
           HandlerOf(h, born'), Quiet(handler[c]), Quiet(h), UNCHANGED exposed
    PROVE  handler' \in [Conns -> Request] /\ HandlerInv' /\ QuietStep
<1>1. /\ handler' \in [Conns -> Request] /\ HandlerInv'
      /\ handler'[c] = h /\ \A d \in Conns \ {c} : handler'[d] = handler[d]
  BY GotoStep DEF IInv, Quiet
<1> QED
  BY <1>1 DEF QuietStep

LEMMA QuietSame ==
    ASSUME IInv, up, up', UNCHANGED handler, born' \in Nat, born <= born', UNCHANGED exposed
    PROVE  handler' \in [Conns -> Request] /\ HandlerInv' /\ QuietStep
  BY SameHandlers DEF IInv, QuietStep

LEMMA QuietAt ==
    ASSUME IInv, NEW c \in Conns, handler[c].pc \in {"idle", "declared", "deleting", "dropping"}
    PROVE  Quiet(handler[c])
<1>1. HandlerOf(handler[c], born)
  BY DEF IInv, HandlerInv
<1> QED
  BY <1>1 DEF HandlerOf, Quiet, Idle

LEMMA PlainBecome ==
    ASSUME NEW r \in RegistryType, exchanges' = r.ex, queues' = r.qu, exFiles' = r.xf, qFiles' = r.qf, UNCHANGED adrift
    PROVE  Become(r, {})
<1>1. /\ exFiles' = [e \in ExNames |-> IF e \notin {} THEN r.xf[e]
                                        ELSE IF exFiles[e] = None THEN None
                                        ELSE [exFiles[e] EXCEPT !.bindings = {b \in @ : <<e, b>> \notin {}}]]
      /\ qFiles' = [q \in QNames |-> IF q \in {} THEN qFiles[q] ELSE r.qf[q]]
      /\ adrift' = adrift \union {} \union {} \union {}
  BY DEF RegistryType
<1> QED
  BY <1>1 DEF Become

LEMMA RegistryNow ==
    ASSUME IInv, up
    PROVE  /\ Registry \in RegistryType /\ RegistryInv(Registry, adrift)
           /\ Registry.ex = exchanges /\ Registry.qu = queues /\ Registry.xf = exFiles /\ Registry.qf = qFiles
           /\ born \in Nat
           /\ UNCHANGED <<exchanges, queues, exFiles, qFiles, adrift>> => Become(Registry, {})
<1>1. /\ Registry \in RegistryType
      /\ Registry.ex = exchanges /\ Registry.qu = queues /\ Registry.xf = exFiles /\ Registry.qf = qFiles
  BY RegistryTyped DEF IInv
<1>2. born \in Nat
  BY VHostAssumption DEF IInv, TypeOK
<1>3. UNCHANGED <<exchanges, queues, exFiles, qFiles, adrift>> => Become(Registry, {})
  BY <1>1, PlainBecome
<1> QED
  BY <1>1, <1>2, <1>3 DEF IInv, RegInv

LEMMA KeepsSame == ASSUME NEW r PROVE Keeps(r, r)
  BY DEF Keeps

-----------------------------------------------------------------------------
(* Each action.                                                            *)
LEMMA CheckExchangeUnusedStep ==
    ASSUME IInv, NEW c \in Conns, NEW e \in ExNames, CheckExchangeUnused(c, e)
    PROVE  IInv'
<1> DEFINE h == [Idle EXCEPT !.pc = "dropping", !.e = e]
<1>1. /\ up /\ handler[c] = Idle
      /\ conn' \in [Conns -> {"open", "closing", "closed"}] /\ requests' \in 0..MaxRequests
  BY StartedTypes DEF CheckExchangeUnused, IInv
<1>2. up' /\ UNCHANGED <<exchanges, queues, exFiles, qFiles, born, fresh, leaked, adrift, exposed, ghosts>> /\ Goto(c, h)
  BY <1>1 DEF CheckExchangeUnused, ghosts
<1>3. /\ Registry \in RegistryType /\ RegistryInv(Registry, adrift) /\ born \in Nat /\ Become(Registry, {})
  BY <1>1, <1>2, RegistryNow
<1>4. h \in Request /\ HandlerOf(h, born) /\ Quiet(h) /\ Quiet(Idle)
  BY DEF Idle, Request, HandlerOf, Quiet
<1> HIDE DEF h
<1>5. handler' \in [Conns -> Request] /\ HandlerInv' /\ QuietStep
  BY <1>1, <1>2, <1>3, <1>4, QuietGoto
<1> QED
  BY <1>1, <1>2, <1>3, <1>5, KeepsSame, RegistryStep

LEMMA DeletableStep ==
    ASSUME IInv, NEW c \in Conns, NEW q \in QNames, NEW flags \in Deletion, MayStart(c), Started(c), Deletable(c, q, flags)
    PROVE  IInv'
<1> DEFINE h == [Idle EXCEPT !.pc = "deleting", !.q = q, !.flags = flags]
<1>1. /\ up /\ handler[c] = Idle
      /\ conn' \in [Conns -> {"open", "closing", "closed"}] /\ requests' \in 0..MaxRequests
  BY StartedTypes DEF IInv
<1>2. up' /\ UNCHANGED <<exchanges, queues, exFiles, qFiles, born, fresh, leaked, adrift, exposed, ghosts>> /\ Goto(c, h)
  BY <1>1 DEF Deletable, ghosts
<1>3. /\ Registry \in RegistryType /\ RegistryInv(Registry, adrift) /\ born \in Nat /\ Become(Registry, {})
  BY <1>1, <1>2, RegistryNow
<1>4. flags \in SUBSET {"if-unused", "if-empty", "remove"}
  BY DEF Deletion
<1>5. h \in Request /\ HandlerOf(h, born) /\ Quiet(h) /\ Quiet(Idle)
  BY <1>4 DEF Idle, Request, HandlerOf, Quiet
<1> HIDE DEF h
<1>6. handler' \in [Conns -> Request] /\ HandlerInv' /\ QuietStep
  BY <1>1, <1>2, <1>3, <1>5, QuietGoto
<1> QED
  BY <1>1, <1>2, <1>3, <1>6, KeepsSame, RegistryStep

LEMMA DeleteExchangeStep ==
    ASSUME IInv, NEW c \in Conns, NEW e \in ExNames, DeleteExchange(c, e)
    PROVE  IInv'
<1> DEFINE r == IF Exists(Registry, e) THEN DropExchange(Registry, e) ELSE Registry
<1>1. /\ up /\ handler[c].pc \in {"idle", "dropping"}
      /\ conn' \in [Conns -> {"open", "closing", "closed"}] /\ requests' \in 0..MaxRequests
  <2>1. CASE MayStart(c) /\ Started(c)
    BY <2>1, StartedTypes, IdleFacts DEF IInv
  <2>2. CASE At(c, "dropping") /\ Proceed(c)
    BY <2>2 DEF IInv, TypeOK, At, Proceed
  <2> QED
    BY <2>1, <2>2 DEF DeleteExchange
<1>2. up' /\ UNCHANGED <<born, fresh, leaked, exposed, ghosts>> /\ Goto(c, Idle) /\ Become(r, {})
  BY <1>1 DEF DeleteExchange, ghosts
<1>3. /\ Registry \in RegistryType /\ RegistryInv(Registry, adrift) /\ born \in Nat
  BY <1>1, RegistryNow
<1>4. r \in RegistryType /\ RegistryInv(r, adrift) /\ Keeps(Registry, r)
  <2>1. CASE ~Exists(Registry, e)
    BY <1>3, <2>1, KeepsSame
  <2>2. CASE Exists(Registry, e)
    <3>1. Registry.ex[e] # None /\ r = DropExchange(Registry, e)
      BY <2>2 DEF Exists
    <3> HIDE DEF r
    <3>2. RegistryInv(r, adrift)
      BY <1>3, <3>1, DropKeeps
    <3>3. r \in RegistryType /\ r.qu = Registry.qu /\ r.qf = Registry.qf
      BY <1>3, <3>1, DropFacts
    <3> QED
      BY <3>2, <3>3 DEF Keeps
  <2> QED
    BY <2>1, <2>2
<1> HIDE DEF r
<1>5. handler' \in [Conns -> Request] /\ HandlerInv' /\ QuietStep
  <2>1. Quiet(handler[c]) /\ Quiet(Idle)
    BY <1>1, QuietAt, IdleFacts DEF Quiet
  <2> QED
    BY <1>1, <1>2, <1>3, <2>1, IdleFacts, QuietGoto
<1> QED
  BY <1>1, <1>2, <1>4, <1>5, RegistryStep

LEMMA CreateExchangeStep ==
    ASSUME IInv, NEW c \in Conns, NEW e \in ExNames, NEW k \in ExchangeKind, MayStart(c), Started(c), CreateExchange(e, k)
    PROVE  IInv'
<1> DEFINE x == NewExchange(k)
           f == [kind |-> k, bindings |-> {}]
           X == [exchanges EXCEPT ![e] = x]
           F == IF k.durable THEN [exFiles EXCEPT ![e] = f] ELSE exFiles
           r == [Registry EXCEPT !.ex = X, !.xf = F]
<1>1. /\ up /\ handler[c] = Idle
      /\ conn' \in [Conns -> {"open", "closing", "closed"}] /\ requests' \in 0..MaxRequests
  BY StartedTypes DEF IInv
<1>2. up' /\ UNCHANGED <<handler, born, fresh, leaked, exposed, ghosts>>
  BY <1>1 DEF CreateExchange, ghosts
<1>3. /\ Registry \in RegistryType /\ RegistryInv(Registry, adrift) /\ born \in Nat
      /\ Registry.ex = exchanges /\ Registry.qu = queues /\ Registry.xf = exFiles /\ Registry.qf = qFiles
  BY <1>1, RegistryNow
<1>4. Become(r, {})
  <2>1. WithExchange(Registry, e, k) = r
    BY <1>3 DEF WithExchange, RegistryType
  <2> QED
    BY <2>1 DEF CreateExchange
<1>5. x \in ExchangeObject /\ x.kind = k /\ x.bindings = {} /\ x.bound = FALSE /\ x # None
  <2>1. x \in ExchangeObject /\ x.kind = k /\ x.bindings = {} /\ x.bound = FALSE
    BY DEF NewExchange, ExchangeObject
  <2> HIDE DEF x
  <2> QED
    BY <2>1, NoneAssumption
<1>6. f \in ExchangeFile /\ f.kind = k /\ f.bindings = {} /\ f # None
  <2>1. f \in ExchangeFile /\ f.kind = k /\ f.bindings = {}
    BY DEF ExchangeFile
  <2> HIDE DEF f
  <2> QED
    BY <2>1, NoneAssumption
<1> HIDE DEF x, f
<1>7. e \in AllNames /\ e # Default /\ Default \in AllNames
  BY VHostAssumption DEF AllNames
<1>8. X \in [AllNames -> ExchangeObject \union {None}] /\ X[e] = x /\ \A g \in AllNames \ {e} : X[g] = exchanges[g]
  BY <1>3, <1>5, <1>7 DEF RegistryType
<1>9. e \notin adrift => exFiles[e] = None
  <2>1. e \notin adrift => FileEx(exchanges[e], exFiles[e], queues, adrift) /\ exchanges[e] = None
    BY <1>3 DEF RegistryInv, CreateExchange, Exists
  <2> QED
    BY <2>1 DEF FileEx
<1>10. /\ F \in [ExNames -> ExchangeFile \union {None}]
       /\ F[e] = (IF k.durable THEN f ELSE exFiles[e]) /\ \A g \in ExNames \ {e} : F[g] = exFiles[g]
  <2>1. CASE k.durable
    BY <1>3, <1>6, <2>1 DEF RegistryType
  <2>2. CASE ~k.durable
    BY <1>3, <2>2 DEF RegistryType
  <2> QED
    BY <2>1, <2>2
<1> HIDE DEF X, F
<1>11. r \in RegistryType /\ r.ex = X /\ r.qu = queues /\ r.xf = F /\ r.qf = qFiles
  BY <1>3, <1>8, <1>10 DEF RegistryType
<1> HIDE DEF r
<1>12. RegistryInv(r, adrift)
  <2>1. \A g \in AllNames : LiveEx(r.ex[g], r.qu) /\ AutoEx(r.ex[g])
    <3>1. LiveEx(x, r.qu) /\ AutoEx(x)
      BY <1>5 DEF LiveEx, AutoEx
    <3> QED
      BY <1>3, <1>8, <1>11, <3>1 DEF RegistryInv
  <2>2. e \notin adrift => FileEx(r.ex[e], r.xf[e], r.qu, adrift)
    <3>1. SameKind(k, k)
      BY DEF SameKind
    <3>2. \A b : ~Listed(x, queues, b)
      BY <1>5 DEF Listed
    <3> QED
      BY <1>5, <1>6, <1>8, <1>9, <1>10, <1>11, <3>1, <3>2 DEF FileEx
  <2>3. \A g \in ExNames \ adrift : FileEx(r.ex[g], r.xf[g], r.qu, adrift)
    BY <1>3, <1>8, <1>10, <1>11, <2>2 DEF RegistryInv, AllNames
  <2>4. FileKinds(r)
    BY <1>3, <1>6, <1>10, <1>11 DEF RegistryInv, FileKinds
  <2> QED
    BY <1>3, <1>7, <1>8, <1>11, <2>1, <2>3, <2>4 DEF RegistryInv
<1>13. Keeps(Registry, r)
  BY <1>3, <1>11 DEF Keeps
<1>14. handler' \in [Conns -> Request] /\ HandlerInv' /\ QuietStep
  BY <1>1, <1>2, <1>3, QuietSame
<1> QED
  BY <1>1, <1>2, <1>4, <1>11, <1>12, <1>13, <1>14, RegistryStep

LEMMA BindQueueStep ==
    ASSUME IInv, NEW c \in Conns, NEW e \in AllNames, NEW q \in QNames, NEW key \in BindKeys,
           MayStart(c), Started(c), BindQueue(c, e, q, key)
    PROVE  IInv'
<1>0. PICK k \in KeyOfCopy(e, q, key) : Become(Bound(Registry, e, q, k), {})
  BY Zenon DEF BindQueue
<1> DEFINE r == Bound(Registry, e, q, k)
<1>1. /\ up /\ handler[c] = Idle
      /\ conn' \in [Conns -> {"open", "closing", "closed"}] /\ requests' \in 0..MaxRequests
  BY StartedTypes DEF IInv
<1>2. up' /\ UNCHANGED <<handler, born, fresh, leaked, exposed, ghosts>> /\ Become(r, {})
  BY <1>0, <1>1 DEF BindQueue, ghosts
<1>3. /\ Registry \in RegistryType /\ RegistryInv(Registry, adrift) /\ born \in Nat
      /\ Registry.ex = exchanges /\ Registry.qu = queues
  BY <1>1, RegistryNow
<1>4. k \in Keys
  BY VHostAssumption DEF KeyOfCopy, Keys
<1>5. Registry.ex[e] # None /\ Registry.qu[q] # None
  BY <1>3 DEF BindQueue, Exists
<1>6. r \in RegistryType /\ RegistryInv(r, adrift) /\ r.qu = Registry.qu /\ r.qf = Registry.qf
  BY <1>3, <1>4, <1>5, BoundKeeps
<1> HIDE DEF r
<1>7. Keeps(Registry, r)
  BY <1>6 DEF Keeps
<1>8. handler' \in [Conns -> Request] /\ HandlerInv' /\ QuietStep
  BY <1>1, <1>2, <1>3, QuietSame
<1> QED
  BY <1>1, <1>2, <1>6, <1>7, <1>8, RegistryStep

LEMMA BindToDefaultStep ==
    ASSUME IInv, NEW c \in Conns, BindToDefaultExchange(c)
    PROVE  IInv'
<1> DEFINE q == handler[c].q
           r == IF queues[q] = None THEN Registry ELSE Bound(Registry, Default, q, KeyFor(q))
<1>1. /\ up /\ handler[c].pc = "declared" /\ up' /\ Goto(c, Idle) /\ Become(r, {})
      /\ UNCHANGED <<conn, requests, born, fresh, leaked, exposed, ghosts>>
  BY DEF BindToDefaultExchange, At, Proceed, ghosts
<1>2. conn' \in [Conns -> {"open", "closing", "closed"}] /\ requests' \in 0..MaxRequests
  BY <1>1 DEF IInv, TypeOK
<1>3. /\ Registry \in RegistryType /\ RegistryInv(Registry, adrift) /\ born \in Nat
      /\ Registry.ex = exchanges /\ Registry.qu = queues
  BY <1>1, RegistryNow
<1>4. q \in QNames /\ KeyFor(q) \in Keys /\ Default \in AllNames
  BY <1>1 DEF IInv, HandlerInv, HandlerOf, Keys, AllNames
<1>5. Registry.ex[Default] # None
  BY <1>3 DEF RegistryInv
<1>6. r \in RegistryType /\ RegistryInv(r, adrift) /\ Keeps(Registry, r)
  <2>1. CASE queues[q] = None
    BY <1>3, <2>1, KeepsSame
  <2>2. CASE queues[q] # None
    <3>1. r = Bound(Registry, Default, q, KeyFor(q)) /\ Registry.qu[q] # None
      BY <1>3, <2>2
    <3> HIDE DEF r, q
    <3>2. r \in RegistryType /\ RegistryInv(r, adrift) /\ r.qu = Registry.qu /\ r.qf = Registry.qf
      BY <1>3, <1>4, <1>5, <3>1, BoundKeeps
    <3> QED
      BY <3>2 DEF Keeps
  <2> QED
    BY <2>1, <2>2
<1> HIDE DEF r
<1>7. handler' \in [Conns -> Request] /\ HandlerInv' /\ QuietStep
  <2>1. Quiet(handler[c]) /\ Quiet(Idle)
    BY <1>1, QuietAt, IdleFacts DEF Quiet
  <2> QED
    BY <1>1, <1>3, <2>1, IdleFacts, QuietGoto
<1> QED
  BY <1>1, <1>2, <1>6, <1>7, RegistryStep

LEMMA UnbindQueueStep ==
    ASSUME IInv, NEW c \in Conns, NEW e \in AllNames, NEW q \in QNames, NEW key \in BindKeys,
           MayStart(c), Started(c), UnbindQueue(c, e, q, key)
    PROVE  IInv'
<1>0. PICK b \in Unbindable(e, q, key) :
        LET r == Unbound(Registry, e, b) IN Become(r, IF HasCopy(r, e, b) THEN {e} ELSE {})
  BY Zenon DEF UnbindQueue
<1> DEFINE B == {b}
           X == [exchanges EXCEPT ![e] = Kept(Registry, e, B)]
           F == IF e = Default THEN exFiles ELSE [exFiles EXCEPT ![e] = KeptFile(Registry, e, B)]
           r == [Registry EXCEPT !.ex = X, !.xf = F]
           odd == IF HasCopy(r, e, b) THEN {e} ELSE {}
<1>1. /\ up /\ handler[c] = Idle
      /\ conn' \in [Conns -> {"open", "closing", "closed"}] /\ requests' \in 0..MaxRequests
  BY StartedTypes DEF IInv
<1>2. up' /\ UNCHANGED <<handler, born, fresh, leaked, exposed, ghosts>>
  BY <1>1 DEF UnbindQueue, ghosts
<1>3. /\ Registry \in RegistryType /\ RegistryInv(Registry, adrift) /\ born \in Nat
      /\ Registry.ex = exchanges /\ Registry.qu = queues /\ Registry.xf = exFiles /\ Registry.qf = qFiles
  BY <1>1, RegistryNow
<1>3a. Become(r, odd)
  <2>1. Unbound(Registry, e, b) = r
    BY <1>3 DEF Unbound, RegistryType
  <2> QED
    BY <1>0, <2>1
<1> HIDE DEF B
<1>4. /\ X \in [AllNames -> ExchangeObject \union {None}]
      /\ X[e] = Kept(Registry, e, B) /\ \A g \in AllNames \ {e} : X[g] = exchanges[g]
  <2>1. Kept(Registry, e, B) \in ExchangeObject \union {None}
    BY <1>3, KeptFacts
  <2> QED
    BY <1>3, <2>1 DEF RegistryType
<1>5. /\ F \in [ExNames -> ExchangeFile \union {None}]
      /\ e \in ExNames => F[e] = KeptFile(Registry, e, B)
      /\ \A g \in ExNames \ {e} : F[g] = exFiles[g]
  <2>1. CASE e = Default
    BY <1>3, <2>1, VHostAssumption DEF RegistryType
  <2>2. CASE e # Default
    <3>1. e \in ExNames
      BY <2>2 DEF AllNames
    <3>2. KeptFile(Registry, e, B) \in ExchangeFile \union {None}
      BY <1>3, <3>1, KeptFileFacts
    <3> QED
      BY <1>3, <2>2, <3>1, <3>2 DEF RegistryType
  <2> QED
    BY <2>1, <2>2
<1> HIDE DEF X, F
<1>6. r \in RegistryType /\ r.ex = X /\ r.qu = queues /\ r.xf = F /\ r.qf = qFiles
  BY <1>3, <1>4, <1>5 DEF RegistryType
<1> HIDE DEF r
<1>6a. odd \in SUBSET (AllNames \union QNames)
  OBVIOUS
<1>7. RegistryInv(r, adrift \union odd)
  <2>1. RegistryInv(Registry, adrift \union odd)
    BY <1>3, Weaker
  <2>2. CASE HasCopy(r, e, b)
    <3>1. e \in adrift \union odd
      BY <2>2
    <3> HIDE DEF odd
    <3> QED
      BY <1>3, <1>4, <1>5, <1>6, <2>1, <3>1, UnbindKeeps
  <2>3. CASE ~HasCopy(r, e, b)
    <3>1. ASSUME NEW d2 \in Bindings(Registry, e) \ B
          PROVE  Entry(Registry.ex[e], b) # Entry(Registry.ex[e], d2)
      <4>1. Registry.ex[e] # None /\ ~(Registry.ex[e].bindings \subseteq B) /\ d2 \in Registry.ex[e].bindings
        BY DEF Bindings
      <4>2. ~LosesAll(Registry, e, B)
        BY <4>1 DEF LosesAll
      <4>3. /\ r.ex[e] # None /\ r.ex[e].kind = Registry.ex[e].kind
            /\ r.ex[e].bindings = Registry.ex[e].bindings \ B
        BY <1>3, <1>4, <1>6, <4>1, <4>2, KeptFacts
      <4>4. d2 \in Bindings(r, e)
        BY <4>1, <4>3 DEF Bindings
      <4>5. Entry(r.ex[e], d2) # Entry(r.ex[e], b)
        BY <2>3, <4>4 DEF HasCopy
      <4> QED
        BY <4>3, <4>5 DEF Entry
    <3>2. Distinct(Registry, e, B)
      BY <3>1 DEF Distinct, B
    <3> HIDE DEF odd
    <3> QED
      BY <1>3, <1>4, <1>5, <1>6, <2>1, <3>2, UnbindKeeps
  <2> QED
    BY <2>2, <2>3
<1>8. Keeps(Registry, r)
  BY <1>3, <1>6 DEF Keeps
<1>9. handler' \in [Conns -> Request] /\ HandlerInv' /\ QuietStep
  BY <1>1, <1>2, <1>3, QuietSame
<1> HIDE DEF odd
<1> QED
  BY <1>1, <1>2, <1>3a, <1>6, <1>6a, <1>7, <1>8, <1>9, OddStep

LEMMA DeleteLeaves ==
    ASSUME NEW r \in RegistryType, NEW D \in SUBSET QNames
    PROVE  /\ Keeps(r, DeleteQueues(r, D))
           /\ \A q \in QNames : DeleteQueues(r, D).qu[q] = IF q \in D THEN None ELSE r.qu[q]
  BY DeleteFacts DEF Keeps

LEMMA CancelLeaves ==
    ASSUME NEW r \in RegistryType, NEW c, NEW Q \in SUBSET QNames, \A q \in Q : r.qu[q] # None
    PROVE  /\ Keeps(r, CancelConsumers(r, c, Q))
           /\ \A q \in QNames \ Q : CancelConsumers(r, c, Q).qu[q] = r.qu[q]
<1>1. PICK cut \in RegistryType, D \in SUBSET Q : Cancels(r, c, Q, cut, D)
  BY CancelFacts, Zenon
<1>2. /\ CancelConsumers(r, c, Q) = DeleteQueues(cut, D) /\ cut.qf = r.qf
      /\ \A q \in QNames \ Q : cut.qu[q] = r.qu[q]
      /\ \A q \in Q : /\ cut.qu[q].kind = r.qu[q].kind /\ cut.qu[q].born = r.qu[q].born
                      /\ cut.qu[q].held = r.qu[q].held
  BY <1>1 DEF Cancels
<1>3. D \in SUBSET QNames
  OBVIOUS
<1>4. /\ Keeps(cut, DeleteQueues(cut, D))
      /\ \A q \in QNames : DeleteQueues(cut, D).qu[q] = IF q \in D THEN None ELSE cut.qu[q]
  BY <1>3, DeleteLeaves
<1>5. Keeps(r, DeleteQueues(cut, D))
  BY <1>2, <1>4 DEF Keeps
<1> QED
  BY <1>2, <1>4, <1>5

LEMMA DeleteQueueStep ==
    ASSUME IInv, NEW c \in Conns, DeleteQueue(c)
    PROVE  IInv'
<1> DEFINE q == handler[c].q
           r == IF queues[q] = None THEN Registry ELSE DeleteQueues(Registry, {q})
<1>1. /\ up /\ handler[c].pc = "deleting" /\ up' /\ Goto(c, Idle) /\ Become(r, {})
      /\ leaked' = IF queues[q] = None \/ ~queues[q].kind.durable THEN leaked ELSE {l \in leaked : l[1] # q}
      /\ UNCHANGED <<conn, requests, born, fresh, exposed, ghosts>>
  BY DEF DeleteQueue, At, Proceed, ghosts
<1>2. conn' \in [Conns -> {"open", "closing", "closed"}] /\ requests' \in 0..MaxRequests
  BY <1>1 DEF IInv, TypeOK
<1>3. /\ Registry \in RegistryType /\ RegistryInv(Registry, adrift) /\ born \in Nat
      /\ Registry.ex = exchanges /\ Registry.qu = queues
  BY <1>1, RegistryNow
<1>4. q \in QNames
  BY <1>1 DEF IInv, HandlerInv, HandlerOf
<1>5. handler' \in [Conns -> Request] /\ HandlerInv' /\ QuietStep
  <2>1. Quiet(handler[c]) /\ Quiet(Idle)
    BY <1>1, QuietAt, IdleFacts DEF Quiet
  <2> QED
    BY <1>1, <1>3, <2>1, IdleFacts, QuietGoto
<1>6. CASE queues[q] = None
  <2>1. Become(Registry, {}) /\ leaked' = leaked
    BY <1>1, <1>6
  <2> QED
    BY <1>1, <1>2, <1>3, <1>5, <2>1, KeepsSame, RegistryStep
<1>7. CASE queues[q] # None
  <2>1. r = DeleteQueues(Registry, {q})
    BY <1>7
  <2> HIDE DEF r, q
  <2>2. {q} \in SUBSET QNames
    BY <1>4
  <2>3. RegistryInv(r, adrift)
    <3>1. /\ Registry.ex[Default] # None /\ ~Registry.ex[Default].kind.durable /\ ~Registry.ex[Default].kind.autoDelete
          /\ \A e \in AllNames : LiveEx(Registry.ex[e], Registry.qu) /\ AutoEx(Registry.ex[e])
          /\ \A e \in ExNames \ adrift : FileEx(Registry.ex[e], Registry.xf[e], Registry.qu, adrift)
          /\ FileKinds(Registry)
          /\ \A p \in QNames \ {q} : AutoQu(Registry.qu[p])
          /\ \A p \in QNames : FileQu(Registry.qu[p], Registry.qf[p], p \in adrift)
      BY <1>3 DEF RegistryInv
    <3> QED
      BY <1>3, <2>1, <2>2, <3>1, DeleteKeeps
  <2>4. /\ r \in RegistryType /\ Keeps(Registry, r)
        /\ \A p \in QNames : r.qu[p] = IF p \in {q} THEN None ELSE Registry.qu[p]
    BY <1>3, <2>1, <2>2, DeleteFacts, DeleteLeaves
  <2>5. leaked' \in SUBSET leaked
    BY <1>1
  <2>6. \A p \in QNames, m \in Msgs : r.qu[p] # None /\ <<p, m>> \in leaked => <<p, m>> \in leaked'
    BY <1>1, <2>4
  <2> QED
    BY <1>1, <1>2, <1>5, <2>3, <2>4, <2>5, <2>6, RegistryStep
<1> QED
  BY <1>6, <1>7

LEMMA CancelConsumerStep ==
    ASSUME IInv, NEW c \in Conns, NEW q \in QNames, CancelConsumer(c, q)
    PROVE  IInv'
<1> DEFINE r == CancelConsumers(Registry, c, {q})
<1>1. /\ up /\ handler[c] = Idle
      /\ conn' \in [Conns -> {"open", "closing", "closed"}] /\ requests' \in 0..MaxRequests
  BY StartedTypes DEF CancelConsumer, IInv
<1>2. /\ up' /\ UNCHANGED <<handler, born, fresh, exposed, ghosts>> /\ Become(r, {}) /\ queues[q] # None
      /\ leaked' = {l \in leaked : l[1] # q \/ queues'[q] # None \/ ~queues[q].kind.durable}
  BY <1>1 DEF CancelConsumer, ghosts
<1>3. /\ Registry \in RegistryType /\ RegistryInv(Registry, adrift) /\ born \in Nat
      /\ Registry.ex = exchanges /\ Registry.qu = queues
  BY <1>1, RegistryNow
<1>4. {q} \in SUBSET QNames /\ \A p \in {q} : Registry.qu[p] # None
  BY <1>2, <1>3
<1>5. r \in RegistryType /\ RegistryInv(r, adrift)
  BY <1>3, <1>4, CancelKeeps
<1>6. Keeps(Registry, r)
  BY <1>3, <1>4, CancelLeaves
<1> HIDE DEF r
<1>7. queues' = r.qu
  BY <1>2 DEF Become
<1>8. leaked' \in SUBSET leaked
  BY <1>2
<1>9. \A p \in QNames, m \in Msgs : r.qu[p] # None /\ <<p, m>> \in leaked => <<p, m>> \in leaked'
  BY <1>2, <1>7
<1>10. handler' \in [Conns -> Request] /\ HandlerInv' /\ QuietStep
  BY <1>1, <1>2, <1>3, QuietSame
<1> QED
  BY <1>1, <1>2, <1>5, <1>6, <1>8, <1>9, <1>10, RegistryStep

LEMMA CleanupConnectionStep ==
    ASSUME IInv, NEW c \in Clients, CleanupConnection(c)
    PROVE  IInv'
<1> DEFINE used == {q \in QNames : queues[q] # None /\ c \in queues[q].consumers}
           cut == CancelConsumers(Registry, c, used)
           owned == {q \in QNames : cut.qu[q] # None /\ cut.qu[q].owner = c}
           r == DeleteQueues(cut, owned)
<1>1. /\ up /\ up' /\ UNCHANGED <<handler, born, requests, fresh, exposed, ghosts>> /\ Become(r, {})
      /\ conn' = [conn EXCEPT ![c] = IF handler[c].pc = "idle" THEN "closing" ELSE "closed"]
      /\ leaked' = {l \in leaked : queues[l[1]] # None /\ queues[l[1]].kind.durable => queues'[l[1]] # None}
  BY DEF CleanupConnection, ghosts
<1>2. conn' \in [Conns -> {"open", "closing", "closed"}] /\ requests' \in 0..MaxRequests
  BY <1>1 DEF IInv, TypeOK, Conns
<1>3. /\ Registry \in RegistryType /\ RegistryInv(Registry, adrift) /\ born \in Nat
      /\ Registry.ex = exchanges /\ Registry.qu = queues
  BY <1>1, RegistryNow
<1>4. used \in SUBSET QNames /\ \A p \in used : Registry.qu[p] # None
  BY <1>3
<1> HIDE DEF used
<1>5. cut \in RegistryType /\ RegistryInv(cut, adrift)
  BY <1>3, <1>4, CancelKeeps
<1>6. Keeps(Registry, cut)
  BY <1>3, <1>4, CancelLeaves
<1> HIDE DEF cut
<1>7. owned \in SUBSET QNames
  OBVIOUS
<1> HIDE DEF owned
<1>8. RegistryInv(r, adrift)
  <2>1. /\ cut.ex[Default] # None /\ ~cut.ex[Default].kind.durable /\ ~cut.ex[Default].kind.autoDelete
        /\ \A e \in AllNames : LiveEx(cut.ex[e], cut.qu) /\ AutoEx(cut.ex[e])
        /\ \A e \in ExNames \ adrift : FileEx(cut.ex[e], cut.xf[e], cut.qu, adrift)
        /\ FileKinds(cut)
        /\ \A p \in QNames \ owned : AutoQu(cut.qu[p])
        /\ \A p \in QNames : FileQu(cut.qu[p], cut.qf[p], p \in adrift)
    BY <1>5 DEF RegistryInv
  <2> QED
    BY <1>5, <1>7, <2>1, DeleteKeeps
<1>9. r \in RegistryType /\ Keeps(cut, r)
  BY <1>5, <1>7, DeleteFacts, DeleteLeaves
<1> HIDE DEF r
<1>10. Keeps(Registry, r)
  BY <1>6, <1>9 DEF Keeps
<1>11. queues' = r.qu
  BY <1>1 DEF Become
<1>12. leaked' \in SUBSET leaked
  BY <1>1
<1>13. \A p \in QNames, m \in Msgs : r.qu[p] # None /\ <<p, m>> \in leaked => <<p, m>> \in leaked'
  BY <1>1, <1>11
<1>14. handler' \in [Conns -> Request] /\ HandlerInv' /\ QuietStep
  BY <1>1, <1>3, QuietSame
<1> QED
  BY <1>1, <1>2, <1>8, <1>9, <1>10, <1>12, <1>13, <1>14, RegistryStep

(* The same exchanges, with queues that are the same to them. *)
LEMMA SameRegistry ==
    ASSUME NEW r \in RegistryType, NEW n \in RegistryType, NEW S, RegistryInv(r, S),
           n.ex = r.ex, n.xf = r.xf,
           \A q \in QNames : r.qu[q] # None => SameQueue(r.qu[q], n.qu[q]),
           \A q \in QNames : AutoQu(n.qu[q]) /\ FileQu(n.qu[q], n.qf[q], q \in S),
           \A q \in QNames : n.qf[q] # None => n.qf[q].kind.durable
    PROVE  RegistryInv(n, S)
<1>1. \A e \in AllNames : LiveEx(n.ex[e], n.qu) /\ AutoEx(n.ex[e])
  <2> TAKE e \in AllNames
  <2>1. r.ex[e] \in ExchangeObject \union {None} /\ LiveEx(r.ex[e], r.qu) /\ AutoEx(r.ex[e])
    BY DEF RegistryType, RegistryInv
  <2> QED
    BY <2>1, SameExchange
<1>2. \A e \in ExNames \ S : FileEx(n.ex[e], n.xf[e], n.qu, S)
  <2> TAKE e \in ExNames \ S
  <2>1. e \in AllNames
    BY DEF AllNames
  <2>2. r.ex[e] \in ExchangeObject \union {None} /\ LiveEx(r.ex[e], r.qu) /\ FileEx(r.ex[e], r.xf[e], r.qu, S)
    BY <2>1 DEF RegistryType, RegistryInv
  <2> QED
    BY <2>2, SameExchange
<1>3. FileKinds(n)
  BY DEF FileKinds, RegistryInv
<1> QED
  BY <1>1, <1>2, <1>3 DEF RegistryInv

LEMMA RegisterConsumerStep ==
    ASSUME IInv, NEW c \in Conns, NEW q \in QNames, RegisterConsumer(c, q)
    PROVE  IInv'
<1> DEFINE x == queues[q]
           y == [x EXCEPT !.consumers = x.consumers \union {c}, !.consumed = TRUE]
           Q == [queues EXCEPT ![q] = y]
           r == [ex |-> exchanges, qu |-> Q, xf |-> exFiles, qf |-> qFiles]
<1>1. /\ up /\ handler[c] = Idle
      /\ conn' \in [Conns -> {"open", "closing", "closed"}] /\ requests' \in 0..MaxRequests
  BY StartedTypes DEF RegisterConsumer, IInv
<1>2. /\ up' /\ UNCHANGED <<exchanges, exFiles, qFiles, handler, born, fresh, leaked, adrift, ghosts, exposed>>
      /\ x # None /\ c \in Clients
  BY <1>1 DEF RegisterConsumer, ghosts, Conns
<1>3. /\ Registry \in RegistryType /\ RegistryInv(Registry, adrift) /\ born \in Nat
      /\ Registry.ex = exchanges /\ Registry.qu = queues /\ Registry.xf = exFiles /\ Registry.qf = qFiles
  BY <1>1, RegistryNow
<1>4. x \in QueueObject
  BY <1>2, <1>3 DEF RegistryType
<1>5. queues' = Q
  BY <1>3 DEF RegisterConsumer, RegistryType
<1>6. x.consumers \union {c} \in SUBSET Clients
  BY <1>2, <1>4 DEF QueueObject
<1> HIDE DEF x
<1>7. /\ y \in QueueObject /\ y.kind = x.kind /\ y.born = x.born /\ y.held = x.held
      /\ y.consumers = x.consumers \union {c}
  BY <1>4, <1>6 DEF QueueObject
<1>8. y # None
  BY <1>7, NoneAssumption
<1> HIDE DEF y
<1>9. /\ Q \in [QNames -> QueueObject \union {None}] /\ Q[q] = y /\ \A p \in QNames \ {q} : Q[p] = queues[p]
  BY <1>3, <1>7 DEF RegistryType
<1> HIDE DEF Q
<1>10. r \in RegistryType /\ r.ex = exchanges /\ r.qu = Q /\ r.xf = exFiles /\ r.qf = qFiles
  BY <1>3, <1>9 DEF RegistryType
<1> HIDE DEF r
<1>14. Become(r, {})
  BY <1>2, <1>5, <1>10, PlainBecome
<1>11. RegistryInv(r, adrift)
  <2>1. \A p \in QNames : queues[p] # None => SameQueue(queues[p], Q[p])
    BY <1>2, <1>7, <1>8, <1>9 DEF SameQueue, x
  <2>2. \A p \in QNames : AutoQu(Q[p]) /\ FileQu(Q[p], qFiles[p], p \in adrift)
    <3> TAKE p \in QNames
    <3>1. AutoQu(queues[p]) /\ FileQu(queues[p], qFiles[p], p \in adrift)
      BY <1>3 DEF RegistryInv
    <3>2. CASE p # q
      BY <1>9, <3>1, <3>2
    <3>3. CASE p = q
      <4>1. c \in Q[p].consumers
        BY <1>7, <1>9, <3>3
      <4>2. AutoQu(Q[p])
        BY <4>1 DEF AutoQu
      <4>3. FileQu(Q[p], qFiles[p], p \in adrift)
        BY <1>2, <1>7, <1>8, <1>9, <3>1, <3>3 DEF FileQu, x
      <4> QED
        BY <4>2, <4>3
    <3> QED
      BY <3>2, <3>3
  <2>3. \A p \in QNames : qFiles[p] # None => qFiles[p].kind.durable
    BY <1>3 DEF RegistryInv, FileKinds
  <2> QED
    BY <1>3, <1>10, <2>1, <2>2, <2>3, SameRegistry
<1>12. Keeps(Registry, r)
  BY <1>2, <1>3, <1>7, <1>9, <1>10 DEF Keeps, x
<1>13. handler' \in [Conns -> Request] /\ HandlerInv' /\ QuietStep
  BY <1>1, <1>2, <1>3, QuietSame
<1> QED
  BY <1>1, <1>2, <1>10, <1>11, <1>12, <1>13, <1>14, RegistryStep

LEMMA CreateQueueStep ==
    ASSUME IInv, NEW c \in Conns, NEW q \in QNames, NEW k \in QueueKind, MayStart(c), Started(c), CreateQueue(c, q, k)
    PROVE  IInv'
<1> DEFINE h == [Idle EXCEPT !.pc = "declared", !.q = q]
<1>1. /\ up /\ handler[c] = Idle
      /\ conn' \in [Conns -> {"open", "closing", "closed"}] /\ requests' \in 0..MaxRequests
  BY StartedTypes DEF IInv
<1>2. up' /\ UNCHANGED <<fresh, ghosts, exposed>> /\ Goto(c, h)
  BY <1>1 DEF CreateQueue, ghosts
<1>3. /\ Registry \in RegistryType /\ RegistryInv(Registry, adrift) /\ born \in Nat
      /\ Registry.ex = exchanges /\ Registry.qu = queues /\ Registry.xf = exFiles /\ Registry.qf = qFiles
  BY <1>1, RegistryNow
<1>4. h \in Request /\ (\A n \in Nat : HandlerOf(h, n)) /\ Quiet(h) /\ Quiet(Idle)
  BY DEF Idle, Request, HandlerOf, Quiet
<1> HIDE DEF h
<1>5. CASE queues[q] # None
  <2>1. UNCHANGED <<born, exchanges, queues, exFiles, qFiles, leaked, adrift>>
    BY <1>5 DEF CreateQueue
  <2>2. Become(Registry, {})
    BY <1>1, <1>2, <2>1, RegistryNow
  <2>3. handler' \in [Conns -> Request] /\ HandlerInv' /\ QuietStep
    BY <1>1, <1>2, <1>3, <1>4, <2>1, QuietGoto
  <2> QED
    BY <1>1, <1>2, <1>3, <2>1, <2>2, <2>3, KeepsSame, RegistryStep
<1>6. CASE queues[q] = None
  <2> DEFINE old == Listing(Registry, q)
             file == [kind |-> k, messages |-> old]
             x == NewQueue(k, c, born + 1)
             Q == [queues EXCEPT ![q] = x]
             G == IF k.durable THEN [qFiles EXCEPT ![q] = file] ELSE qFiles
             r == [Registry EXCEPT !.qu = Q, !.qf = G]
  <2>1. born < MaxBorn /\ born' = born + 1 /\ Become(WithQueue(Registry, q, x), {})
    BY <1>6 DEF CreateQueue
  <2>2. leaked' = leaked \union {<<q, m>> : m \in old}
    BY <1>6 DEF CreateQueue
  <2>3. Become(r, {})
    <3>1. x.kind = k
      BY DEF NewQueue
    <3> HIDE DEF x
    <3>2. WithQueue(Registry, q, x) = r
      BY <1>3, <3>1 DEF WithQueue, RegistryType
    <3> QED
      BY <2>1, <3>2
  <2>4. born' \in 0..MaxBorn /\ born' \in 1..MaxBorn /\ born' \in Nat /\ born <= born'
    BY <1>3, <2>1, VHostAssumption
  <2>5. x \in QueueObject /\ x.kind = k /\ x.born = born + 1 /\ x.held = {} /\ x.consumed = FALSE
    <3> DEFINE o == IF k.exclusive THEN c ELSE None
    <3>1. o \in Conns \union {None} /\ born + 1 \in 1..MaxBorn
      BY <2>1, <2>4
    <3>2. x = [kind |-> k, owner |-> o, born |-> born + 1, held |-> {}, consumers |-> {}, consumed |-> FALSE]
      BY DEF NewQueue
    <3> HIDE DEF o, x
    <3> QED
      BY <3>1, <3>2 DEF QueueObject
  <2>6. x # None
    BY <2>5, NoneAssumption
  <2> HIDE DEF x
  <2>7. old \in SUBSET Msgs
    BY <1>3 DEF RegistryType, QueueFile, Listing
  <2>8. (qFiles[q] = None /\ old = {}) \/ (qFiles[q] # None /\ old = qFiles[q].messages)
    BY DEF Listing, Registry
  <2> HIDE DEF old
  <2>9. file \in QueueFile /\ file.kind = k /\ file.messages = old
    BY <2>7 DEF QueueFile
  <2>10. file # None
    BY <2>9, NoneAssumption
  <2> HIDE DEF file
  <2>11. Q \in [QNames -> QueueObject \union {None}] /\ Q[q] = x /\ \A p \in QNames \ {q} : Q[p] = queues[p]
    BY <1>3, <2>5 DEF RegistryType
  <2>12. /\ G \in [QNames -> QueueFile \union {None}] /\ \A p \in QNames \ {q} : G[p] = qFiles[p]
         /\ k.durable => G[q] = file
         /\ ~k.durable => G[q] = qFiles[q]
    <3>1. CASE k.durable
      BY <1>3, <2>9, <3>1 DEF RegistryType
    <3>2. CASE ~k.durable
      BY <1>3, <3>2 DEF RegistryType
    <3> QED
      BY <3>1, <3>2
  <2> HIDE DEF Q, G
  <2>13. r \in RegistryType /\ r.ex = exchanges /\ r.qu = Q /\ r.xf = exFiles /\ r.qf = G
    BY <1>3, <2>11, <2>12 DEF RegistryType
  <2> HIDE DEF r
  <2>14. RegistryInv(r, adrift)
    <3>1. \A p \in QNames : queues[p] # None => SameQueue(queues[p], Q[p])
      BY <1>6, <2>11 DEF SameQueue
    <3>2. \A p \in QNames : AutoQu(Q[p]) /\ FileQu(Q[p], G[p], p \in adrift)
      <4> TAKE p \in QNames
      <4>1. AutoQu(queues[p]) /\ FileQu(queues[p], qFiles[p], p \in adrift)
        BY <1>3 DEF RegistryInv
      <4>2. CASE p # q
        BY <2>11, <2>12, <4>1, <4>2
      <4>3. CASE p = q
        <5>1. AutoQu(x)
          BY <2>5 DEF AutoQu
        <5>2. CASE k.durable
          BY <2>5, <2>6, <2>9, <2>10, <2>11, <2>12, <4>3, <5>1, <5>2 DEF FileQu
        <5>3. CASE ~k.durable
          BY <1>6, <2>5, <2>11, <2>12, <4>1, <4>3, <5>1, <5>3 DEF FileQu
        <5> QED
          BY <5>2, <5>3
      <4> QED
        BY <4>2, <4>3
    <3>3. \A p \in QNames : G[p] # None => G[p].kind.durable
      <4>1. \A p \in QNames : qFiles[p] # None => qFiles[p].kind.durable
        BY <1>3 DEF RegistryInv, FileKinds
      <4> QED
        BY <2>9, <2>12, <4>1
    <3> QED
      BY <1>3, <2>13, <3>1, <3>2, <3>3, SameRegistry
  <2>15. handler' \in [Conns -> Request] /\ HandlerInv' /\ QuietStep
    BY <1>1, <1>2, <1>4, <2>4, QuietGoto
  <2>16. leaked' \in SUBSET (QNames \X Msgs) /\ (\A m \in old : <<q, m>> \in leaked')
         /\ \A p \in QNames, m \in Msgs : <<p, m>> \in leaked => <<p, m>> \in leaked'
    BY <2>2, <2>7 DEF IInv, TypeOK
  <2>22. /\ exchanges' = exchanges /\ queues' = Q
         /\ exchanges' \in [AllNames -> ExchangeObject \union {None}]
         /\ exFiles' \in [ExNames -> ExchangeFile \union {None}]
         /\ qFiles' \in [QNames -> QueueFile \union {None}]
         /\ \A p \in QNames : qFiles'[p] = G[p] \/ qFiles'[p] = qFiles[p]
         /\ adrift \subseteq adrift' /\ adrift' \subseteq AllNames \union QNames
         /\ RegistryInv(Registry', adrift') /\ FilesInv'
    <3>1. {} \in SUBSET (AllNames \union QNames) /\ RegistryInv(r, adrift \union {})
      <4>1. adrift \union {} = adrift
        OBVIOUS
      <4> QED
        BY <2>14, <4>1
    <3> QED
      BY <2>3, <2>13, <3>1, BecomeStep DEF IInv
  <2>17. TypeOK'
    BY <1>1, <1>2, <2>4, <2>11, <2>15, <2>16, <2>22 DEF IInv, TypeOK, ghosts, AllNames
  <2>18. RegInv'
    BY <2>22 DEF RegInv
  <2>20. BornInv'
    <3> SUFFICES ASSUME NEW p \in QNames, queues'[p] # None
                 PROVE  queues'[p].born <= born'
      BY DEF BornInv
    <3>1. CASE p = q
      BY <2>1, <2>4, <2>5, <2>11, <2>22, <3>1
    <3>2. CASE p # q
      <4>1. queues'[p] = queues[p] /\ (queues[p] # None => queues[p].born <= born)
        BY <2>11, <2>22, <3>2 DEF IInv, BornInv
      <4>2. queues[p] # None => queues[p].born \in Nat
        BY VHostAssumption DEF IInv, TypeOK, QueueObject
      <4> QED
        BY <1>3, <2>1, <4>1, <4>2
    <3> QED
      BY <3>1, <3>2
  <2>21. MsgInv'
    <3>1. \A p \in QNames : queues'[p] = None \/ Stays(p) \/ Appears(p)
      <4> TAKE p \in QNames
      <4>1. CASE p = q
        <5>1. queues'[p] = x /\ (k.durable /\ qFiles'[p] # None => qFiles'[p].messages = old)
          BY <2>8, <2>9, <2>11, <2>12, <2>22, <4>1
        <5> QED
          BY <1>3, <2>5, <2>16, <4>1, <5>1 DEF Appears
      <4>2. CASE p # q
        BY <2>11, <2>12, <2>16, <2>22, <4>2 DEF Stays
      <4> QED
        BY <4>1, <4>2
    <3>2. \A p \in QNames : qFiles'[p] = None \/ qFiles'[p].messages = {}
                                \/ (qFiles[p] # None /\ qFiles'[p].messages = qFiles[p].messages)
      BY <2>8, <2>9, <2>12, <2>22
    <3> QED
      BY <1>1, <1>2, <2>15, <2>17, <2>18, <2>22, <3>1, <3>2, QuietMessages DEF IInv, ghosts
  <2> QED
    BY <2>15, <2>17, <2>18, <2>20, <2>21, <2>22 DEF IInv
<1> QED
  BY <1>5, <1>6

-----------------------------------------------------------------------------
(* The messages.  What a handler does with them changes neither the        *)
(* exchanges nor which queues and files there are.                         *)
SameObjects ==
    /\ UNCHANGED <<exchanges, exFiles, adrift, born>>
    /\ \A q \in QNames :
        /\ queues'[q] = None <=> queues[q] = None
        /\ queues[q] # None => /\ queues'[q].kind = queues[q].kind /\ queues'[q].born = queues[q].born
                               /\ queues'[q].consumers = queues[q].consumers
                               /\ queues'[q].consumed = queues[q].consumed
        /\ qFiles'[q] = None <=> qFiles[q] = None
        /\ qFiles[q] # None => qFiles'[q].kind = qFiles[q].kind

LEMMA MessageStep ==
    ASSUME IInv, up, up', TypeOK', SameObjects
    PROVE  RegInv' /\ FilesInv' /\ BornInv'
<1>1. /\ Registry \in RegistryType /\ RegistryInv(Registry, adrift)
      /\ Registry.ex = exchanges /\ Registry.qu = queues /\ Registry.xf = exFiles /\ Registry.qf = qFiles
  BY RegistryNow
<1>2. /\ Registry' \in RegistryType
      /\ Registry'.ex = exchanges' /\ Registry'.qu = queues' /\ Registry'.xf = exFiles' /\ Registry'.qf = qFiles'
  BY DEF TypeOK, Registry, RegistryType, AllNames
<1>6. \A q \in QNames : qFiles'[q] # None => qFiles'[q].kind.durable
  BY <1>1 DEF RegistryInv, FileKinds, SameObjects
<1>3. RegInv'
  <2>1. \A q \in QNames : queues[q] # None => SameQueue(queues[q], queues'[q])
    BY DEF SameObjects, SameQueue
  <2>2. \A q \in QNames : AutoQu(queues'[q]) /\ FileQu(queues'[q], qFiles'[q], q \in adrift)
    <3> TAKE q \in QNames
    <3>1. AutoQu(queues[q]) /\ FileQu(queues[q], qFiles[q], q \in adrift)
      BY <1>1 DEF RegistryInv
    <3> QED
      BY <3>1 DEF AutoQu, FileQu, SameObjects
  <2>3. Registry'.ex = Registry.ex /\ Registry'.xf = Registry.xf
    BY <1>1, <1>2 DEF SameObjects
  <2>4. RegistryInv(Registry', adrift)
    BY <1>1, <1>2, <1>6, <2>1, <2>2, <2>3, SameRegistry
  <2> QED
    BY <2>4 DEF RegInv, SameObjects
<1>4. FilesInv'
  BY <1>3 DEF RegInv, RegistryInv, FilesInv
<1>5. BornInv'
  BY DEF IInv, BornInv, SameObjects
<1> QED
  BY <1>3, <1>4, <1>5

(* What makes the two invariants of a message easier to keep. *)
LEMMA OnDiskMono ==
    ASSUME NEW q \in QNames, NEW m \in Msgs, OnDisk(q, m),
           m \in queues'[q].held => m \in queues[q].held,
           InFile(q, m) => InFile(q, m)',
           \A c \in Conns : (Pushing(c, q, m)' => Pushing(c, q, m)) /\ (Taken(c, q, m)' => Taken(c, q, m))
    PROVE  OnDisk(q, m)'
  BY DEF OnDisk

LEMMA AccountedMono ==
    ASSUME NEW q \in QNames, NEW m \in Msgs, Accounted(q, m),
           m \in queues[q].held => m \in queues'[q].held,
           <<q, m>> \in leaked => <<q, m>> \in leaked',
           \A c \in Conns : (Pushing(c, q, m) => Pushing(c, q, m)') /\ (WillRemove(c, q, m) => WillRemove(c, q, m)')
    PROVE  Accounted(q, m)'
  BY DEF Accounted

LEMMA OtherTokens ==
    ASSUME NEW d \in Conns, handler'[d] = handler[d], NEW q \in QNames, NEW m
    PROVE  /\ Taken(d, q, m)' <=> Taken(d, q, m)
           /\ WillRemove(d, q, m)' <=> WillRemove(d, q, m)
           /\ queues'[q].born = queues[q].born => (Pushing(d, q, m)' <=> Pushing(d, q, m))
  BY DEF Taken, WillRemove, Pushing

LEMMA IdleTokens ==
    ASSUME NEW c \in Conns, handler[c] = Idle, NEW q \in QNames, NEW m \in Msgs
    PROVE  ~Taken(c, q, m) /\ ~WillRemove(c, q, m) /\ ~Pushing(c, q, m)
  BY NoneAssumption DEF Taken, WillRemove, Pushing, Idle

(* Messages in a queue's file. *)
LEMMA FileMessages ==
    ASSUME TypeOK, RegInv, up, NEW q \in QNames, queues[q] # None, queues[q].kind.durable, q \notin adrift
    PROVE  qFiles[q] # None /\ qFiles[q].messages \in SUBSET Msgs
<1>1. FileQu(queues[q], qFiles[q], q \in adrift)
  BY DEF RegInv, RegistryInv, Registry
<1> QED
  BY <1>1 DEF FileQu, TypeOK, QueueFile

(* Bindings lead to the queues there are now. *)
LEMMA RouteFacts ==
    ASSUME TypeOK, RegInv, up, NEW e \in AllNames, NEW key
    PROVE  /\ Route(e, key) \in SUBSET (QNames \X (1..MaxBorn))
           /\ \A t \in Route(e, key) : /\ t[1] \in QNames /\ queues[t[1]] # None
                                       /\ t = <<t[1], queues[t[1]].born>>
<1>1. CASE exchanges[e] = None
  BY <1>1 DEF Route, Exists, Registry
<1>2. CASE exchanges[e] # None
  <2> DEFINE x == exchanges[e]
             S == CASE exchanges[e].kind.typ = "direct" -> {b \in exchanges[e].bindings : b.key = key}
                    [] exchanges[e].kind.typ = "fanout" -> exchanges[e].bindings
                    [] exchanges[e].kind.typ = "topic" -> {b \in exchanges[e].bindings : MatchTopic(key, b.key)}
  <2>1. x \in ExchangeObject
    BY <1>2 DEF TypeOK, AllNames
  <2>2. x.kind.typ = "direct" \/ x.kind.typ = "fanout" \/ x.kind.typ = "topic"
    BY <2>1 DEF ExchangeObject, ExchangeKind, Types
  <2>3. S \subseteq x.bindings
    <3>1. CASE x.kind.typ = "direct"
      BY <3>1
    <3>2. CASE x.kind.typ = "fanout"
      BY <3>2
    <3>3. CASE x.kind.typ = "topic"
      BY <3>3
    <3> QED
      BY <2>2, <3>1, <3>2, <3>3
  <2>4. Route(e, key) = {<<b.queue, b.born>> : b \in S}
    BY <1>2 DEF Route, Exists, Registry
  <2> HIDE DEF S
  <2>5. LiveEx(x, queues)
    BY DEF RegInv, RegistryInv, Registry
  <2>6. ASSUME NEW b \in S
        PROVE  /\ b.queue \in QNames /\ b.born \in 1..MaxBorn
               /\ queues[b.queue] # None /\ queues[b.queue].born = b.born
    BY <1>2, <2>1, <2>3, <2>5 DEF LiveEx, ExchangeObject, Binding
  <2> HIDE DEF x
  <2> QED
    BY <2>4, <2>6
<1> QED
  BY <1>1, <1>2

LEMMA DurableFacts ==
    ASSUME NEW T, \A t \in T : t[1] \in QNames
    PROVE  /\ Durable(T) \in SUBSET QNames /\ Savable(T) \in SUBSET Durable(T)
           /\ \A q \in Savable(T) : qFiles[q] # None
           /\ \A q \in Durable(T) : /\ \E t \in T : t[1] = q
                                    /\ queues[q] # None /\ queues[q].kind.durable
           /\ \A t \in T : queues[t[1]] # None /\ queues[t[1]].kind.durable => t[1] \in Durable(T)
  BY DEF Durable, Savable

LEMMA SavedFacts ==
    ASSUME TypeOK, NEW Q \in SUBSET QNames, \A q \in Q : qFiles[q] # None, NEW m \in Msgs
    PROVE  /\ Saved(Q, m) \in [QNames -> QueueFile \union {None}]
           /\ \A q \in QNames \ Q : Saved(Q, m)[q] = qFiles[q]
           /\ \A q \in Q : /\ Saved(Q, m)[q] # None /\ Saved(Q, m)[q].kind = qFiles[q].kind
                           /\ Saved(Q, m)[q].messages = qFiles[q].messages \union {m}
<1> DEFINE G == [q \in QNames |-> IF q \in Q THEN [qFiles[q] EXCEPT !.messages = @ \union {m}] ELSE qFiles[q]]
<1>1. Saved(Q, m) = G /\ DOMAIN G = QNames /\ G = [q \in QNames |-> G[q]]
  BY DEF Saved
<1>2. ASSUME NEW q \in Q
      PROVE  G[q] \in QueueFile /\ G[q] # None /\ G[q].kind = qFiles[q].kind
             /\ G[q].messages = qFiles[q].messages \union {m}
  <2> DEFINE f == qFiles[q]
             g == [f EXCEPT !.messages = f.messages \union {m}]
  <2>1. f \in QueueFile
    BY DEF TypeOK
  <2>2. G[q] = g
    OBVIOUS
  <2>3. f.messages \union {m} \in SUBSET Msgs
    BY <2>1 DEF QueueFile
  <2> HIDE DEF f
  <2>4. g \in QueueFile /\ g.kind = f.kind /\ g.messages = f.messages \union {m}
    BY <2>1, <2>3 DEF QueueFile
  <2>5. g # None
    BY <2>4, NoneAssumption
  <2> HIDE DEF g, G
  <2> QED
    BY <2>2, <2>4, <2>5 DEF f
<1>3. \A q \in QNames \ Q : G[q] = qFiles[q] /\ G[q] \in QueueFile \union {None}
  BY DEF TypeOK
<1> HIDE DEF G
<1> QED
  BY <1>1, <1>2, <1>3

SavedTo(Q, m) ==
    /\ qFiles' \in [QNames -> QueueFile \union {None}]
    /\ \A q \in QNames \ Q : qFiles'[q] = qFiles[q]
    /\ \A q \in Q : /\ qFiles'[q] # None /\ qFiles'[q].kind = qFiles[q].kind
                    /\ qFiles'[q].messages = qFiles[q].messages \union {m}

LEMMA SavedStep ==
    ASSUME TypeOK, NEW Q \in SUBSET QNames, \A q \in Q : qFiles[q] # None, NEW m \in Msgs, qFiles' = Saved(Q, m)
    PROVE  SavedTo(Q, m)
<1> DEFINE G == Saved(Q, m)
<1>1. /\ G \in [QNames -> QueueFile \union {None}]
      /\ \A q \in QNames \ Q : G[q] = qFiles[q]
      /\ \A q \in Q : /\ G[q] # None /\ G[q].kind = qFiles[q].kind
                      /\ G[q].messages = qFiles[q].messages \union {m}
  BY SavedFacts, Zenon
<1> HIDE DEF G
<1>2. qFiles' = G
  BY DEF G
<1> QED
  BY <1>1, <1>2 DEF SavedTo

LEMMA RemovedFacts ==
    ASSUME TypeOK, NEW q \in QNames, NEW m
    PROVE  /\ Removed(q, m) \in [QNames -> QueueFile \union {None}]
           /\ \A p \in QNames \ {q} : Removed(q, m)[p] = qFiles[p]
           /\ qFiles[q] = None => Removed(q, m)[q] = None
           /\ qFiles[q] # None => /\ Removed(q, m)[q] # None /\ Removed(q, m)[q].kind = qFiles[q].kind
                                  /\ Removed(q, m)[q].messages = qFiles[q].messages \ {m}
<1> DEFINE f == qFiles[q]
           g == [f EXCEPT !.messages = f.messages \ {m}]
<1>1. CASE f = None
  BY <1>1 DEF Removed, TypeOK
<1>2. CASE f # None
  <2>1. f \in QueueFile
    BY <1>2 DEF TypeOK
  <2>2. Removed(q, m) = [qFiles EXCEPT ![q] = g]
    BY <1>2 DEF Removed, TypeOK
  <2>3. f.messages \ {m} \in SUBSET Msgs
    BY <2>1 DEF QueueFile
  <2>4. g \in QueueFile /\ g.kind = f.kind /\ g.messages = f.messages \ {m}
    BY <2>1, <2>3 DEF QueueFile
  <2>5. g # None
    BY <2>4, NoneAssumption
  <2> HIDE DEF g
  <2>6. Removed(q, m) \in [QNames -> QueueFile \union {None}] /\ Removed(q, m)[q] = g
        /\ \A p \in QNames \ {q} : Removed(q, m)[p] = qFiles[p]
    BY <2>2, <2>4 DEF TypeOK
  <2> QED
    BY <1>2, <2>4, <2>5, <2>6
<1> QED
  BY <1>1, <1>2

(* A queue object whose messages change. *)
LEMMA HeldFacts ==
    ASSUME TypeOK, NEW q \in QNames, queues[q] # None, NEW H \in SUBSET Msgs,
           queues' = [queues EXCEPT ![q] = [queues[q] EXCEPT !.held = H]]
    PROVE  /\ queues' \in [QNames -> QueueObject \union {None}]
           /\ \A p \in QNames \ {q} : queues'[p] = queues[p]
           /\ queues'[q] # None /\ queues'[q].kind = queues[q].kind /\ queues'[q].born = queues[q].born
           /\ queues'[q].consumers = queues[q].consumers /\ queues'[q].consumed = queues[q].consumed
           /\ queues'[q].held = H
<1> DEFINE x == queues[q]
           y == [x EXCEPT !.held = H]
<1>1. x \in QueueObject
  BY DEF TypeOK
<1>2. queues' = [queues EXCEPT ![q] = y]
  OBVIOUS
<1>3. /\ y \in QueueObject /\ y.kind = x.kind /\ y.born = x.born /\ y.consumers = x.consumers
      /\ y.consumed = x.consumed /\ y.held = H
  BY <1>1 DEF QueueObject
<1>4. y # None
  BY <1>3, NoneAssumption
<1> HIDE DEF y
<1> QED
  BY <1>2, <1>3, <1>4 DEF TypeOK

(* A message is taken from its queue: the handler that took it will remove *)
(* it from the file, or it is left there.                                  *)
LEMMA TakeStep ==
    ASSUME IInv, NEW c \in Conns, NEW q \in QNames, NEW m \in Msgs, MayStart(c), Started(c),
           Holds(q, m), TakeFrom(q, m), NEW h \in Request, HandlerOf(h, born), Goto(c, h),
           UNCHANGED <<exchanges, exFiles, qFiles, born, fresh, adrift, crashes, up>>,
           exposed \subseteq exposed', exposed' \subseteq QNames \X Msgs, \A t \in h.back : <<t[1], h.m>> \in exposed',
           h.to = {}, h.m = None \/ (h.m = m /\ h.q = q),
           leaked' = leaked \/ leaked' = leaked \union {<<q, m>>},
           queues[q].kind.durable => \/ <<q, m>> \in leaked'
                                     \/ h.m = m /\ h.q = q /\ h.pc \in {"discarding", "removing"}
    PROVE  IInv'
<1>1. /\ up /\ handler[c] = Idle /\ up'
      /\ conn' \in [Conns -> {"open", "closing", "closed"}] /\ requests' \in 0..MaxRequests
  BY StartedTypes DEF IInv
<1>2. /\ born \in Nat /\ born' \in Nat /\ born' = born /\ born <= born' /\ UNCHANGED <<fresh, adrift, qFiles>>
      /\ HandlerOf(h, born')
  BY <1>1, RegistryNow
<1>3. /\ handler' \in [Conns -> Request] /\ HandlerInv'
      /\ handler'[c] = h /\ \A d \in Conns \ {c} : handler'[d] = handler[d]
  BY <1>1, <1>2, GotoStep DEF IInv
<1>4. /\ queues' \in [QNames -> QueueObject \union {None}]
      /\ \A p \in QNames \ {q} : queues'[p] = queues[p]
      /\ queues'[q] # None /\ queues'[q].kind = queues[q].kind /\ queues'[q].born = queues[q].born
      /\ queues'[q].consumers = queues[q].consumers /\ queues'[q].consumed = queues[q].consumed
      /\ queues'[q].held \subseteq queues[q].held /\ queues[q].held \ {m} \subseteq queues'[q].held
      /\ m \notin queues'[q].held \/ <<q, m>> \in exposed
      /\ queues[q] # None /\ m \in queues[q].held
  <2> DEFINE H == queues[q].held \ {m}
  <2>1. queues[q] # None /\ m \in queues[q].held
    BY DEF Holds
  <2>2. H \in SUBSET Msgs
    BY <2>1 DEF IInv, TypeOK, QueueObject
  <2>3. \/ queues' = [queues EXCEPT ![q] = [queues[q] EXCEPT !.held = H]]
        \/ <<q, m>> \in exposed /\ UNCHANGED queues
    BY DEF TakeFrom, IInv, TypeOK
  <2> HIDE DEF H
  <2>4. CASE queues' = [queues EXCEPT ![q] = [queues[q] EXCEPT !.held = H]]
    <3>1. /\ queues' \in [QNames -> QueueObject \union {None}]
          /\ \A p \in QNames \ {q} : queues'[p] = queues[p]
          /\ queues'[q] # None /\ queues'[q].kind = queues[q].kind /\ queues'[q].born = queues[q].born
          /\ queues'[q].consumers = queues[q].consumers /\ queues'[q].consumed = queues[q].consumed
          /\ queues'[q].held = H
      BY <2>1, <2>2, <2>4, HeldFacts DEF IInv
    <3> QED
      BY <2>1, <3>1 DEF H
  <2>5. CASE <<q, m>> \in exposed /\ UNCHANGED queues
    BY <2>1, <2>5 DEF IInv, TypeOK
  <2> QED
    BY <2>3, <2>4, <2>5
<1>5. leaked' \in SUBSET (QNames \X Msgs) /\ \A l \in leaked : l \in leaked'
  BY DEF IInv, TypeOK
<1>6. TypeOK'
  BY <1>1, <1>3, <1>4, <1>5 DEF IInv, TypeOK
<1>7. SameObjects
  BY <1>4 DEF SameObjects
<1>8. RegInv' /\ FilesInv' /\ BornInv'
  BY <1>1, <1>6, <1>7, MessageStep
<1>9. FreshInv'
  <2> SUFFICES ASSUME NEW n \in fresh'
               PROVE  /\ \A d \in Conns : handler'[d].m # n
                      /\ \A p \in QNames : queues'[p] # None => n \notin queues'[p].held
                      /\ \A p \in QNames : qFiles'[p] # None => n \notin qFiles'[p].messages
    BY DEF FreshInv
  <2>1. n \in fresh /\ n # None
    BY <1>2, NoneAssumption DEF IInv, TypeOK
  <2>2. /\ \A d \in Conns : handler[d].m # n
        /\ \A p \in QNames : queues[p] # None => n \notin queues[p].held
        /\ \A p \in QNames : qFiles[p] # None => n \notin qFiles[p].messages
    BY <2>1 DEF IInv, MsgInv, FreshInv
  <2>3. n # m
    BY <1>4, <2>2
  <2> QED
    BY <1>2, <1>3, <1>4, <2>1, <2>2, <2>3
<1>10. ASSUME NEW p \in QNames, NEW n \in Msgs
       PROVE  /\ \A d \in Conns : Pushing(d, p, n)' <=> Pushing(d, p, n)
              /\ \A d \in Conns : Taken(d, p, n)' => Taken(d, p, n) \/ (p = q /\ n = m)
              /\ \A d \in Conns : WillRemove(d, p, n) => WillRemove(d, p, n)'
  <2> SUFFICES ASSUME NEW d \in Conns
               PROVE  /\ Pushing(d, p, n)' <=> Pushing(d, p, n)
                      /\ Taken(d, p, n)' => Taken(d, p, n) \/ (p = q /\ n = m)
                      /\ WillRemove(d, p, n) => WillRemove(d, p, n)'
    OBVIOUS
  <2>1. queues'[p].born = queues[p].born
    BY <1>4
  <2>2. CASE d # c
    BY <1>3, <2>1, <2>2, OtherTokens
  <2>3. CASE d = c
    <3>1. ~Taken(d, p, n) /\ ~WillRemove(d, p, n) /\ ~Pushing(d, p, n)
      BY <1>1, <2>3, IdleTokens
    <3>2. ~Pushing(d, p, n)'
      BY <1>3, <2>3 DEF Pushing
    <3>3. Taken(d, p, n)' => p = q /\ n = m
      BY <1>3, <2>3, NoneAssumption DEF Taken
    <3> QED
      BY <3>1, <3>2, <3>3
  <2> QED
    BY <2>2, <2>3
<1>11. DiskInv'
  <2> SUFFICES ASSUME NEW p \in QNames, queues'[p] # None, queues'[p].kind.durable,
                      NEW n \in Msgs, <<p, n>> \notin exposed'
               PROVE  OnDisk(p, n)'
    BY DEF DiskInv
  <2>0. <<p, n>> \notin exposed
    OBVIOUS
  <2>1. OnDisk(p, n)
    BY <1>1, <1>2, <1>4, <2>0 DEF IInv, MsgInv, DiskInv
  <2>2. CASE p = q /\ n = m
    <3>1. n \notin queues'[p].held /\ n \in queues[p].held
      BY <1>4, <2>0, <2>2
    <3>2. \A d \in Conns : ~Pushing(d, p, n)
      BY <2>1, <3>1 DEF OnDisk
    <3>3. \A d \in Conns : ~Pushing(d, p, n)'
      BY <1>10, <3>2
    <3> QED
      BY <3>1, <3>3 DEF OnDisk
  <2>3. CASE ~(p = q /\ n = m)
    <3>1. n \in queues'[p].held => n \in queues[p].held
      BY <1>4
    <3>2. \A d \in Conns : (Pushing(d, p, n)' => Pushing(d, p, n)) /\ (Taken(d, p, n)' => Taken(d, p, n))
      BY <1>10, <2>3
    <3>3. InFile(p, n) => InFile(p, n)'
      BY <1>2 DEF InFile
    <3> QED
      BY <2>1, <3>1, <3>2, <3>3, OnDiskMono
  <2> QED
    BY <2>2, <2>3
<1>12. AccountedInv'
  <2> SUFFICES ASSUME NEW p \in QNames, queues'[p] # None, queues'[p].kind.durable, p \notin adrift',
                      NEW n \in qFiles'[p].messages
               PROVE  Accounted(p, n)'
    BY DEF AccountedInv
  <2>1. queues[p] # None /\ queues[p].kind.durable
    BY <1>4
  <2>2. n \in Msgs
    BY <1>1, <1>2, <2>1, FileMessages DEF IInv
  <2>3. Accounted(p, n)
    BY <1>1, <1>2, <2>1 DEF IInv, MsgInv, AccountedInv
  <2>4. CASE p = q /\ n = m
    <3>1. CASE <<q, m>> \in leaked'
      BY <2>4, <3>1 DEF Accounted
    <3>2. CASE h.m = m /\ h.q = q /\ h.pc \in {"discarding", "removing"}
      <4>1. WillRemove(c, p, n)'
        BY <1>3, <2>4, <3>2 DEF WillRemove, Taken
      <4> QED
        BY <4>1 DEF Accounted
    <3> QED
      BY <2>1, <2>4, <3>1, <3>2
  <2>5. CASE ~(p = q /\ n = m)
    <3>1. n \in queues[p].held => n \in queues'[p].held
      BY <1>4, <2>5
    <3>2. \A d \in Conns : (Pushing(d, p, n) => Pushing(d, p, n)') /\ (WillRemove(d, p, n) => WillRemove(d, p, n)')
      BY <1>10, <2>2
    <3> QED
      BY <1>5, <2>2, <2>3, <3>1, <3>2, AccountedMono
  <2> QED
    BY <2>4, <2>5
<1> QED
  BY <1>3, <1>6, <1>8, <1>9, <1>11, <1>12 DEF IInv, MsgInv

LEMMA SettleStep ==
    ASSUME IInv, NEW c \in Conns, NEW q \in QNames, NEW m \in Msgs, Settle(c, q, m)
    PROVE  IInv'
<1> DEFINE h == [Idle EXCEPT !.pc = "removing", !.q = q, !.m = m]
<1>1. h \in Request /\ HandlerOf(h, born) /\ h.to = {} /\ h.m = m /\ h.q = q /\ h.pc = "removing"
  BY DEF Idle, Request, HandlerOf
<1>2. Goto(c, h)
  BY DEF Settle
<1>3. h.back = {} /\ exposed' = exposed /\ exposed \subseteq QNames \X Msgs
  BY DEF Idle, Settle, ghosts, IInv, TypeOK
<1> HIDE DEF h
<1> QED
  BY <1>1, <1>2, <1>3, TakeStep DEF Settle, ghosts

LEMMA GetNoAckStep ==
    ASSUME IInv, NEW c \in Conns, NEW q \in QNames, NEW m \in Msgs, GetNoAck(c, q, m)
    PROVE  IInv'
<1>1. handler[c] = Idle
  BY StartedTypes DEF GetNoAck, IInv
<1>2. Goto(c, Idle)
  BY <1>1 DEF GetNoAck, Goto, IInv, TypeOK
<1>3. HandlerOf(Idle, born) /\ Idle \in Request /\ Idle.to = {} /\ Idle.m = None /\ Idle.back = {}
  BY IdleFacts DEF HandlerOf, Idle
<1>4. leaked' = leaked \/ leaked' = leaked \union {<<q, m>>}
  BY DEF GetNoAck
<1>5. queues[q].kind.durable => <<q, m>> \in leaked'
  BY DEF GetNoAck
<1>6. /\ MayStart(c) /\ Started(c) /\ Holds(q, m) /\ TakeFrom(q, m)
      /\ UNCHANGED <<exchanges, exFiles, qFiles, born, fresh, adrift, crashes, up>>
      /\ exposed' = exposed /\ exposed \subseteq QNames \X Msgs
  BY DEF GetNoAck, ghosts, IInv, TypeOK
<1> QED
  BY <1>2, <1>3, <1>4, <1>5, <1>6, TakeStep

LEMMA DiscardStep ==
    ASSUME IInv, NEW c \in Conns, NEW q \in QNames, NEW m \in Msgs, NEW flags \in {{}, {"remove"}}, Discard(c, q, m, flags)
    PROVE  IInv'
<1> DEFINE e == queues[q].kind.dlx
           h == [Idle EXCEPT !.pc = "discarding", !.q = q, !.e = e, !.m = m, !.flags = flags]
<1>1. e \in ExNames
  <2>1. queues[q] # None /\ e # None
    BY DEF Discard, Holds
  <2> QED
    BY <2>1 DEF IInv, TypeOK, QueueObject, QueueKind
<1>2. Goto(c, h)
  BY DEF Discard
<1> HIDE DEF e
<1>3. flags \in SUBSET {"if-unused", "if-empty", "remove"}
  OBVIOUS
<1>4. /\ h \in Request /\ HandlerOf(h, born) /\ h.to = {} /\ h.m = m /\ h.q = q /\ h.pc = "discarding"
      /\ h.back = {}
  BY <1>1, <1>3 DEF Idle, Request, HandlerOf
<1>5. exposed' = exposed /\ exposed \subseteq QNames \X Msgs
  BY DEF Discard, ghosts, IInv, TypeOK
<1> HIDE DEF h
<1> QED
  BY <1>2, <1>4, <1>5, TakeStep DEF Discard, ghosts

LEMMA RequeueExpiredStep ==
    ASSUME IInv, NEW c \in Conns, NEW q \in QNames, NEW m \in Msgs, RequeueExpired(c, q, m)
    PROVE  IInv'
<1> DEFINE e == queues[q].kind.dlx
           n == queues[q].born
           pc == IF e # None THEN "discarding" ELSE "removing"
           B == {<<q, n>>}
           h == [Idle EXCEPT !.pc = pc, !.q = q, !.e = e, !.m = m, !.flags = {"remove"}, !.back = B]
<1>1. Goto(c, h) /\ exposed' = exposed \union {<<q, m>>} /\ queues[q] # None
  BY DEF RequeueExpired, Holds
<1>2. e \in ExNames \union {None} /\ n \in 1..MaxBorn /\ n <= born
  <2>1. queues[q] \in QueueObject
    BY <1>1 DEF IInv, TypeOK
  <2> QED
    BY <1>1, <2>1 DEF QueueObject, QueueKind, IInv, BornInv
<1> HIDE DEF e, n
<1>3. B \in SUBSET (QNames \X (1..MaxBorn)) /\ \A t \in B : t[1] = q /\ t[2] <= born
  BY <1>2
<1>4. pc \in {"discarding", "removing"} /\ (pc = "discarding" => e \in ExNames)
  BY <1>2
<1> HIDE DEF B, pc
<1>5. /\ h \in Request /\ h.to = {} /\ h.m = m /\ h.q = q /\ h.pc = pc /\ h.back = B /\ h.e = e
      /\ h.flags = {"remove"}
  BY <1>2, <1>3, <1>4 DEF Idle, Request
<1> HIDE DEF h
<1>6. HandlerOf(h, born)
  BY <1>3, <1>4, <1>5 DEF HandlerOf
<1>7. exposed \subseteq exposed' /\ exposed' \subseteq QNames \X Msgs /\ \A t \in h.back : <<t[1], h.m>> \in exposed'
  BY <1>1, <1>3, <1>5 DEF IInv, TypeOK
<1> QED
  BY <1>1, <1>4, <1>5, <1>6, <1>7, TakeStep DEF RequeueExpired

(* Parts of the message invariant, for one message. *)
LEMMA FreshFacts ==
    ASSUME TypeOK, FreshInv, NEW n \in fresh
    PROVE  /\ n \in Msgs /\ n # None
           /\ \A d \in Conns : handler[d].m # n
           /\ \A p \in QNames : queues[p] # None => n \notin queues[p].held
           /\ \A p \in QNames : qFiles[p] # None => n \notin qFiles[p].messages
  BY NoneAssumption DEF FreshInv, TypeOK

LEMMA FreshTokens ==
    ASSUME TypeOK, FreshInv, NEW n \in fresh, NEW d \in Conns, NEW p \in QNames
    PROVE  ~Taken(d, p, n) /\ ~WillRemove(d, p, n) /\ ~Pushing(d, p, n)
  BY FreshFacts DEF Taken, WillRemove, Pushing

LEMMA RemoveMessageStep ==
    ASSUME IInv, NEW c \in Conns, RemoveMessage(c)
    PROVE  IInv'
<1> DEFINE q == handler[c].q
           m == handler[c].m
           B == handler[c].back
           h == IF B = {} THEN Idle ELSE [Idle EXCEPT !.pc = "pushing", !.m = m, !.to = B]
<1>1. /\ up /\ up' /\ handler[c].pc = "removing" /\ Goto(c, h)
      /\ UNCHANGED <<conn, requests, exchanges, queues, exFiles, born, fresh, adrift, ghosts>>
  BY DEF RemoveMessage, At, Proceed, ghosts
<1>16. \/ qFiles' = Removed(q, m) /\ UNCHANGED leaked
       \/ leaked' = leaked \union {<<q, m>>} /\ UNCHANGED qFiles
  BY DEF RemoveMessage
<1>2. q \in QNames /\ m \in Msgs /\ handler[c].to = {}
  BY <1>1 DEF IInv, HandlerInv, HandlerOf
<1>3. born \in Nat /\ born' \in Nat /\ born' = born /\ born <= born' /\ UNCHANGED <<fresh, exposed, adrift, queues>>
  BY <1>1, RegistryNow DEF ghosts
<1>17. /\ B \in SUBSET (QNames \X (1..MaxBorn)) /\ (\A t \in B : t[2] <= born)
       /\ \A t \in B : <<t[1], m>> \in exposed
  BY DEF IInv, HandlerInv, HandlerOf, Backed, TypeOK, Request
<1>5. Taken(c, q, m)
  BY DEF Taken
<1>6. ASSUME NEW p \in QNames, NEW n \in Msgs, Taken(c, p, n) \/ WillRemove(c, p, n)
      PROVE  p = q /\ n = m
  BY <1>6 DEF Taken, WillRemove
<1>7. \A p \in QNames, n \in Msgs : ~Pushing(c, p, n)
  BY <1>2 DEF Pushing
<1> HIDE DEF q, m, B
<1>18. /\ h \in Request /\ HandlerOf(h, born) /\ h.q = None /\ h.back = {}
       /\ (h.to = {} \/ (h.to = B /\ h.m = m)) /\ h.m \in {m, None}
  <2>1. CASE B = {}
    BY <1>3, <2>1, IdleFacts
  <2>2. CASE B # {}
    BY <1>2, <1>17, <2>2 DEF Idle, Request, HandlerOf
  <2> QED
    BY <2>1, <2>2
<1>19. h.m \in {m, None}
  BY DEF Idle
<1> HIDE DEF h
<1>4. /\ handler' \in [Conns -> Request] /\ HandlerInv'
      /\ handler'[c] = h /\ \A d \in Conns \ {c} : handler'[d] = handler[d]
  BY <1>1, <1>3, <1>18, GotoStep DEF IInv
<1>8. /\ qFiles' \in [QNames -> QueueFile \union {None}]
      /\ \A p \in QNames : qFiles'[p] = None <=> qFiles[p] = None
      /\ \A p \in QNames : qFiles[p] # None =>
            /\ qFiles'[p].kind = qFiles[p].kind /\ qFiles'[p].messages \subseteq qFiles[p].messages
            /\ \A n \in qFiles[p].messages : n \in qFiles'[p].messages \/ (p = q /\ n = m)
      /\ qFiles[q] # None => m \notin qFiles'[q].messages \/ <<q, m>> \in leaked'
  <2>1. CASE qFiles' = Removed(q, m)
    <3>1. /\ qFiles' \in [QNames -> QueueFile \union {None}]
          /\ \A p \in QNames \ {q} : qFiles'[p] = qFiles[p]
          /\ qFiles[q] = None => qFiles'[q] = None
          /\ qFiles[q] # None => /\ qFiles'[q] # None /\ qFiles'[q].kind = qFiles[q].kind
                                 /\ qFiles'[q].messages = qFiles[q].messages \ {m}
      BY <1>2, <2>1, RemovedFacts DEF IInv
    <3> QED
      BY <1>2, <3>1
  <2>2. CASE leaked' = leaked \union {<<q, m>>} /\ UNCHANGED qFiles
    BY <2>2 DEF IInv, TypeOK
  <2> QED
    BY <1>16, <2>1, <2>2
<1>20. leaked' \in SUBSET (QNames \X Msgs) /\ \A l \in leaked : l \in leaked'
  BY <1>2, <1>16 DEF IInv, TypeOK
<1>9. TypeOK'
  BY <1>1, <1>4, <1>8, <1>20 DEF IInv, TypeOK, ghosts
<1>10. SameObjects
  BY <1>1, <1>3, <1>8 DEF SameObjects
<1>11. RegInv' /\ FilesInv' /\ BornInv'
  BY <1>1, <1>9, <1>10, MessageStep
<1>12. ASSUME NEW p \in QNames, NEW n \in Msgs
       PROVE  /\ \A d \in Conns : Pushing(d, p, n) => Pushing(d, p, n)'
              /\ \A d \in Conns : Pushing(d, p, n)' => Pushing(d, p, n) \/ <<p, n>> \in exposed
              /\ \A d \in Conns : Taken(d, p, n)' => Taken(d, p, n)
              /\ \A d \in Conns : WillRemove(d, p, n) => WillRemove(d, p, n)' \/ (p = q /\ n = m)
  <2> SUFFICES ASSUME NEW d \in Conns
               PROVE  /\ Pushing(d, p, n) => Pushing(d, p, n)'
                      /\ Pushing(d, p, n)' => Pushing(d, p, n) \/ <<p, n>> \in exposed
                      /\ Taken(d, p, n)' => Taken(d, p, n)
                      /\ WillRemove(d, p, n) => WillRemove(d, p, n)' \/ (p = q /\ n = m)
    OBVIOUS
  <2>1. queues'[p].born = queues[p].born
    BY <1>3
  <2>2. CASE d # c
    BY <1>4, <2>1, <2>2, OtherTokens
  <2>3. CASE d = c
    <3>1. ~Taken(d, p, n)'
      BY <1>4, <1>18, <2>3, NoneAssumption DEF Taken
    <3>2. Pushing(d, p, n)' => <<p, n>> \in exposed
      <4> SUFFICES ASSUME Pushing(d, p, n)'
                   PROVE  <<p, n>> \in exposed
        OBVIOUS
      <4>1. h.m = n /\ <<p, queues'[p].born>> \in h.to
        BY <1>4, <2>3 DEF Pushing
      <4>2. <<p, queues'[p].born>> \in B /\ n = m
        BY <1>18, <4>1
      <4> DEFINE t == <<p, queues'[p].born>>
      <4>3. t \in B /\ t[1] = p
        BY <4>2
      <4> HIDE DEF t
      <4> QED
        BY <1>17, <4>2, <4>3
    <3> QED
      BY <1>6, <1>7, <2>3, <3>1, <3>2
  <2> QED
    BY <2>2, <2>3
<1>13. FreshInv'
  <2> SUFFICES ASSUME NEW n \in fresh'
               PROVE  /\ \A d \in Conns : handler'[d].m # n
                      /\ \A p \in QNames : queues'[p] # None => n \notin queues'[p].held
                      /\ \A p \in QNames : qFiles'[p] # None => n \notin qFiles'[p].messages
    BY DEF FreshInv
  <2>1. /\ n # None
        /\ \A d \in Conns : handler[d].m # n
        /\ \A p \in QNames : queues[p] # None => n \notin queues[p].held
        /\ \A p \in QNames : qFiles[p] # None => n \notin qFiles[p].messages
    BY <1>3, FreshFacts DEF IInv, MsgInv
  <2> QED
    <3>1. n # m
      BY <2>1 DEF m
    <3> QED
      BY <1>3, <1>4, <1>8, <1>19, <2>1, <3>1
<1>14. DiskInv'
  <2> SUFFICES ASSUME NEW p \in QNames, queues'[p] # None, queues'[p].kind.durable,
                      NEW n \in Msgs, <<p, n>> \notin exposed'
               PROVE  OnDisk(p, n)'
    BY DEF DiskInv
  <2>1. OnDisk(p, n)
    BY <1>1, <1>3 DEF IInv, MsgInv, DiskInv
  <2>2. CASE p = q /\ n = m
    <3>1. n \notin queues[p].held /\ \A d \in Conns : ~Pushing(d, p, n)
      BY <1>5, <2>1, <2>2 DEF OnDisk
    <3>2. n \notin queues'[p].held /\ \A d \in Conns : ~Pushing(d, p, n)'
      BY <1>3, <1>12, <3>1
    <3> QED
      BY <3>2 DEF OnDisk
  <2>3. CASE ~(p = q /\ n = m)
    <3>1. InFile(p, n) => InFile(p, n)'
      BY <1>8, <2>3 DEF InFile
    <3> QED
      BY <1>3, <1>12, <2>1, <3>1, OnDiskMono
  <2> QED
    BY <2>2, <2>3
<1>15. AccountedInv'
  <2> SUFFICES ASSUME NEW p \in QNames, queues'[p] # None, queues'[p].kind.durable, p \notin adrift',
                      NEW n \in qFiles'[p].messages
               PROVE  Accounted(p, n)'
    BY DEF AccountedInv
  <2>1. queues[p] # None /\ queues[p].kind.durable /\ qFiles[p] # None /\ qFiles[p].messages \in SUBSET Msgs
    BY <1>1, <1>3, FileMessages DEF IInv
  <2>2. n \in qFiles[p].messages /\ n \in Msgs
    BY <1>8, <2>1
  <2>3. Accounted(p, n)
    BY <1>1, <1>3, <2>1, <2>2 DEF IInv, MsgInv, AccountedInv
  <2>4. CASE p = q /\ n = m
    BY <1>8, <2>1, <2>4 DEF Accounted
  <2>5. CASE ~(p = q /\ n = m)
    BY <1>3, <1>12, <1>20, <2>2, <2>3, <2>5, AccountedMono
  <2> QED
    BY <2>4, <2>5
<1> QED
  BY <1>4, <1>9, <1>11, <1>13, <1>14, <1>15 DEF IInv, MsgInv

(* A message is saved for some queues and is about to be pushed to them,   *)
(* or not, after a failure.                                                *)
LEMMA PublishStep ==
    ASSUME IInv, NEW c \in Conns, NEW e \in AllNames, NEW m \in Msgs, MayStart(c), Started(c), Publish(c, e, m)
    PROVE  IInv'
<1> DEFINE T == Route(e, KeyOf[m])
           h == [Idle EXCEPT !.pc = "pushing", !.m = m, !.to = T]
<1>1. /\ up /\ handler[c] = Idle /\ up'
      /\ conn' \in [Conns -> {"open", "closing", "closed"}] /\ requests' \in 0..MaxRequests
  BY StartedTypes DEF IInv, Publish
<1>2. /\ m \in fresh /\ fresh' = fresh \ {m} /\ T # {} /\ qFiles' = Saved(Durable(T), m) /\ Goto(c, h)
      /\ UNCHANGED <<exchanges, queues, exFiles, born, leaked, adrift, crashes, up>>
      /\ Savable(T) = Durable(T) /\ exposed' = exposed \union {<<q, m>> : q \in Twice(e)}
  BY DEF Publish
<1>3. /\ T \in SUBSET (QNames \X (1..MaxBorn))
      /\ \A t \in T : t[1] \in QNames /\ queues[t[1]] # None /\ t = <<t[1], queues[t[1]].born>>
  BY <1>1, RouteFacts DEF IInv
<1> HIDE DEF T
<1>4. born \in Nat /\ born' \in Nat /\ born' = born /\ born <= born' /\ UNCHANGED <<adrift, queues, leaked>>
  BY <1>1, <1>2, RegistryNow
<1>16. exposed \subseteq exposed' /\ exposed' \subseteq QNames \X Msgs
  <2>1. Twice(e) \subseteq QNames
    BY DEF Twice
  <2> QED
    BY <1>2, <2>1 DEF IInv, TypeOK
<1>5. h \in Request /\ HandlerOf(h, born) /\ h.m = m /\ h.to = T /\ h.q = None /\ h.back = {}
  <2>1. \A t \in T : t[2] <= born
    BY <1>3 DEF IInv, BornInv
  <2> QED
    BY <1>2, <1>3, <2>1 DEF Idle, Request, HandlerOf
<1> HIDE DEF h
<1>6. /\ handler' \in [Conns -> Request] /\ HandlerInv'
      /\ handler'[c] = h /\ \A d \in Conns \ {c} : handler'[d] = handler[d]
  BY <1>1, <1>2, <1>4, <1>5, <1>16, GotoStep DEF IInv
<1>7. /\ Durable(T) \in SUBSET QNames
      /\ \A q \in Durable(T) : qFiles[q] # None /\ \E t \in T : t[1] = q
      /\ \A t \in T : queues[t[1]] # None /\ queues[t[1]].kind.durable => t[1] \in Durable(T)
  BY <1>2, <1>3, DurableFacts
<1>8. /\ qFiles' \in [QNames -> QueueFile \union {None}]
      /\ \A q \in QNames \ Durable(T) : qFiles'[q] = qFiles[q]
      /\ \A q \in Durable(T) : /\ qFiles'[q] # None /\ qFiles'[q].kind = qFiles[q].kind
                               /\ qFiles'[q].messages = qFiles[q].messages \union {m}
  <2>1. SavedTo(Durable(T), m)
    BY <1>2, <1>7, SavedStep DEF IInv
  <2> QED
    BY <2>1 DEF SavedTo
<1>9. TypeOK'
  BY <1>1, <1>2, <1>6, <1>8, <1>16 DEF IInv, TypeOK
<1>10. SameObjects
  BY <1>2, <1>4, <1>7, <1>8 DEF SameObjects
<1>11. RegInv' /\ FilesInv' /\ BornInv'
  BY <1>1, <1>9, <1>10, MessageStep
<1>12. ASSUME NEW p \in QNames, NEW n \in Msgs, NEW d \in Conns
       PROVE  /\ Taken(d, p, n)' => Taken(d, p, n)
              /\ WillRemove(d, p, n) => WillRemove(d, p, n)'
              /\ Pushing(d, p, n) => Pushing(d, p, n)'
              /\ Pushing(d, p, n)' => Pushing(d, p, n) \/ (d = c /\ n = m /\ <<p, queues[p].born>> \in T)
  <2>1. queues'[p].born = queues[p].born
    BY <1>4
  <2>2. CASE d # c
    BY <1>6, <2>1, <2>2, OtherTokens
  <2>3. CASE d = c
    <3>1. ~Taken(d, p, n) /\ ~WillRemove(d, p, n) /\ ~Pushing(d, p, n)
      BY <1>1, <2>3, IdleTokens
    <3>2. ~Taken(d, p, n)'
      BY <1>5, <1>6, <2>3, NoneAssumption DEF Taken
    <3>3. Pushing(d, p, n)' => n = m /\ <<p, queues[p].born>> \in T
      BY <1>5, <1>6, <2>1, <2>3 DEF Pushing
    <3> QED
      BY <2>3, <3>1, <3>2, <3>3
  <2> QED
    BY <2>2, <2>3
<1>13. FreshInv'
  <2> SUFFICES ASSUME NEW n \in fresh'
               PROVE  /\ \A d \in Conns : handler'[d].m # n
                      /\ \A p \in QNames : queues'[p] # None => n \notin queues'[p].held
                      /\ \A p \in QNames : qFiles'[p] # None => n \notin qFiles'[p].messages
    BY DEF FreshInv
  <2>0. n \in fresh /\ n # m
    BY <1>2
  <2>1. /\ \A d \in Conns : handler[d].m # n
        /\ \A p \in QNames : queues[p] # None => n \notin queues[p].held
        /\ \A p \in QNames : qFiles[p] # None => n \notin qFiles[p].messages
    BY <2>0, FreshFacts DEF IInv, MsgInv
  <2>2. \A p \in QNames : qFiles'[p] # None => n \notin qFiles'[p].messages
    BY <1>7, <1>8, <2>0, <2>1
  <2> QED
    BY <1>4, <1>5, <1>6, <2>0, <2>1, <2>2
<1>14. DiskInv'
  <2> SUFFICES ASSUME NEW p \in QNames, queues'[p] # None, queues'[p].kind.durable,
                      NEW n \in Msgs, <<p, n>> \notin exposed'
               PROVE  OnDisk(p, n)'
    BY DEF DiskInv
  <2>1. OnDisk(p, n) /\ queues[p] # None /\ queues[p].kind.durable
    BY <1>1, <1>4, <1>16 DEF IInv, MsgInv, DiskInv
  <2>2. InFile(p, n) => InFile(p, n)'
    BY <1>8 DEF InFile
  <2>3. CASE n = m /\ <<p, queues[p].born>> \in T
    <3>1. InFile(p, n)'
      BY <1>7, <1>8, <2>1, <2>3 DEF InFile
    <3>2. n \notin queues[p].held /\ \A d \in Conns : ~Taken(d, p, n) /\ ~Pushing(d, p, n)
      BY <1>2, <2>1, <2>3, FreshFacts, FreshTokens DEF IInv, MsgInv
    <3>3. n \notin queues'[p].held /\ \A d \in Conns : ~Taken(d, p, n)' /\ (Pushing(d, p, n)' => d = c)
      BY <1>4, <1>12, <3>2
    <3> QED
      BY <3>1, <3>3 DEF OnDisk
  <2>4. CASE ~(n = m /\ <<p, queues[p].born>> \in T)
    BY <1>4, <1>12, <2>1, <2>2, <2>4, OnDiskMono
  <2> QED
    BY <2>3, <2>4
<1>15. AccountedInv'
  <2> SUFFICES ASSUME NEW p \in QNames, queues'[p] # None, queues'[p].kind.durable, p \notin adrift',
                      NEW n \in qFiles'[p].messages
               PROVE  Accounted(p, n)'
    BY DEF AccountedInv
  <2>1. queues[p] # None /\ queues[p].kind.durable /\ qFiles[p] # None /\ qFiles[p].messages \in SUBSET Msgs
    BY <1>1, <1>4, FileMessages DEF IInv
  <2>2. CASE n \in qFiles[p].messages
    <3>1. Accounted(p, n) /\ n \in Msgs
      BY <1>1, <1>4, <2>1, <2>2 DEF IInv, MsgInv, AccountedInv
    <3> QED
      BY <1>4, <1>12, <3>1, AccountedMono
  <2>3. CASE n \notin qFiles[p].messages
    <3>1. p \in Durable(T) /\ n = m
      BY <1>8, <2>3
    <3>2. PICK t \in T : t[1] = p
      BY <1>7, <3>1
    <3>3. <<p, queues'[p].born>> \in T
      BY <1>3, <1>4, <3>2
    <3>4. Pushing(c, p, n)'
      BY <1>5, <1>6, <3>1, <3>3 DEF Pushing
    <3> QED
      BY <3>4 DEF Accounted
  <2> QED
    BY <2>2, <2>3
<1> QED
  BY <1>6, <1>9, <1>11, <1>13, <1>14, <1>15 DEF IInv, MsgInv

LEMMA PublishFailsStep ==
    ASSUME IInv, NEW c \in Conns, NEW e \in AllNames, NEW m \in Msgs, PublishFails(c, e, m)
    PROVE  IInv'
<1> DEFINE T == Route(e, KeyOf[m])
<1>1. /\ up /\ handler[c] = Idle /\ up'
      /\ conn' \in [Conns -> {"open", "closing", "closed"}] /\ requests' \in 0..MaxRequests
  BY StartedTypes DEF IInv, PublishFails, ghosts
<1>2. /\ m \in fresh /\ fresh' = fresh \ {m}
      /\ UNCHANGED <<exchanges, queues, exFiles, handler, born, adrift, ghosts>>
  BY DEF PublishFails
<1>3. \A t \in T : t[1] \in QNames
  BY <1>1, RouteFacts DEF IInv
<1>4. PICK S \in SUBSET Savable(T) : qFiles' = Saved(S, m) /\ leaked' = leaked \union {<<q, m>> : q \in S}
  BY DEF PublishFails
<1> HIDE DEF T
<1>5. S \in SUBSET QNames /\ \A q \in S : qFiles[q] # None
  BY <1>3, DurableFacts
<1>6. /\ qFiles' \in [QNames -> QueueFile \union {None}]
      /\ \A q \in QNames \ S : qFiles'[q] = qFiles[q]
      /\ \A q \in S : /\ qFiles'[q] # None /\ qFiles'[q].kind = qFiles[q].kind
                      /\ qFiles'[q].messages = qFiles[q].messages \union {m}
  <2>1. SavedTo(S, m)
    BY <1>4, <1>5, SavedStep DEF IInv
  <2> QED
    BY <2>1 DEF SavedTo
<1>7. born \in Nat /\ born' \in Nat /\ born' = born /\ born <= born' /\ UNCHANGED <<exposed, adrift, queues, handler>>
  BY <1>1, <1>2, RegistryNow DEF ghosts
<1>8. handler' \in [Conns -> Request] /\ HandlerInv'
  BY <1>1, <1>7, SameHandlers DEF IInv
<1>9. leaked' \in SUBSET (QNames \X Msgs) /\ (\A l \in leaked : l \in leaked') /\ \A q \in S : <<q, m>> \in leaked'
  BY <1>4, <1>5 DEF IInv, TypeOK
<1>10. TypeOK'
  BY <1>1, <1>2, <1>6, <1>8, <1>9 DEF IInv, TypeOK, ghosts
<1>11. SameObjects
  BY <1>2, <1>5, <1>6, <1>7 DEF SameObjects
<1>12. RegInv' /\ FilesInv' /\ BornInv'
  BY <1>1, <1>10, <1>11, MessageStep
<1>13. ASSUME NEW p \in QNames, NEW n \in Msgs, NEW d \in Conns
       PROVE  /\ Taken(d, p, n)' <=> Taken(d, p, n)
              /\ WillRemove(d, p, n) <=> WillRemove(d, p, n)'
              /\ Pushing(d, p, n) <=> Pushing(d, p, n)'
  BY <1>7, OtherTokens
<1>14. FreshInv'
  <2> SUFFICES ASSUME NEW n \in fresh'
               PROVE  /\ \A d \in Conns : handler'[d].m # n
                      /\ \A p \in QNames : queues'[p] # None => n \notin queues'[p].held
                      /\ \A p \in QNames : qFiles'[p] # None => n \notin qFiles'[p].messages
    BY DEF FreshInv
  <2>0. n \in fresh /\ n # m
    BY <1>2
  <2>1. /\ \A d \in Conns : handler[d].m # n
        /\ \A p \in QNames : queues[p] # None => n \notin queues[p].held
        /\ \A p \in QNames : qFiles[p] # None => n \notin qFiles[p].messages
    BY <2>0, FreshFacts DEF IInv, MsgInv
  <2>2. \A p \in QNames : qFiles'[p] # None => n \notin qFiles'[p].messages
    BY <1>5, <1>6, <2>0, <2>1
  <2> QED
    BY <1>7, <2>1, <2>2
<1>15. DiskInv'
  <2> SUFFICES ASSUME NEW p \in QNames, queues'[p] # None, queues'[p].kind.durable,
                      NEW n \in Msgs, <<p, n>> \notin exposed'
               PROVE  OnDisk(p, n)'
    BY DEF DiskInv
  <2>1. OnDisk(p, n)
    BY <1>1, <1>7 DEF IInv, MsgInv, DiskInv
  <2>2. InFile(p, n) => InFile(p, n)'
    BY <1>6 DEF InFile
  <2> QED
    BY <1>7, <1>13, <2>1, <2>2, OnDiskMono
<1>16. AccountedInv'
  <2> SUFFICES ASSUME NEW p \in QNames, queues'[p] # None, queues'[p].kind.durable, p \notin adrift',
                      NEW n \in qFiles'[p].messages
               PROVE  Accounted(p, n)'
    BY DEF AccountedInv
  <2>1. queues[p] # None /\ queues[p].kind.durable /\ qFiles[p] # None /\ qFiles[p].messages \in SUBSET Msgs
    BY <1>1, <1>7, FileMessages DEF IInv
  <2>2. CASE n \in qFiles[p].messages
    <3>1. Accounted(p, n) /\ n \in Msgs
      BY <1>1, <1>7, <2>1, <2>2 DEF IInv, MsgInv, AccountedInv
    <3> QED
      BY <1>7, <1>9, <1>13, <3>1, AccountedMono
  <2>3. CASE n \notin qFiles[p].messages
    <3>1. p \in S /\ n = m
      BY <1>6, <2>3
    <3> QED
      BY <1>9, <3>1 DEF Accounted
  <2> QED
    BY <2>2, <2>3
<1> QED
  BY <1>8, <1>10, <1>12, <1>14, <1>15, <1>16 DEF IInv, MsgInv

(* A pushed message leaves the handler for the queue, for leaked if the    *)
(* channel is full, or for nothing if the queue is gone.                   *)
LEMMA PushStep ==
    ASSUME IInv, NEW c \in Conns, NEW t \in handler[c].to, Push(c, t)
    PROVE  IInv'
<1> DEFINE q == t[1]
           h == handler[c]
           m == h.m
           current == queues[q] # None /\ queues[q].born = t[2]
           rest == h.to \ {t}
           next == IF rest # {} THEN [h EXCEPT !.to = rest]
                   ELSE IF "remove" \in h.flags THEN [h EXCEPT !.pc = "removing", !.to = {}]
                   ELSE Idle
<1>1. /\ up /\ up' /\ h.pc = "pushing" /\ Goto(c, next)
      /\ UNCHANGED <<conn, requests, exchanges, exFiles, qFiles, born, fresh, adrift, ghosts>>
  BY DEF Push, At, Proceed, ghosts
<1>2. \/ current /\ queues' = [queues EXCEPT ![q].held = @ \union {m}] /\ leaked' = leaked
      \/ /\ current /\ queues' = queues
         /\ leaked' = IF queues[q].kind.durable THEN leaked \union {<<q, m>>} ELSE leaked
      \/ ~current /\ queues' = queues /\ leaked' = leaked
  BY DEF Push
<1>3. h \in Request /\ HandlerOf(h, born)
  BY DEF IInv, TypeOK, HandlerInv
<1>4. t \in QNames \X (1..MaxBorn) /\ q \in QNames /\ t = <<q, t[2]>>
  BY <1>3 DEF Request
<1>5. m \in Msgs /\ ("remove" \in h.flags => h.q \in QNames) /\ rest \in SUBSET (QNames \X (1..MaxBorn))
  BY <1>1, <1>3 DEF HandlerOf, Request
<1>6. \A s \in rest : s[2] <= born
  BY <1>3 DEF HandlerOf
<1>7. /\ next \in Request /\ HandlerOf(next, born) /\ next.back \subseteq h.back
      /\ rest # {} => next.to = rest /\ next.m = m /\ next.q = h.q /\ next.flags = h.flags /\ next.pc = "pushing"
      /\ rest = {} /\ "remove" \in h.flags => next.to = {} /\ next.m = m /\ next.q = h.q /\ next.pc = "removing"
      /\ rest = {} /\ "remove" \notin h.flags => next = Idle
  <2> HIDE DEF rest
  <2>1. CASE rest # {}
    <3> DEFINE g == [h EXCEPT !.to = rest]
    <3>1. next = g
      BY <2>1
    <3> HIDE DEF h, next
    <3>2. g \in Request /\ g.to = rest /\ g.m = h.m /\ g.q = h.q /\ g.flags = h.flags /\ g.pc = h.pc /\ g.e = h.e
          /\ g.back = h.back
      BY <1>3, <1>5 DEF Request
    <3> HIDE DEF g
    <3>3. HandlerOf(g, born)
      BY <1>1, <1>3, <1>5, <1>6, <2>1, <3>2 DEF HandlerOf
    <3> QED
      BY <1>1, <2>1, <3>1, <3>2, <3>3
  <2>2. CASE rest = {} /\ "remove" \in h.flags
    <3> DEFINE g == [h EXCEPT !.pc = "removing", !.to = {}]
    <3>1. next = g
      BY <2>2
    <3> HIDE DEF h, next
    <3>2. /\ g \in Request /\ g.to = {} /\ g.m = h.m /\ g.q = h.q /\ g.pc = "removing"
          /\ g.back = h.back /\ g.flags = h.flags
      BY <1>3 DEF Request
    <3> HIDE DEF g
    <3>3. HandlerOf(g, born)
      BY <1>3, <1>5, <2>2, <3>2 DEF HandlerOf
    <3> QED
      BY <2>2, <3>1, <3>2, <3>3
  <2>3. CASE rest = {} /\ "remove" \notin h.flags
    <3>1. next = Idle
      BY <2>3
    <3>2. Idle \in Request /\ HandlerOf(Idle, born) /\ Idle.back = {}
      BY IdleFacts DEF Idle, HandlerOf
    <3> HIDE DEF next, h
    <3> QED
      BY <2>3, <3>1, <3>2
  <2> QED
    BY <2>1, <2>2, <2>3
<1> HIDE DEF next
<1>21. \A s \in next.back : <<s[1], next.m>> \in exposed
  <2>1. \A s \in h.back : <<s[1], m>> \in exposed
    BY DEF IInv, HandlerInv, Backed
  <2>2. CASE next = Idle
    BY <2>2, IdleFacts
  <2>3. CASE next # Idle
    BY <1>7, <2>1, <2>3
  <2> QED
    BY <2>2, <2>3
<1>8. born \in Nat /\ born' \in Nat /\ born' = born /\ born <= born' /\ UNCHANGED <<exposed, adrift, qFiles, fresh>>
  BY <1>1, RegistryNow DEF ghosts
<1>9. /\ handler' \in [Conns -> Request] /\ HandlerInv'
      /\ handler'[c] = next /\ \A d \in Conns \ {c} : handler'[d] = handler[d]
  BY <1>1, <1>7, <1>8, <1>21, GotoStep DEF IInv
<1>10. /\ queues' \in [QNames -> QueueObject \union {None}]
       /\ \A p \in QNames \ {q} : queues'[p] = queues[p]
       /\ queues[q] = None => queues'[q] = None
       /\ queues[q] # None =>
            /\ queues'[q] # None /\ queues'[q].kind = queues[q].kind /\ queues'[q].born = queues[q].born
            /\ queues'[q].consumers = queues[q].consumers /\ queues'[q].consumed = queues[q].consumed
            /\ queues'[q].held = queues[q].held \/ (current /\ queues'[q].held = queues[q].held \union {m})
       /\ current => m \in queues'[q].held \/ ~queues[q].kind.durable \/ <<q, m>> \in leaked'
  <2>1. CASE queues' = queues /\ (current => ~queues[q].kind.durable \/ <<q, m>> \in leaked')
    <3> HIDE DEF q, m, current
    <3> QED
      BY <2>1 DEF IInv, TypeOK
  <2>2. CASE current /\ queues' = [queues EXCEPT ![q].held = @ \union {m}]
    <3> DEFINE H == queues[q].held \union {m}
    <3>1. queues[q] # None /\ queues[q] \in QueueObject
      BY <1>4, <2>2 DEF IInv, TypeOK
    <3>2. H \in SUBSET Msgs
      BY <1>5, <3>1 DEF QueueObject
    <3>3. queues' = [queues EXCEPT ![q] = [queues[q] EXCEPT !.held = H]]
      BY <1>4, <2>2 DEF IInv, TypeOK
    <3>4. m \in H /\ H = queues[q].held \union {m}
      OBVIOUS
    <3> HIDE DEF H, q, m, current
    <3>5. /\ queues' \in [QNames -> QueueObject \union {None}]
          /\ \A p \in QNames \ {q} : queues'[p] = queues[p]
          /\ queues'[q] # None /\ queues'[q].kind = queues[q].kind /\ queues'[q].born = queues[q].born
          /\ queues'[q].consumers = queues[q].consumers /\ queues'[q].consumed = queues[q].consumed
          /\ queues'[q].held = H
      BY <1>4, <3>1, <3>2, <3>3, HeldFacts DEF IInv
    <3> QED
      BY <2>2, <3>1, <3>4, <3>5
  <2> QED
    BY <1>2, <2>1, <2>2
<1>11. leaked' \in SUBSET (QNames \X Msgs) /\ \A l \in leaked : l \in leaked'
  BY <1>2, <1>4, <1>5 DEF IInv, TypeOK
<1>12. TypeOK'
  BY <1>1, <1>9, <1>10, <1>11 DEF IInv, TypeOK, ghosts
<1>13. SameObjects
  BY <1>1, <1>8, <1>10 DEF SameObjects
<1>14. RegInv' /\ FilesInv' /\ BornInv'
  BY <1>1, <1>12, <1>13, MessageStep
<1>15. ASSUME NEW p \in QNames, NEW n \in Msgs, NEW d \in Conns
       PROVE  /\ Taken(d, p, n)' => Taken(d, p, n)
              /\ WillRemove(d, p, n) => WillRemove(d, p, n)'
              /\ Pushing(d, p, n)' => Pushing(d, p, n) /\ ~(d = c /\ <<p, queues[p].born>> = t)
              /\ Pushing(d, p, n) => Pushing(d, p, n)' \/ (d = c /\ n = m /\ <<p, queues[p].born>> = t)
  <2>1. queues'[p].born = queues[p].born
    BY <1>10
  <2>2. CASE d # c
    BY <1>9, <2>1, <2>2, OtherTokens
  <2>3. CASE d = c
    <3>1. handler'[d] = next /\ handler[d] = h /\ n # None
      BY <1>9, <2>3, NoneAssumption
    <3>2. next.m = m \/ next.m = None
      BY <1>7, IdleFacts
    <3>3. next.to = rest
      BY <1>7, IdleFacts
    <3>4. Taken(d, p, n)' => Taken(d, p, n)
      BY <1>7, <3>1, IdleFacts DEF Taken
    <3>5. WillRemove(d, p, n) => WillRemove(d, p, n)'
      <4> SUFFICES ASSUME WillRemove(d, p, n) PROVE WillRemove(d, p, n)'
        OBVIOUS
      <4>1. h.m = n /\ h.q = p /\ "remove" \in h.flags
        BY <1>1, <3>1 DEF WillRemove, Taken
      <4> HIDE DEF h
      <4>2. next.m = n /\ next.q = p /\ (next.pc = "removing" \/ (next.pc = "pushing" /\ "remove" \in next.flags))
        BY <1>7, <4>1 DEF m
      <4> QED
        BY <3>1, <4>2 DEF WillRemove, Taken
    <3>6. Pushing(d, p, n)' => Pushing(d, p, n) /\ ~(d = c /\ <<p, queues[p].born>> = t)
      BY <2>1, <3>1, <3>2, <3>3 DEF Pushing
    <3>7. Pushing(d, p, n) => Pushing(d, p, n)' \/ (d = c /\ n = m /\ <<p, queues[p].born>> = t)
      BY <1>7, <2>1, <2>3, <3>1, <3>3 DEF Pushing
    <3> QED
      BY <3>4, <3>5, <3>6, <3>7
  <2> QED
    BY <2>2, <2>3
<1>16. FreshInv'
  <2> SUFFICES ASSUME NEW n \in fresh'
               PROVE  /\ \A d \in Conns : handler'[d].m # n
                      /\ \A p \in QNames : queues'[p] # None => n \notin queues'[p].held
                      /\ \A p \in QNames : qFiles'[p] # None => n \notin qFiles'[p].messages
    BY DEF FreshInv
  <2>1. /\ n # None
        /\ \A d \in Conns : handler[d].m # n
        /\ \A p \in QNames : queues[p] # None => n \notin queues[p].held
        /\ \A p \in QNames : qFiles[p] # None => n \notin qFiles[p].messages
    BY <1>8, FreshFacts DEF IInv, MsgInv
  <2>2. n # m /\ \A d \in Conns : handler'[d].m # n
    BY <1>7, <1>9, <2>1, IdleFacts
  <2>3. \A p \in QNames : queues'[p] # None => n \notin queues'[p].held
    BY <1>10, <2>1, <2>2
  <2> QED
    BY <1>8, <2>1, <2>2, <2>3
<1>17. current <=> queues[q] # None /\ <<q, queues[q].born>> = t
  BY <1>4
<1>18. Pushing(c, q, m) <=> <<q, queues[q].born>> \in h.to
  BY DEF Pushing
<1> HIDE DEF current, m, rest
<1>19. DiskInv'
  <2> SUFFICES ASSUME NEW p \in QNames, queues'[p] # None, queues'[p].kind.durable,
                      NEW n \in Msgs, <<p, n>> \notin exposed'
               PROVE  OnDisk(p, n)'
    BY DEF DiskInv
  <2>1. OnDisk(p, n)
    BY <1>1, <1>8, <1>10 DEF IInv, MsgInv, DiskInv
  <2>2. CASE p = q /\ n = m /\ current
    <3>1. Pushing(c, p, n) /\ <<p, queues[p].born>> = t
      BY <1>17, <1>18, <2>2
    <3>2. /\ InFile(p, n) /\ \A d \in Conns : ~Taken(d, p, n)
          /\ \A d \in Conns : Pushing(d, p, n) => d = c
      BY <2>1, <3>1 DEF OnDisk
    <3>3. /\ InFile(p, n)' /\ \A d \in Conns : ~Taken(d, p, n)' /\ ~Pushing(d, p, n)'
      BY <1>8, <1>15, <3>1, <3>2 DEF InFile
    <3> QED
      BY <3>3 DEF OnDisk
  <2>3. CASE ~(p = q /\ n = m /\ current)
    <3>1. n \in queues'[p].held => n \in queues[p].held
      BY <1>10, <2>3
    <3>2. InFile(p, n) => InFile(p, n)'
      BY <1>8 DEF InFile
    <3> QED
      BY <1>15, <2>1, <3>1, <3>2, OnDiskMono
  <2> QED
    BY <2>2, <2>3
<1>20. AccountedInv'
  <2> SUFFICES ASSUME NEW p \in QNames, queues'[p] # None, queues'[p].kind.durable, p \notin adrift',
                      NEW n \in qFiles'[p].messages
               PROVE  Accounted(p, n)'
    BY DEF AccountedInv
  <2>1. queues[p] # None /\ queues[p].kind.durable
    BY <1>10
  <2>2. n \in Msgs /\ Accounted(p, n)
    BY <1>1, <1>8, <2>1, FileMessages DEF IInv, MsgInv, AccountedInv
  <2>3. n \in queues[p].held => n \in queues'[p].held
    BY <1>10
  <2>4. CASE p = q /\ n = m /\ current
    BY <1>10, <2>1, <2>4 DEF Accounted
  <2>5. CASE ~(p = q /\ n = m /\ current)
    <3>1. ~(n = m /\ <<p, queues[p].born>> = t)
      BY <1>4, <1>17, <2>1, <2>5
    <3> QED
      BY <1>11, <1>15, <2>2, <2>3, <3>1, AccountedMono
  <2> QED
    BY <2>4, <2>5
<1> QED
  BY <1>9, <1>12, <1>14, <1>16, <1>19, <1>20 DEF IInv, MsgInv

(* A dead letter is saved and pushed like a publish, unless a queue it is  *)
(* routed to still has the message: that pair is exposed from then on.      *)
LEMMA DeadLetterStep ==
    ASSUME IInv, NEW c \in Conns, DeadLetter(c)
    PROVE  IInv'
<1> DEFINE h == handler[c]
           m == h.m
           T == IF Publishable(h.e) THEN Route(h.e, KeyOf[h.m]) ELSE {}
           ok == Publishable(h.e) /\ (T # {} \/ exchanges[h.e].kind.typ = "topic")
           source == queues[h.q] # None /\ queues[h.q].kind.durable
           again == {t[1] : t \in {x \in T : Pending(x[1], m)}} \union (IF T = {} THEN {} ELSE Twice(h.e))
           L == {<<q, m>> : q \in again}
           next == IF T # {} THEN [h EXCEPT !.pc = "pushing", !.to = T]
                   ELSE IF ok /\ "remove" \notin h.flags THEN Idle
                   ELSE [h EXCEPT !.pc = "removing"]
<1>1. /\ up /\ up' /\ h.pc = "discarding" /\ Goto(c, next) /\ qFiles' = Saved(Durable(T), m)
      /\ UNCHANGED <<conn, requests, exchanges, queues, exFiles, born, fresh, crashes, up, adrift>>
      /\ Savable(T) = Durable(T)
  BY DEF DeadLetter, At, Proceed
<1>2. /\ leaked' = IF ok /\ "remove" \notin h.flags /\ source THEN leaked \union {<<h.q, m>>} ELSE leaked
      /\ exposed' = exposed \union L
  BY DEF DeadLetter
<1>3. h \in Request /\ HandlerOf(h, born)
  BY DEF IInv, TypeOK, HandlerInv
<1>4. m \in Msgs /\ h.q \in QNames /\ h.e \in ExNames /\ h.to = {}
  BY <1>1, <1>3 DEF HandlerOf
<1>5. /\ T \in SUBSET (QNames \X (1..MaxBorn))
      /\ \A t \in T : t[1] \in QNames /\ queues[t[1]] # None /\ t = <<t[1], queues[t[1]].born>>
  <2>1. h.e \in AllNames
    BY <1>4 DEF AllNames
  <2>2. CASE Publishable(h.e)
    BY <1>1, <2>1, <2>2, RouteFacts DEF IInv
  <2>3. CASE ~Publishable(h.e)
    BY <2>3
  <2> QED
    BY <2>2, <2>3
<1>6. T # {} => ok
  OBVIOUS
<1>7. \A t \in T : Pending(t[1], m) => <<t[1], m>> \in exposed'
  BY <1>2
<1>8. L \in SUBSET (QNames \X Msgs)
  <2>1. Twice(h.e) \subseteq QNames
    BY DEF Twice
  <2>2. again \subseteq QNames
    BY <1>5, <2>1
  <2> HIDE DEF again
  <2> QED
    BY <1>4, <2>2
<1> HIDE DEF again
<1>9. /\ next \in Request /\ HandlerOf(next, born) /\ next.back \subseteq h.back
      /\ T # {} => next.to = T /\ next.m = m /\ next.q = h.q /\ next.pc = "pushing" /\ next.flags = h.flags
      /\ T = {} /\ ok /\ "remove" \notin h.flags => next = Idle
      /\ T = {} /\ ~(ok /\ "remove" \notin h.flags) =>
           next.to = {} /\ next.m = m /\ next.q = h.q /\ next.pc = "removing"
  <2> HIDE DEF T, ok
  <2>1. CASE T # {}
    <3> DEFINE g == [h EXCEPT !.pc = "pushing", !.to = T]
    <3>1. next = g
      BY <2>1
    <3> HIDE DEF h, next
    <3>2. g \in Request /\ g.to = T /\ g.m = h.m /\ g.q = h.q /\ g.flags = h.flags /\ g.pc = "pushing"
          /\ g.back = h.back
      BY <1>3, <1>5 DEF Request
    <3> HIDE DEF g
    <3>3. \A t \in T : t[2] <= born
      BY <1>5 DEF IInv, BornInv
    <3>4. HandlerOf(g, born)
      BY <1>3, <1>4, <2>1, <3>2, <3>3 DEF HandlerOf
    <3> QED
      BY <2>1, <3>1, <3>2, <3>4
  <2>2. CASE T = {} /\ ok /\ "remove" \notin h.flags
    <3>1. next = Idle
      BY <2>2
    <3>2. Idle \in Request /\ HandlerOf(Idle, born) /\ Idle.back = {}
      BY IdleFacts DEF Idle, HandlerOf
    <3> HIDE DEF next, h
    <3> QED
      BY <2>2, <3>1, <3>2
  <2>3. CASE T = {} /\ ~(ok /\ "remove" \notin h.flags)
    <3> DEFINE g == [h EXCEPT !.pc = "removing"]
    <3>1. next = g
      BY <2>3
    <3> HIDE DEF h, next
    <3>2. /\ g \in Request /\ g.to = h.to /\ g.m = h.m /\ g.q = h.q /\ g.pc = "removing"
          /\ g.back = h.back /\ g.flags = h.flags
      BY <1>3 DEF Request
    <3> HIDE DEF g
    <3>3. HandlerOf(g, born)
      BY <1>3, <1>4, <3>2 DEF HandlerOf
    <3> QED
      BY <1>4, <2>3, <3>1, <3>2, <3>3
  <2> QED
    BY <2>1, <2>2, <2>3
<1> HIDE DEF next, T, ok, L
<1>25. \A s \in next.back : <<s[1], next.m>> \in exposed
  <2>1. \A s \in h.back : <<s[1], m>> \in exposed
    BY DEF IInv, HandlerInv, Backed
  <2>2. CASE next = Idle
    BY <2>2, IdleFacts
  <2>3. CASE next # Idle
    BY <1>9, <2>1, <2>3
  <2> QED
    BY <2>2, <2>3
<1>26. exposed \subseteq exposed'
  BY <1>2
<1>10. born \in Nat /\ born' \in Nat /\ born' = born /\ born <= born' /\ UNCHANGED <<adrift, queues, fresh>>
  BY <1>1, RegistryNow
<1>11. /\ handler' \in [Conns -> Request] /\ HandlerInv'
       /\ handler'[c] = next /\ \A d \in Conns \ {c} : handler'[d] = handler[d]
  BY <1>1, <1>9, <1>10, <1>25, <1>26, GotoStep DEF IInv
<1>12. /\ Durable(T) \in SUBSET QNames
       /\ \A q \in Durable(T) : qFiles[q] # None /\ \E t \in T : t[1] = q
       /\ \A t \in T : queues[t[1]] # None /\ queues[t[1]].kind.durable => t[1] \in Durable(T)
  BY <1>1, <1>5, DurableFacts
<1>13. /\ qFiles' \in [QNames -> QueueFile \union {None}]
       /\ \A q \in QNames \ Durable(T) : qFiles'[q] = qFiles[q]
       /\ \A q \in Durable(T) : /\ qFiles'[q] # None /\ qFiles'[q].kind = qFiles[q].kind
                                /\ qFiles'[q].messages = qFiles[q].messages \union {m}
  <2>1. SavedTo(Durable(T), m)
    BY <1>1, <1>4, <1>12, SavedStep DEF IInv
  <2> QED
    BY <2>1 DEF SavedTo
<1>14. leaked' \in SUBSET (QNames \X Msgs) /\ (\A l \in leaked : l \in leaked') /\ \A l \in exposed : l \in exposed'
  BY <1>2, <1>4 DEF IInv, TypeOK
<1>15. exposed' \in SUBSET (QNames \X Msgs)
  BY <1>2, <1>8 DEF IInv, TypeOK
<1>16. TypeOK'
  BY <1>1, <1>11, <1>13, <1>14, <1>15 DEF IInv, TypeOK
<1>17. SameObjects
  BY <1>1, <1>10, <1>12, <1>13 DEF SameObjects
<1>18. RegInv' /\ FilesInv' /\ BornInv'
  BY <1>1, <1>16, <1>17, MessageStep
<1>19. next.m = m \/ next.m = None
  BY <1>9, IdleFacts
<1>20. next.to = T
  BY <1>9, IdleFacts
<1>21. ASSUME NEW p \in QNames, NEW n \in Msgs, NEW d \in Conns
       PROVE  /\ Taken(d, p, n)' => Taken(d, p, n)
              /\ WillRemove(d, p, n) =>
                   WillRemove(d, p, n)' \/ (d = c /\ p = h.q /\ n = m /\ ok /\ "remove" \notin h.flags)
              /\ Pushing(d, p, n) => Pushing(d, p, n)'
              /\ Pushing(d, p, n)' => Pushing(d, p, n) \/ (d = c /\ n = m /\ <<p, queues[p].born>> \in T)
  <2>1. queues'[p].born = queues[p].born
    BY <1>10
  <2>2. CASE d # c
    BY <1>11, <2>1, <2>2, OtherTokens
  <2>3. CASE d = c
    <3>1. handler'[d] = next /\ handler[d] = h /\ n # None
      BY <1>11, <2>3, NoneAssumption
    <3>2. ~Pushing(d, p, n)
      BY <1>4, <3>1 DEF Pushing
    <3>3. Pushing(d, p, n)' => n = m /\ <<p, queues[p].born>> \in T
      BY <1>19, <1>20, <2>1, <3>1 DEF Pushing
    <3>4. Taken(d, p, n)' => Taken(d, p, n)
      BY <1>9, <3>1, IdleFacts DEF Taken
    <3>5. WillRemove(d, p, n) => WillRemove(d, p, n)' \/ (p = h.q /\ n = m /\ ok /\ "remove" \notin h.flags)
      <4> SUFFICES ASSUME WillRemove(d, p, n), ~(ok /\ "remove" \notin h.flags) \/ p # h.q \/ n # m
                   PROVE  WillRemove(d, p, n)'
        OBVIOUS
      <4>1. h.m = n /\ h.q = p
        BY <3>1 DEF WillRemove, Taken
      <4>2. ~(ok /\ "remove" \notin h.flags)
        BY <4>1
      <4> HIDE DEF h
      <4>3. next.m = n /\ next.q = p /\ (next.pc = "removing" \/ (next.pc = "pushing" /\ "remove" \in next.flags))
        BY <1>6, <1>9, <4>1, <4>2 DEF m, ok
      <4> QED
        BY <3>1, <4>3 DEF WillRemove, Taken
    <3> QED
      BY <2>3, <3>2, <3>3, <3>4, <3>5
  <2> QED
    BY <2>2, <2>3
<1>22. FreshInv'
  <2> SUFFICES ASSUME NEW n \in fresh'
               PROVE  /\ \A d \in Conns : handler'[d].m # n
                      /\ \A p \in QNames : queues'[p] # None => n \notin queues'[p].held
                      /\ \A p \in QNames : qFiles'[p] # None => n \notin qFiles'[p].messages
    BY DEF FreshInv
  <2>1. /\ n # None
        /\ \A d \in Conns : handler[d].m # n
        /\ \A p \in QNames : queues[p] # None => n \notin queues[p].held
        /\ \A p \in QNames : qFiles[p] # None => n \notin qFiles[p].messages
    BY <1>10, FreshFacts DEF IInv, MsgInv
  <2>2. n # m /\ \A d \in Conns : handler'[d].m # n
    BY <1>11, <1>19, <2>1
  <2>3. \A p \in QNames : qFiles'[p] # None => n \notin qFiles'[p].messages
    BY <1>12, <1>13, <2>1, <2>2
  <2> QED
    BY <1>10, <2>1, <2>2, <2>3
<1> HIDE DEF m
<1>23. DiskInv'
  <2> SUFFICES ASSUME NEW p \in QNames, queues'[p] # None, queues'[p].kind.durable,
                      NEW n \in Msgs, <<p, n>> \notin exposed'
               PROVE  OnDisk(p, n)'
    BY DEF DiskInv
  <2>1. OnDisk(p, n) /\ queues[p] # None /\ queues[p].kind.durable
    BY <1>1, <1>10, <1>14 DEF IInv, MsgInv, DiskInv
  <2>2. InFile(p, n) => InFile(p, n)'
    BY <1>13 DEF InFile
  <2>3. CASE n = m /\ <<p, queues[p].born>> \in T
    <3> DEFINE t == <<p, queues[p].born>>
    <3>1. t \in T /\ t[1] = p
      BY <2>3
    <3>2. ~Pending(p, n)
      BY <1>7, <2>3, <3>1
    <3>3. InFile(p, n)'
      BY <1>12, <1>13, <2>1, <2>3, <3>1 DEF InFile
    <3>4. ~InFile(p, n)
      BY <3>2 DEF Pending, InFile
    <3>5. n \notin queues[p].held /\ \A d \in Conns : ~Pushing(d, p, n)
      BY <2>1, <3>4 DEF OnDisk
    <3>6. \A d \in Conns : ~Taken(d, p, n)
      BY <3>2 DEF Pending, OnItsWay, Taken
    <3>7. n \notin queues'[p].held /\ \A d \in Conns : ~Taken(d, p, n)' /\ (Pushing(d, p, n)' => d = c)
      BY <1>10, <1>21, <3>5, <3>6
    <3> QED
      BY <3>3, <3>7 DEF OnDisk
  <2>4. CASE ~(n = m /\ <<p, queues[p].born>> \in T)
    BY <1>10, <1>21, <2>1, <2>2, <2>4, OnDiskMono
  <2> QED
    BY <2>3, <2>4
<1>24. AccountedInv'
  <2> SUFFICES ASSUME NEW p \in QNames, queues'[p] # None, queues'[p].kind.durable, p \notin adrift',
                      NEW n \in qFiles'[p].messages
               PROVE  Accounted(p, n)'
    BY DEF AccountedInv
  <2>1. queues[p] # None /\ queues[p].kind.durable /\ qFiles[p] # None /\ qFiles[p].messages \in SUBSET Msgs
    BY <1>1, <1>10, FileMessages DEF IInv
  <2>2. CASE n \in qFiles[p].messages
    <3>1. Accounted(p, n) /\ n \in Msgs
      BY <1>1, <1>10, <2>1, <2>2 DEF IInv, MsgInv, AccountedInv
    <3>2. CASE p = h.q /\ n = m /\ ok /\ "remove" \notin h.flags
      <4>1. <<p, n>> \in leaked'
        BY <1>2, <2>1, <3>2
      <4> QED
        BY <4>1 DEF Accounted
    <3>3. CASE ~(p = h.q /\ n = m /\ ok /\ "remove" \notin h.flags)
      BY <1>10, <1>14, <1>21, <3>1, <3>3, AccountedMono
    <3> QED
      BY <3>2, <3>3
  <2>3. CASE n \notin qFiles[p].messages
    <3>1. p \in Durable(T) /\ n = m
      BY <1>13, <2>3
    <3>2. PICK t \in T : t[1] = p
      BY <1>12, <3>1
    <3>3. <<p, queues'[p].born>> \in T
      BY <1>5, <1>10, <3>2
    <3>4. next.m = m
      BY <1>9, <3>3
    <3>5. Pushing(c, p, n)'
      BY <1>11, <1>20, <3>1, <3>3, <3>4 DEF Pushing
    <3> QED
      BY <3>5 DEF Accounted
  <2> QED
    BY <2>2, <2>3
<1> QED
  BY <1>11, <1>16, <1>18, <1>22, <1>23, <1>24 DEF IInv, MsgInv

LEMMA DeadLetterFailsStep ==
    ASSUME IInv, NEW c \in Conns, DeadLetterFails(c)
    PROVE  IInv'
<1> DEFINE h == handler[c]
           m == h.m
           T == Route(h.e, KeyOf[h.m])
           next == [h EXCEPT !.pc = "removing"]
<1>1. /\ up /\ up' /\ h.pc = "discarding" /\ Goto(c, next)
      /\ UNCHANGED <<conn, requests, exchanges, queues, exFiles, born, fresh, adrift, ghosts>>
  BY DEF DeadLetterFails, At, Proceed, ghosts
<1>2. PICK S \in SUBSET Savable(T) : qFiles' = Saved(S, m) /\ leaked' = leaked \union {<<q, m>> : q \in S}
  BY DEF DeadLetterFails
<1>3. h \in Request /\ HandlerOf(h, born) /\ \A t \in h.back : <<t[1], m>> \in exposed
  BY DEF IInv, TypeOK, HandlerInv, Backed
<1>4. m \in Msgs /\ h.q \in QNames /\ h.e \in ExNames /\ h.to = {}
  BY <1>1, <1>3 DEF HandlerOf
<1>5. \A t \in T : t[1] \in QNames
  <2>1. h.e \in AllNames
    BY <1>4 DEF AllNames
  <2> QED
    BY <1>1, <2>1, RouteFacts DEF IInv
<1> HIDE DEF T
<1>6. S \in SUBSET QNames /\ \A q \in S : qFiles[q] # None
  BY <1>5, DurableFacts
<1>7. /\ next \in Request /\ next.to = {} /\ next.m = m /\ next.q = h.q /\ next.pc = "removing"
      /\ next.back = h.back /\ next.flags = h.flags
  <2> HIDE DEF h
  <2> QED
    BY <1>3, <1>4 DEF Request, m
<1> HIDE DEF next
<1>8. HandlerOf(next, born)
  BY <1>3, <1>4, <1>7 DEF HandlerOf
<1>9. born \in Nat /\ born' \in Nat /\ born' = born /\ born <= born' /\ UNCHANGED <<exposed, adrift, queues, fresh>>
  BY <1>1, RegistryNow DEF ghosts
<1>10. /\ handler' \in [Conns -> Request] /\ HandlerInv'
       /\ handler'[c] = next /\ \A d \in Conns \ {c} : handler'[d] = handler[d]
  BY <1>1, <1>3, <1>7, <1>8, <1>9, GotoStep DEF IInv
<1>11. /\ qFiles' \in [QNames -> QueueFile \union {None}]
       /\ \A q \in QNames \ S : qFiles'[q] = qFiles[q]
       /\ \A q \in S : /\ qFiles'[q] # None /\ qFiles'[q].kind = qFiles[q].kind
                       /\ qFiles'[q].messages = qFiles[q].messages \union {m}
  <2>1. SavedTo(S, m)
    BY <1>2, <1>4, <1>6, SavedStep DEF IInv
  <2> QED
    BY <2>1 DEF SavedTo
<1>12. leaked' \in SUBSET (QNames \X Msgs) /\ (\A l \in leaked : l \in leaked') /\ \A q \in S : <<q, m>> \in leaked'
  BY <1>2, <1>4, <1>6 DEF IInv, TypeOK
<1>13. TypeOK'
  BY <1>1, <1>10, <1>11, <1>12 DEF IInv, TypeOK, ghosts
<1>14. SameObjects
  BY <1>1, <1>6, <1>9, <1>11 DEF SameObjects
<1>15. RegInv' /\ FilesInv' /\ BornInv'
  BY <1>1, <1>13, <1>14, MessageStep
<1>16. ASSUME NEW p \in QNames, NEW n \in Msgs, NEW d \in Conns
       PROVE  /\ Taken(d, p, n)' => Taken(d, p, n)
              /\ WillRemove(d, p, n) => WillRemove(d, p, n)'
              /\ Pushing(d, p, n) <=> Pushing(d, p, n)'
  <2>1. queues'[p].born = queues[p].born
    BY <1>9
  <2>2. CASE d # c
    BY <1>10, <2>1, <2>2, OtherTokens
  <2>3. CASE d = c
    BY <1>4, <1>7, <1>10, <2>3 DEF Taken, WillRemove, Pushing
  <2> QED
    BY <2>2, <2>3
<1>17. FreshInv'
  <2> SUFFICES ASSUME NEW n \in fresh'
               PROVE  /\ \A d \in Conns : handler'[d].m # n
                      /\ \A p \in QNames : queues'[p] # None => n \notin queues'[p].held
                      /\ \A p \in QNames : qFiles'[p] # None => n \notin qFiles'[p].messages
    BY DEF FreshInv
  <2>1. /\ \A d \in Conns : handler[d].m # n
        /\ \A p \in QNames : queues[p] # None => n \notin queues[p].held
        /\ \A p \in QNames : qFiles[p] # None => n \notin qFiles[p].messages
    BY <1>9, FreshFacts DEF IInv, MsgInv
  <2>2. n # m /\ \A d \in Conns : handler'[d].m # n
    BY <1>7, <1>10, <2>1
  <2>3. \A p \in QNames : qFiles'[p] # None => n \notin qFiles'[p].messages
    BY <1>6, <1>11, <2>1, <2>2
  <2> QED
    BY <1>9, <2>1, <2>2, <2>3
<1> HIDE DEF m
<1>18. DiskInv'
  <2> SUFFICES ASSUME NEW p \in QNames, queues'[p] # None, queues'[p].kind.durable,
                      NEW n \in Msgs, <<p, n>> \notin exposed'
               PROVE  OnDisk(p, n)'
    BY DEF DiskInv
  <2>1. OnDisk(p, n)
    BY <1>1, <1>9 DEF IInv, MsgInv, DiskInv
  <2>2. InFile(p, n) => InFile(p, n)'
    BY <1>11 DEF InFile
  <2> QED
    BY <1>9, <1>16, <2>1, <2>2, OnDiskMono
<1>19. AccountedInv'
  <2> SUFFICES ASSUME NEW p \in QNames, queues'[p] # None, queues'[p].kind.durable, p \notin adrift',
                      NEW n \in qFiles'[p].messages
               PROVE  Accounted(p, n)'
    BY DEF AccountedInv
  <2>1. queues[p] # None /\ queues[p].kind.durable /\ qFiles[p] # None /\ qFiles[p].messages \in SUBSET Msgs
    BY <1>1, <1>9, FileMessages DEF IInv
  <2>2. CASE n \in qFiles[p].messages
    <3>1. Accounted(p, n) /\ n \in Msgs
      BY <1>1, <1>9, <2>1, <2>2 DEF IInv, MsgInv, AccountedInv
    <3> QED
      BY <1>9, <1>12, <1>16, <3>1, AccountedMono
  <2>3. CASE n \notin qFiles[p].messages
    <3>1. p \in S /\ n = m
      BY <1>11, <2>3
    <3> QED
      BY <1>12, <3>1 DEF Accounted
  <2> QED
    BY <2>2, <2>3
<1> QED
  BY <1>10, <1>13, <1>15, <1>17, <1>18, <1>19 DEF IInv, MsgInv

-----------------------------------------------------------------------------
(* Crash and recovery.                                                     *)
LEMMA MandatoryFacts ==
    /\ mandatory \in [AllNames -> ExchangeObject \union {None}]
    /\ mandatory[Default] # None /\ ~mandatory[Default].kind.durable /\ ~mandatory[Default].kind.autoDelete
    /\ mandatory[Default].bindings = {}
    /\ \A e \in ExNames : mandatory[e] = None
<1> DEFINE x == NewExchange(DefaultKind)
<1>1. DefaultKind \in ExchangeKind /\ DefaultKind.durable = FALSE /\ DefaultKind.autoDelete = FALSE
  BY DEF DefaultKind, ExchangeKind, Types
<1>2. x \in ExchangeObject /\ x.kind = DefaultKind /\ x.bindings = {}
  BY <1>1 DEF NewExchange, ExchangeObject
<1>3. x # None
  BY <1>2, NoneAssumption
<1>4. mandatory = [e \in AllNames |-> IF e = Default THEN x ELSE None]
  BY DEF mandatory, AllNames
<1> HIDE DEF x
<1>5. Default \in AllNames /\ Default \notin ExNames /\ ExNames \subseteq AllNames
  BY VHostAssumption DEF AllNames
<1>6. mandatory[Default] = x /\ \A e \in ExNames : mandatory[e] = None
  BY <1>4, <1>5
<1>7. mandatory \in [AllNames -> ExchangeObject \union {None}]
  BY <1>2, <1>4
<1> QED
  BY <1>1, <1>2, <1>3, <1>6, <1>7

(* What a crash may do to the files: bindings are gone, a message that was *)
(* being published is there.                                               *)
BindingsShrink ==
    /\ exFiles' \in [ExNames -> ExchangeFile \union {None}]
    /\ \A e \in ExNames : exFiles'[e] # None =>
         /\ exFiles[e] # None /\ exFiles'[e].kind = exFiles[e].kind
         /\ exFiles'[e].bindings \subseteq exFiles[e].bindings
MessagesGrow ==
    /\ qFiles' \in [QNames -> QueueFile \union {None}]
    /\ \A q \in QNames : /\ qFiles'[q] = None <=> qFiles[q] = None
                         /\ qFiles[q] # None => qFiles'[q].kind = qFiles[q].kind
    /\ fresh' \in SUBSET fresh
    /\ \A n \in fresh', q \in QNames : qFiles'[q] # None => n \notin qFiles'[q].messages

(* The files of a process that died while it deleted a queue. *)
LEMMA PartlyFacts ==
    ASSUME IInv, up, NEW q, exFiles' \in PartlyDeleted(q)
    PROVE  BindingsShrink
<1> DEFINE B(e) == {b \in Bindings(Registry, e) : b.queue = q}
<1>1. Registry \in RegistryType /\ Registry.xf = exFiles
  BY RegistryNow
<1>2. PICK S \in SUBSET ExNames :
        exFiles' = [e \in ExNames |-> IF e \in S THEN KeptFile(Registry, e, B(e)) ELSE exFiles[e]]
  BY DEF PartlyDeleted
<1>3. ASSUME NEW e \in ExNames
      PROVE  /\ exFiles'[e] \in ExchangeFile \union {None}
             /\ exFiles'[e] # None => /\ exFiles[e] # None /\ exFiles'[e].kind = exFiles[e].kind
                                      /\ exFiles'[e].bindings \subseteq exFiles[e].bindings
  <2>1. CASE e \in S
    <3>1. exFiles'[e] = KeptFile(Registry, e, B(e))
      BY <1>2, <2>1
    <3> HIDE DEF B
    <3> QED
      BY <1>1, <3>1, KeptFileFacts
  <2>2. CASE e \notin S
    BY <1>2, <2>2 DEF IInv, TypeOK
  <2> QED
    BY <2>1, <2>2
<1>4. DOMAIN exFiles' = ExNames /\ exFiles' = [e \in ExNames |-> exFiles'[e]]
  BY <1>2
<1> QED
  BY <1>3, <1>4 DEF BindingsShrink

LEMMA CrashStep ==
    ASSUME IInv, Crash
    PROVE  IInv'
<1>1. /\ up /\ up' = FALSE /\ crashes < MaxCrashes /\ crashes' = crashes + 1 /\ exchanges' = mandatory
      /\ queues' = [q \in QNames |-> None] /\ handler' = [c \in Conns |-> Idle]
      /\ conn' = [c \in Conns |-> "closed"] /\ leaked' = {} /\ exposed' = {}
      /\ UNCHANGED <<born, requests, adrift>>
  BY DEF Crash
<1>2. /\ Registry \in RegistryType /\ RegistryInv(Registry, adrift) /\ born \in Nat
      /\ Registry.ex = exchanges /\ Registry.qu = queues /\ Registry.xf = exFiles /\ Registry.qf = qFiles
  BY <1>1, RegistryNow
<1>3. BindingsShrink
  <2>1. CASE UNCHANGED exFiles
    BY <2>1 DEF IInv, TypeOK, BindingsShrink
  <2>2. ASSUME NEW q, exFiles' \in PartlyDeleted(q)
        PROVE  BindingsShrink
    BY <1>1, <2>2, PartlyFacts
  <2>3. (UNCHANGED exFiles) \/ \E q : exFiles' \in PartlyDeleted(q)
    BY DEF Crash
  <2> QED
    BY <2>1, <2>2, <2>3
<1>4. MessagesGrow
  <2>1. CASE UNCHANGED <<qFiles, fresh>>
    BY <2>1 DEF IInv, TypeOK, MsgInv, FreshInv, MessagesGrow
  <2>2. ASSUME NEW e \in ExNames, NEW m \in fresh, NEW S \in SUBSET Savable(Route(e, KeyOf[m])),
               qFiles' = Saved(S, m), fresh' = fresh \ {m}
        PROVE  MessagesGrow
    <3> DEFINE T == Route(e, KeyOf[m])
    <3>1. e \in AllNames
      BY DEF AllNames
    <3>2. \A t \in T : t[1] \in QNames
      BY <1>1, <3>1, RouteFacts DEF IInv
    <3> HIDE DEF T
    <3>3. S \in SUBSET QNames /\ \A q \in S : qFiles[q] # None
      <4>1. S \in SUBSET Savable(T)
        BY DEF T
      <4> QED
        BY <3>2, <4>1, DurableFacts
    <3>4. m \in Msgs
      BY DEF IInv, TypeOK
    <3>5. SavedTo(S, m)
      BY <2>2, <3>3, <3>4, SavedStep DEF IInv
    <3>6. \A n \in fresh', q \in QNames : qFiles'[q] # None => n \notin qFiles'[q].messages
      <4> TAKE n \in fresh', q \in QNames
      <4>1. n \in fresh /\ n # m
        BY <2>2
      <4>2. qFiles[q] # None => n \notin qFiles[q].messages
        BY <4>1 DEF IInv, MsgInv, FreshInv
      <4> QED
        BY <3>3, <3>5, <4>1, <4>2 DEF SavedTo
    <3> QED
      BY <2>2, <3>3, <3>5, <3>6 DEF SavedTo, MessagesGrow
  <2>3. \/ UNCHANGED <<qFiles, fresh>>
        \/ \E e \in ExNames : \E m \in fresh : \E S \in SUBSET Savable(Route(e, KeyOf[m])) :
              qFiles' = Saved(S, m) /\ fresh' = fresh \ {m}
    BY DEF Crash
  <2> QED
    BY <2>1, <2>2, <2>3
<1>5. TypeOK'
  <2>1. crashes' \in 0..MaxCrashes
    BY <1>1, VHostAssumption DEF IInv, TypeOK
  <2>2. queues' \in [QNames -> QueueObject \union {None}] /\ handler' \in [Conns -> Request]
        /\ conn' \in [Conns -> {"open", "closing", "closed"}]
    BY <1>1, IdleFacts
  <2>3. exchanges' \in [ExNames \union {Default} -> ExchangeObject \union {None}]
    BY <1>1, MandatoryFacts DEF AllNames
  <2> QED
    BY <1>1, <1>3, <1>4, <2>1, <2>2, <2>3 DEF IInv, TypeOK, BindingsShrink, MessagesGrow
<1>6. HandlerInv'
  BY <1>1, <1>2, IdleFacts DEF HandlerInv, Backed
<1>7. FilesInv'
  <2>1. \A e \in ExNames : exFiles'[e] # None => exFiles'[e].kind.durable
    BY <1>3 DEF IInv, FilesInv, FileKinds, Registry, BindingsShrink
  <2>2. \A q \in QNames : qFiles'[q] # None => qFiles'[q].kind.durable
    BY <1>4 DEF IInv, FilesInv, FileKinds, Registry, MessagesGrow
  <2> QED
    BY <2>1, <2>2 DEF FilesInv, FileKinds, Registry
<1>8. BornInv' /\ RegInv'
  BY <1>1 DEF BornInv, RegInv
<1>9. MsgInv'
  <2>1. \A n \in fresh' : n # None
    BY <1>4, NoneAssumption DEF IInv, TypeOK, MessagesGrow
  <2> QED
    BY <1>1, <1>4, <2>1, IdleFacts DEF MsgInv, FreshInv, MessagesGrow
<1> QED
  BY <1>5, <1>6, <1>7, <1>8, <1>9 DEF IInv

LEMMA RecoverStep ==
    ASSUME IInv, Recover
    PROVE  IInv'
<1> DEFINE R == Recoverable
<1>1. /\ ~up /\ up' = TRUE /\ born + Cardinality(R) <= MaxBorn /\ born' = born + Cardinality(R)
      /\ conn' = [c \in Conns |-> "open"]
      /\ adrift' = Skipped
      /\ UNCHANGED <<qFiles, handler, requests, crashes, fresh, exposed>>
  BY DEF Recover
<1>2. PICK number \in [R -> (born + 1)..born'], hold \in [R -> SUBSET Msgs] :
        /\ \A q \in R : hold[q] \subseteq qFiles[q].messages
        /\ queues' = [q \in QNames |->
                        IF q \in R THEN [NewQueue(qFiles[q].kind, None, number[q]) EXCEPT !.held = hold[q]] ELSE None]
        /\ exchanges' = [e \in ExNames \union {Default} |->
                            IF e = Default \/ exFiles[e] = None THEN mandatory[e]
                            ELSE [kind |-> [exFiles[e].kind EXCEPT !.internal = FALSE],
                                  bindings |-> RecoveredBindings(e, number),
                                  bound |-> RecoveredBindings(e, number) # {}]]
        /\ leaked' = UNION {{<<q, m>> : m \in qFiles[q].messages \ hold[q]} : q \in R}
  BY DEF Recover
<1>3. R \in SUBSET QNames /\ (\A q \in R : qFiles[q] # None /\ qFiles[q] \in QueueFile)
      /\ \A q \in QNames \ R : qFiles[q] = None \/ q \in adrift'
  BY <1>1 DEF Recoverable, Skipped, IInv, TypeOK
<1>4. Cardinality(R) \in Nat
  BY <1>3, FS_Subset, FS_CardinalityType, VHostAssumption
<1> HIDE DEF R
<1>5. born \in Nat /\ born' \in Nat /\ born <= born' /\ born' \in 0..MaxBorn
      /\ \A q \in R : number[q] \in 1..MaxBorn /\ number[q] <= born'
  <2>1. born \in Nat
    BY VHostAssumption DEF IInv, TypeOK
  <2> QED
    BY <1>1, <1>2, <1>4, <2>1, VHostAssumption
<1>6. \A c \in Conns : handler[c] = Idle
  BY <1>1 DEF IInv, HandlerInv
<1>7. HandlerInv'
  BY <1>1, <1>5, <1>6, IdleFacts DEF HandlerInv, Backed
<1>8. /\ queues' \in [QNames -> QueueObject \union {None}]
      /\ \A q \in QNames \ R : queues'[q] = None
      /\ \A q \in R : /\ queues'[q] # None /\ queues'[q].kind = qFiles[q].kind /\ queues'[q].born = number[q]
                      /\ queues'[q].held = hold[q] /\ queues'[q].consumed = FALSE
  <2>1. ASSUME NEW q \in R
        PROVE  /\ queues'[q] \in QueueObject /\ queues'[q].kind = qFiles[q].kind /\ queues'[q].born = number[q]
               /\ queues'[q].held = hold[q] /\ queues'[q].consumed = FALSE
    <3> DEFINE k == qFiles[q].kind
               x == NewQueue(k, None, number[q])
               y == [x EXCEPT !.held = hold[q]]
    <3>1. queues'[q] = y
      BY <1>2, <1>3
    <3>2. k \in QueueKind
      BY <1>3 DEF QueueFile
    <3> HIDE DEF k
    <3>3. x = [kind |-> k, owner |-> None, born |-> number[q], held |-> {}, consumers |-> {}, consumed |-> FALSE]
      BY DEF NewQueue
    <3>4. number[q] \in 1..MaxBorn /\ hold[q] \in SUBSET Msgs
      BY <1>2, <1>5
    <3>5. x \in QueueObject /\ x.kind = k /\ x.born = number[q] /\ x.consumed = FALSE
      BY <3>2, <3>3, <3>4 DEF QueueObject
    <3> HIDE DEF x
    <3>6. y \in QueueObject /\ y.kind = k /\ y.born = number[q] /\ y.consumed = FALSE /\ y.held = hold[q]
      BY <3>4, <3>5 DEF QueueObject
    <3> HIDE DEF y
    <3> QED
      BY <3>1, <3>6 DEF k
  <2>2. \A q \in QNames \ R : queues'[q] = None
    BY <1>2
  <2>3. DOMAIN queues' = QNames /\ queues' = [q \in QNames |-> queues'[q]]
    BY <1>2
  <2>4. queues' \in [QNames -> QueueObject \union {None}]
    BY <2>1, <2>2, <2>3
  <2> QED
    BY <2>1, <2>2, <2>4, NoneAssumption
<1>9. ASSUME NEW e \in ExNames, exFiles[e] # None
      PROVE  /\ exchanges'[e] \in ExchangeObject /\ exchanges'[e] # None
             /\ SameKind(exFiles[e].kind, exchanges'[e].kind) /\ exchanges'[e].kind.durable
             /\ exchanges'[e].kind.typ = exFiles[e].kind.typ
             /\ exchanges'[e].bindings = RecoveredBindings(e, number)
             /\ exchanges'[e].bound => exchanges'[e].bindings # {}
  <2> DEFINE f == exFiles[e].kind
             k == [f EXCEPT !.internal = FALSE]
             B == RecoveredBindings(e, number)
             bd == B # {}
             x == [kind |-> k, bindings |-> B, bound |-> bd]
  <2>1. exFiles[e] \in ExchangeFile /\ f \in ExchangeKind /\ f.durable
    BY <1>9 DEF IInv, TypeOK, ExchangeFile, FilesInv, FileKinds, Registry
  <2>2. exchanges'[e] = x
    BY <1>2, <1>9, VHostAssumption
  <2>3. B \in SUBSET Binding
    <3> SUFFICES ASSUME NEW b \in exFiles[e].bindings, b.queue \in R
                 PROVE  [key |-> b.key, queue |-> b.queue, born |-> number[b.queue]] \in Binding
      BY DEF RecoveredBindings, R
    <3>1. b \in FileBinding
      BY <2>1 DEF ExchangeFile
    <3> QED
      BY <1>5, <3>1 DEF FileBinding, Binding
  <2>4. k \in ExchangeKind /\ k.durable /\ SameKind(f, k) /\ k.typ = f.typ
    <3> HIDE DEF f
    <3> QED
      BY <2>1 DEF ExchangeKind, SameKind
  <2>5. bd \in BOOLEAN
    OBVIOUS
  <2> HIDE DEF k, B, f, bd
  <2>6. x \in ExchangeObject /\ x.kind = k /\ x.bindings = B /\ x.bound = bd
    BY <2>3, <2>4, <2>5 DEF ExchangeObject
  <2>7. x # None
    BY <2>6, NoneAssumption
  <2> HIDE DEF x
  <2> QED
    BY <2>2, <2>4, <2>6, <2>7 DEF f, B, bd
<1>10. exchanges'[Default] = mandatory[Default] /\ \A e \in ExNames : exFiles[e] = None => exchanges'[e] = None
  BY <1>2, MandatoryFacts
<1>11. exchanges' \in [ExNames \union {Default} -> ExchangeObject \union {None}]
  <2>1. \A e \in ExNames \union {Default} : exchanges'[e] \in ExchangeObject \union {None}
    BY <1>9, <1>10, MandatoryFacts DEF AllNames
  <2>2. DOMAIN exchanges' = ExNames \union {Default} /\ exchanges' = [e \in ExNames \union {Default} |-> exchanges'[e]]
    BY <1>2
  <2> QED
    BY <2>1, <2>2
<1>12. /\ leaked' \in SUBSET (QNames \X Msgs)
       /\ \A q \in R : \A m \in qFiles[q].messages : m \in hold[q] \/ <<q, m>> \in leaked'
  <2>1. \A q \in R : qFiles[q].messages \in SUBSET Msgs
    BY <1>3 DEF QueueFile
  <2> QED
    BY <1>2, <1>3, <2>1
<1>18. /\ exFiles' \in [ExNames -> ExchangeFile \union {None}]
       /\ \A e \in ExNames : exFiles'[e] # None => exFiles'[e].kind.durable
       /\ \A e \in ExNames \ adrift' : exFiles'[e] = exFiles[e]
  <2>1. PICK X \in SUBSET Skipped : exFiles' = [e \in ExNames |-> IF e \in X THEN Refiled(e) ELSE exFiles[e]]
    BY DEF Recover
  <2>2. ASSUME NEW e \in ExNames
        PROVE  /\ Refiled(e) \in ExchangeFile \union {None}
               /\ Refiled(e) # None => Refiled(e).kind.durable
    <3>1. CASE exFiles[e] = None
      BY <3>1 DEF Refiled
    <3>2. CASE exFiles[e] # None
      <4> DEFINE f == exFiles[e]
                 N == {Entry(f, b) : b \in {x \in f.bindings : x.queue \in Recoverable}}
                 B == f.bindings \union N
                 g == [f EXCEPT !.bindings = B]
      <4>1. Refiled(e) = g
        BY <3>2 DEF Refiled
      <4>2. f \in ExchangeFile /\ f.kind.durable
        BY <3>2 DEF IInv, TypeOK, FilesInv, FileKinds, Registry
      <4>3. \A b \in FileBinding : Entry(f, b) \in FileBinding
        BY DEF Entry, FileBinding, Keys
      <4>4. B \in SUBSET FileBinding
        BY <4>2, <4>3 DEF ExchangeFile
      <4> HIDE DEF B, f
      <4>5. g \in ExchangeFile /\ g.kind = f.kind
        BY <4>2, <4>4 DEF ExchangeFile
      <4> QED
        BY <4>1, <4>2, <4>5
    <3> QED
      BY <3>1, <3>2
  <2>3. ASSUME NEW e \in ExNames
        PROVE  /\ exFiles'[e] \in ExchangeFile \union {None}
               /\ exFiles'[e] # None => exFiles'[e].kind.durable
               /\ e \notin adrift' => exFiles'[e] = exFiles[e]
    <3>1. exFiles[e] \in ExchangeFile \union {None} /\ (exFiles[e] # None => exFiles[e].kind.durable)
      BY DEF IInv, TypeOK, FilesInv, FileKinds, Registry
    <3>2. exFiles'[e] = IF e \in X THEN Refiled(e) ELSE exFiles[e]
      BY <2>1
    <3> QED
      BY <1>1, <2>2, <3>1, <3>2
  <2>4. DOMAIN exFiles' = ExNames /\ exFiles' = [e \in ExNames |-> exFiles'[e]]
    BY <2>1
  <2> QED
    BY <2>3, <2>4
<1>13. TypeOK'
  <2>1. adrift' \subseteq ExNames \union {Default} \union QNames
    BY <1>1 DEF Skipped
  <2> QED
    BY <1>1, <1>5, <1>8, <1>11, <1>12, <1>18, <2>1 DEF IInv, TypeOK
<1>15. FilesInv'
  BY <1>1, <1>18 DEF IInv, FilesInv, FileKinds, Registry
<1>14. RegInv'
  <2>1. Registry'.ex = exchanges' /\ Registry'.qu = queues' /\ Registry'.xf = exFiles' /\ Registry'.qf = qFiles
    BY <1>1 DEF Registry
  <2>2. ASSUME NEW e \in ExNames \ adrift', NEW b \in FileBinding, exFiles[e] # None
        PROVE  Listed(exchanges'[e], queues', b) <=> b \in exFiles[e].bindings /\ b.queue \in R
    <3>1. exFiles[e].bindings \in SUBSET FileBinding
      BY <2>2 DEF IInv, TypeOK, ExchangeFile
    <3>2. \A x \in exFiles[e].bindings : Entry(exFiles[e], x) = x
      BY <1>1, <2>2 DEF Skipped
    <3>3. \A q \in R : queues'[q].kind.durable
      BY <1>3, <1>8 DEF IInv, FilesInv, FileKinds, Registry
    <3>4. exchanges'[e].bindings = {[key |-> x.key, queue |-> x.queue, born |-> number[x.queue]] :
                                      x \in {x \in exFiles[e].bindings : x.queue \in R}}
      BY <1>9, <2>2 DEF RecoveredBindings, R
    <3>7. ASSUME NEW x \in exFiles[e].bindings
          PROVE  Entry(exchanges'[e], [key |-> x.key, queue |-> x.queue, born |-> number[x.queue]]) = x
      <4> DEFINE d == [key |-> x.key, queue |-> x.queue, born |-> number[x.queue]]
      <4>1. d.key = x.key /\ d.queue = x.queue
        OBVIOUS
      <4> HIDE DEF d
      <4>2. exchanges'[e].kind.typ = exFiles[e].kind.typ
        BY <1>9, <2>2
      <4>3. Entry(exchanges'[e], d) = Entry(exFiles[e], x)
        BY <4>1, <4>2 DEF Entry
      <4> QED
        BY <3>2, <4>3 DEF d
    <3>5. ASSUME Listed(exchanges'[e], queues', b)
          PROVE  b \in exFiles[e].bindings /\ b.queue \in R
      <4>1. PICK d \in exchanges'[e].bindings : Entry(exchanges'[e], d) = b
        BY <3>5 DEF Listed
      <4>2. PICK x \in exFiles[e].bindings :
              x.queue \in R /\ d = [key |-> x.key, queue |-> x.queue, born |-> number[x.queue]]
        BY <3>4
      <4>3. x = b
        BY <3>7, <4>1, <4>2
      <4> QED
        BY <4>2, <4>3
    <3>6. ASSUME b \in exFiles[e].bindings, b.queue \in R
          PROVE  Listed(exchanges'[e], queues', b)
      <4> DEFINE d == [key |-> b.key, queue |-> b.queue, born |-> number[b.queue]]
      <4>1. d \in exchanges'[e].bindings
        BY <3>4, <3>6
      <4>2. Entry(exchanges'[e], d) = b
        BY <3>6, <3>7
      <4>3. queues'[d.queue].kind.durable
        BY <3>3, <3>6
      <4> HIDE DEF d
      <4> QED
        BY <4>1, <4>2, <4>3 DEF Listed
    <3> QED
      BY <3>5, <3>6
  <2>3. \A e \in ExNames \ adrift' : FileEx(exchanges'[e], exFiles'[e], queues', adrift')
    <3> TAKE e \in ExNames \ adrift'
    <3>0. exFiles'[e] = exFiles[e]
      BY <1>18
    <3>1. CASE exFiles[e] = None
      BY <1>10, <3>0, <3>1 DEF FileEx
    <3>2. CASE exFiles[e] # None
      <4>1. ASSUME NEW b \in FileBinding, b.queue \notin adrift', b \in exFiles[e].bindings
            PROVE  b.queue \in R
        <5>1. b.queue \in QNames
          BY DEF FileBinding
        <5> QED
          BY <1>1, <3>2, <4>1, <5>1 DEF Skipped, R
      <4>2. \A b \in FileBinding : b.queue \notin adrift' =>
              (b \in exFiles[e].bindings <=> Listed(exchanges'[e], queues', b))
        BY <2>2, <3>2, <4>1
      <4> QED
        BY <1>9, <3>0, <3>2, <4>2 DEF FileEx
    <3> QED
      BY <3>1, <3>2
  <2>4. ASSUME NEW e \in AllNames PROVE LiveEx(exchanges'[e], queues') /\ AutoEx(exchanges'[e])
    <3>1. CASE e = Default
      BY <1>10, <3>1, MandatoryFacts DEF LiveEx, AutoEx
    <3>2. CASE e # Default /\ exFiles[e] = None
      <4>1. exchanges'[e] = None
        BY <1>10, <3>2 DEF AllNames
      <4> QED
        BY <4>1 DEF LiveEx, AutoEx
    <3>3. CASE e # Default /\ exFiles[e] # None
      <4>1. e \in ExNames
        BY <3>3 DEF AllNames
      <4>2. AutoEx(exchanges'[e])
        BY <1>9, <3>3, <4>1 DEF AutoEx
      <4>3. ASSUME NEW d \in exchanges'[e].bindings
            PROVE  queues'[d.queue] # None /\ queues'[d.queue].born = d.born
        <5>1. d \in RecoveredBindings(e, number)
          BY <1>9, <3>3, <4>1
        <5>2. PICK x \in exFiles[e].bindings :
                x.queue \in R /\ d = [key |-> x.key, queue |-> x.queue, born |-> number[x.queue]]
          BY <5>1 DEF RecoveredBindings, R
        <5>3. d.queue \in R /\ d.born = number[d.queue]
          BY <5>2
        <5> QED
          BY <1>8, <5>3
      <4> QED
        BY <4>2, <4>3 DEF LiveEx
    <3> QED
      BY <3>1, <3>2, <3>3
  <2>5. ASSUME NEW q \in QNames
        PROVE  AutoQu(queues'[q]) /\ FileQu(queues'[q], qFiles[q], q \in adrift')
    <3>1. CASE q \in R
      <4>1. queues'[q] # None /\ queues'[q].consumed = FALSE /\ queues'[q].kind = qFiles[q].kind
            /\ qFiles[q] # None /\ qFiles[q].kind.durable
        BY <1>3, <1>8, <3>1 DEF IInv, FilesInv, FileKinds, Registry
      <4> QED
        BY <4>1 DEF AutoQu, FileQu
    <3>2. CASE q \notin R
      <4>1. queues'[q] = None /\ (q \in adrift' \/ qFiles[q] = None)
        BY <1>3, <1>8, <3>2
      <4> QED
        BY <4>1 DEF AutoQu, FileQu
    <3> QED
      BY <3>1, <3>2
  <2>6. /\ exchanges'[Default] # None /\ ~exchanges'[Default].kind.durable /\ ~exchanges'[Default].kind.autoDelete
    BY <1>10, MandatoryFacts
  <2>7. RegistryInv(Registry', adrift')
    BY <1>15, <2>1, <2>3, <2>4, <2>5, <2>6 DEF RegistryInv, FilesInv
  <2> QED
    BY <2>7 DEF RegInv
<1>16. BornInv'
  BY <1>5, <1>8 DEF BornInv
<1>17. MsgInv'
  <2>1. FreshInv'
    <3> SUFFICES ASSUME NEW n \in fresh'
                 PROVE  /\ \A d \in Conns : handler'[d].m # n
                        /\ \A p \in QNames : queues'[p] # None => n \notin queues'[p].held
                        /\ \A p \in QNames : qFiles'[p] # None => n \notin qFiles'[p].messages
      BY DEF FreshInv
    <3>1. n \in fresh /\ n # None
      BY <1>1, NoneAssumption DEF IInv, TypeOK
    <3>2. \A p \in QNames : qFiles[p] # None => n \notin qFiles[p].messages
      BY <3>1 DEF IInv, MsgInv, FreshInv
    <3>3. \A p \in QNames : queues'[p] # None => n \notin queues'[p].held
      BY <1>2, <1>3, <1>8, <3>2
    <3> QED
      BY <1>1, <1>6, <3>1, <3>2, <3>3, IdleFacts
  <2>2. ASSUME NEW c \in Conns, NEW q \in QNames, NEW m \in Msgs
        PROVE  ~Pushing(c, q, m)' /\ ~Taken(c, q, m)'
    <3>1. handler'[c].m # m
      BY <1>1, <1>6, IdleFacts, NoneAssumption
    <3> QED
      BY <3>1 DEF Pushing, Taken
  <2>3. DiskInv'
    <3> SUFFICES ASSUME NEW q \in QNames, queues'[q] # None, NEW m \in Msgs
                 PROVE  OnDisk(q, m)'
      BY DEF DiskInv
    <3>1. m \in queues'[q].held => InFile(q, m)'
      BY <1>1, <1>2, <1>3, <1>8 DEF InFile
    <3> QED
      BY <2>2, <3>1 DEF OnDisk
  <2>4. AccountedInv'
    <3> SUFFICES ASSUME NEW q \in QNames, queues'[q] # None, NEW m \in qFiles'[q].messages
                 PROVE  Accounted(q, m)'
      BY DEF AccountedInv
    <3>1. q \in R /\ queues'[q].held = hold[q]
      BY <1>8
    <3> QED
      BY <1>1, <1>12, <3>1 DEF Accounted
  <2> QED
    BY <2>1, <2>3, <2>4 DEF MsgInv
<1> QED
  BY <1>7, <1>13, <1>14, <1>15, <1>16, <1>17 DEF IInv

-----------------------------------------------------------------------------
(* The invariant holds, and says what the properties say.                  *)
LEMMA InitInv == Init => IInv
<1> SUFFICES ASSUME Init PROVE IInv
  OBVIOUS
<1>1. TypeOK
  <2>1. exchanges \in [ExNames \union {Default} -> ExchangeObject \union {None}]
    BY MandatoryFacts DEF Init, AllNames
  <2> QED
    BY <2>1, IdleFacts, VHostAssumption DEF Init, TypeOK
<1>2. born = 0 /\ \A c \in Conns : handler[c] = Idle
  BY DEF Init
<1>3. HandlerInv
  BY <1>2, IdleFacts DEF Init, HandlerInv, Backed
<1>5. FilesInv /\ BornInv
  BY DEF Init, FilesInv, FileKinds, Registry, BornInv
<1>4. RegInv
  <2>1. /\ Registry.ex = mandatory /\ Registry.qu = [q \in QNames |-> None]
        /\ Registry.xf = [e \in ExNames |-> None] /\ Registry.qf = [q \in QNames |-> None]
    BY DEF Init, Registry
  <2>2. \A e \in AllNames : LiveEx(mandatory[e], Registry.qu) /\ AutoEx(mandatory[e])
    BY MandatoryFacts DEF AllNames, LiveEx, AutoEx
  <2>3. \A e \in ExNames : FileEx(mandatory[e], Registry.xf[e], Registry.qu, adrift)
    BY <2>1, MandatoryFacts DEF FileEx
  <2>4. \A q \in QNames : AutoQu(Registry.qu[q]) /\ FileQu(Registry.qu[q], Registry.qf[q], q \in adrift)
    BY <2>1 DEF AutoQu, FileQu
  <2> QED
    BY <1>5, <2>1, <2>2, <2>3, <2>4, MandatoryFacts DEF RegInv, RegistryInv, FilesInv
<1>6. MsgInv
  BY IdleFacts, NoneAssumption DEF Init, MsgInv, FreshInv, DiskInv, AccountedInv
<1> QED
  BY <1>1, <1>3, <1>4, <1>5, <1>6 DEF IInv

LEMMA StutterInv ==
    ASSUME IInv, UNCHANGED vars
    PROVE  IInv'
<1>1. /\ UNCHANGED <<exchanges, queues, exFiles, qFiles, conn, handler, born, requests, crashes, up, fresh>>
      /\ UNCHANGED <<adrift, leaked, exposed>> /\ Registry' = Registry
  BY DEF vars, Registry
<1>2. TypeOK' /\ HandlerInv' /\ RegInv' /\ FilesInv' /\ BornInv'
  BY <1>1 DEF IInv, TypeOK, HandlerInv, Backed, RegInv, FilesInv, BornInv
<1>3. MsgInv'
  BY <1>1 DEF IInv, MsgInv, FreshInv, DiskInv, AccountedInv, OnDisk, InFile, Accounted, Pushing, Taken, WillRemove
<1> QED
  BY <1>2, <1>3 DEF IInv

LEMMA AdminRequestStep ==
    ASSUME IInv, AdminRequest
    PROVE  IInv'
<1>1. Admin \in Conns
  BY DEF Conns
<1>2. ASSUME NEW e \in ExNames, NEW k \in ExchangeKind, AdminCreateExchange(e, k) PROVE IInv'
  BY <1>1, <1>2, CreateExchangeStep DEF AdminCreateExchange
<1>3. ASSUME NEW q \in QNames, NEW k \in QueueKinds[q], AdminCreateQueue(q, k) PROVE IInv'
  <2>1. k \in QueueKind
    BY VHostAssumption
  <2> QED
    BY <1>1, <1>3, <2>1, CreateQueueStep DEF AdminCreateQueue
<1>4. ASSUME NEW q \in QNames, NEW flags \in Deletion, AdminDeleteQueue(q, flags) PROVE IInv'
  BY <1>1, <1>4, DeletableStep DEF AdminDeleteQueue
<1>5. ASSUME NEW q \in QNames, NEW e \in ExNames \union {Default}, NEW key \in BindKeys,
             AdminCreateBinding(e, q, key) \/ AdminDeleteBinding(e, q, key)
      PROVE  IInv'
  <2>1. e \in AllNames
    BY DEF AllNames
  <2> QED
    BY <1>1, <1>5, <2>1, BindQueueStep, UnbindQueueStep DEF AdminCreateBinding, AdminDeleteBinding
<1>6. ASSUME NEW e \in ExNames \union {Default}, NEW m \in Msgs, AdminPublish(e, m) PROVE IInv'
  <2>1. e \in AllNames
    BY DEF AllNames
  <2> QED
    BY <1>1, <1>6, <2>1, PublishStep DEF AdminPublish
<1> QED
  BY <1>2, <1>3, <1>4, <1>5, <1>6 DEF AdminRequest

LEMMA NextInv == IInv /\ [Next]_vars => IInv'
<1> SUFFICES ASSUME IInv, [Next]_vars PROVE IInv'
  OBVIOUS
<1>1. ASSUME NEW c \in Conns, NEW e \in ExNames,
             \/ \E k \in ExchangeKinds[e] : DeclareExchange(c, e, k)
             \/ CheckExchangeUnused(c, e)
             \/ DeleteExchange(c, e)
      PROVE  IInv'
  <2>1. ASSUME NEW k \in ExchangeKinds[e], DeclareExchange(c, e, k) PROVE IInv'
    <3>1. k \in ExchangeKind
      BY VHostAssumption
    <3> QED
      BY <2>1, <3>1, CreateExchangeStep DEF DeclareExchange
  <2> QED
    BY <1>1, <2>1, CheckExchangeUnusedStep, DeleteExchangeStep
<1>2. ASSUME NEW c \in Conns, NEW q \in QNames,
             \/ \E k \in QueueKinds[q] : DeclareQueue(c, q, k)
             \/ \E flags \in Deletion : CheckQueueDelete(c, q, flags)
             \/ RegisterConsumer(c, q)
             \/ CancelConsumer(c, q)
      PROVE  IInv'
  <2>1. ASSUME NEW k \in QueueKinds[q], DeclareQueue(c, q, k) PROVE IInv'
    <3>1. k \in QueueKind
      BY VHostAssumption
    <3> QED
      BY <2>1, <3>1, CreateQueueStep DEF DeclareQueue
  <2>2. ASSUME NEW flags \in Deletion, CheckQueueDelete(c, q, flags) PROVE IInv'
    BY <2>2, DeletableStep DEF CheckQueueDelete
  <2> QED
    BY <1>2, <2>1, <2>2, RegisterConsumerStep, CancelConsumerStep
<1>3. ASSUME NEW c \in Conns, NEW q \in QNames, NEW e \in ExNames \union {Default}, NEW key \in BindKeys,
             QueueBind(c, e, q, key) \/ QueueUnbind(c, e, q, key)
      PROVE  IInv'
  <2>1. e \in AllNames
    BY DEF AllNames
  <2> QED
    BY <1>3, <2>1, BindQueueStep, UnbindQueueStep DEF QueueBind, QueueUnbind
<1>4. ASSUME NEW c \in Conns, NEW q \in QNames, NEW m \in Msgs,
             \/ Settle(c, q, m)
             \/ GetNoAck(c, q, m)
             \/ Discard(c, q, m, {}) \/ Discard(c, q, m, {"remove"})
             \/ RequeueExpired(c, q, m)
      PROVE  IInv'
  BY <1>4, SettleStep, GetNoAckStep, DiscardStep, RequeueExpiredStep
<1>5. ASSUME NEW c \in Conns, NEW e \in ExNames \union {Default}, NEW m \in Msgs,
             BasicPublish(c, e, m) \/ PublishFails(c, e, m)
      PROVE  IInv'
  <2>1. e \in AllNames
    BY DEF AllNames
  <2> QED
    BY <1>5, <2>1, PublishStep, PublishFailsStep DEF BasicPublish
<1>6. ASSUME NEW c \in Conns,
             \/ BindToDefaultExchange(c) \/ DeleteQueue(c) \/ DeadLetter(c) \/ DeadLetterFails(c) \/ RemoveMessage(c)
             \/ \E t \in handler[c].to : Push(c, t)
      PROVE  IInv'
  BY <1>6, BindToDefaultStep, DeleteQueueStep, DeadLetterStep, DeadLetterFailsStep, RemoveMessageStep, PushStep
<1>7. ASSUME NEW c \in Clients, CleanupConnection(c) PROVE IInv'
  BY <1>7, CleanupConnectionStep
<1>8. CASE AdminRequest
  BY <1>8, AdminRequestStep
<1>9. CASE Crash
  BY <1>9, CrashStep
<1>10. CASE Recover
  BY <1>10, RecoverStep
<1>11. CASE UNCHANGED vars
  BY <1>11, StutterInv
<1>12. CASE Next
  <2>1. ASSUME NEW c \in Conns, NEW q \in QNames, NEW e \in ExNames \union {Default}, NEW key \in BindKeys,
               QueueBind(c, e, q, key) \/ QueueUnbind(c, e, q, key)
        PROVE  IInv'
    BY <1>3, <2>1
  <2> QED
    BY <1>1, <1>2, <1>3, <1>4, <1>5, <1>6, <1>7, <1>8, <1>9, <1>10, <1>12 DEF Next
<1> QED
  BY <1>11, <1>12

LEMMA InvImplies == IInv => BindingsLive /\ AutoDeleteHappens /\ RegistrySurvives /\ HeldOnDisk /\ SettledStaysSettled
<1> SUFFICES ASSUME IInv
             PROVE  BindingsLive /\ AutoDeleteHappens /\ RegistrySurvives /\ HeldOnDisk /\ SettledStaysSettled
  OBVIOUS
<1>1. /\ Registry \in RegistryType
      /\ Registry.ex = exchanges /\ Registry.qu = queues /\ Registry.xf = exFiles /\ Registry.qf = qFiles
  BY RegistryTyped DEF IInv
<1>2. BindingsLive
  <2> SUFFICES ASSUME up, NEW e \in AllNames, NEW b \in Bindings(Registry, e)
               PROVE  queues[b.queue] # None /\ queues[b.queue].born = b.born
    BY DEF BindingsLive, IInv, TypeOK, AllNames
  <2>1. LiveEx(exchanges[e], queues)
    BY <1>1 DEF IInv, RegInv, RegistryInv
  <2> QED
    BY <1>1, <2>1 DEF LiveEx, Bindings
<1>3. AutoDeleteHappens
  <2>1. CASE up
    <3>1. \A e \in ExNames : AutoEx(exchanges[e])
      BY <1>1, <2>1 DEF IInv, RegInv, RegistryInv, AllNames
    <3>2. \A q \in QNames : AutoQu(queues[q])
      BY <1>1, <2>1 DEF IInv, RegInv, RegistryInv
    <3> QED
      BY <3>1, <3>2 DEF AutoDeleteHappens, AutoEx, AutoQu
  <2>2. CASE ~up
    BY <2>2, MandatoryFacts DEF IInv, HandlerInv, AutoDeleteHappens
  <2> QED
    BY <2>1, <2>2
<1>4. RegistrySurvives
  <2> SUFFICES ASSUME up
               PROVE  /\ \A e \in ExNames \ adrift :
                          IF exchanges[e] # None /\ exchanges[e].kind.durable
                          THEN /\ exFiles[e] # None
                               /\ SameKind(exFiles[e].kind, exchanges[e].kind)
                               /\ \A b \in FileBinding : b.queue \notin adrift =>
                                      (b \in exFiles[e].bindings <=> b \in Entries(Registry, e, Binding))
                          ELSE exFiles[e] = None
                      /\ \A q \in QNames \ adrift :
                          IF queues[q] # None /\ queues[q].kind.durable
                          THEN qFiles[q] # None /\ qFiles[q].kind = queues[q].kind
                          ELSE qFiles[q] = None
    BY DEF RegistrySurvives
  <2>1. ASSUME NEW e \in ExNames, NEW b, exchanges[e] # None
        PROVE  b \in Entries(Registry, e, Binding) <=> Listed(exchanges[e], queues, b)
    <3>1. e \in AllNames
      BY DEF AllNames
    <3>2. exchanges[e].bindings \subseteq Binding
      BY <1>1, <2>1, <3>1 DEF RegistryType, ExchangeObject
    <3>3. Bindings(Registry, e) \intersect Binding = exchanges[e].bindings
      BY <1>1, <2>1, <3>2 DEF Bindings
    <3> QED
      BY <1>1, <3>3 DEF Entries, Listed
  <2>2. \A e \in ExNames \ adrift : FileEx(exchanges[e], exFiles[e], queues, adrift)
    BY <1>1 DEF IInv, RegInv, RegistryInv
  <2>3. \A q \in QNames : FileQu(queues[q], qFiles[q], q \in adrift)
    BY <1>1 DEF IInv, RegInv, RegistryInv
  <2>4. ASSUME NEW e \in ExNames \ adrift
        PROVE  IF exchanges[e] # None /\ exchanges[e].kind.durable
               THEN /\ exFiles[e] # None
                    /\ SameKind(exFiles[e].kind, exchanges[e].kind)
                    /\ \A b \in FileBinding : b.queue \notin adrift =>
                           (b \in exFiles[e].bindings <=> b \in Entries(Registry, e, Binding))
               ELSE exFiles[e] = None
    BY <2>1, <2>2 DEF FileEx
  <2>5. ASSUME NEW q \in QNames \ adrift
        PROVE  IF queues[q] # None /\ queues[q].kind.durable
               THEN qFiles[q] # None /\ qFiles[q].kind = queues[q].kind
               ELSE qFiles[q] = None
    BY <2>3 DEF FileQu
  <2> QED
    BY <2>4, <2>5
<1>5. HeldOnDisk
  <2> SUFFICES ASSUME up, NEW q \in QNames, queues[q] # None, queues[q].kind.durable, NEW m \in queues[q].held,
                      <<q, m>> \notin exposed
               PROVE  m \in Listing(Registry, q)
    BY DEF HeldOnDisk
  <2>1. m \in Msgs
    BY DEF IInv, TypeOK, QueueObject
  <2>2. OnDisk(q, m)
    BY <2>1 DEF IInv, MsgInv, DiskInv
  <2> QED
    BY <1>1, <2>2 DEF OnDisk, InFile, Listing
<1>6. SettledStaysSettled
  <2> SUFFICES ASSUME up, NEW q \in QNames \ adrift, qFiles[q] # None, NEW m \in qFiles[q].messages
               PROVE  m \in queues[q].held \/ <<q, m>> \in leaked \/ OnItsWay(q, m)
    BY DEF SettledStaysSettled
  <2>1. FileQu(queues[q], qFiles[q], q \in adrift)
    BY <1>1 DEF IInv, RegInv, RegistryInv
  <2>2. queues[q] # None /\ queues[q].kind.durable
    BY <2>1 DEF FileQu
  <2>3. Accounted(q, m)
    BY <2>2 DEF IInv, MsgInv, AccountedInv
  <2>4. ASSUME NEW c \in Conns, Pushing(c, q, m) \/ WillRemove(c, q, m)
        PROVE  OnItsWay(q, m)
    <3>1. CASE Pushing(c, q, m)
      <4> DEFINE t == <<q, queues[q].born>>
      <4>1. t \in handler[c].to /\ t[1] = q /\ handler[c].m = m
        BY <3>1 DEF Pushing
      <4> HIDE DEF t
      <4>2. q \in {s[1] : s \in handler[c].to}
        BY <4>1
      <4> QED
        BY <4>1, <4>2 DEF OnItsWay
    <3>2. CASE WillRemove(c, q, m)
      BY <3>2 DEF WillRemove, Taken, OnItsWay
    <3> QED
      BY <2>4, <3>1, <3>2
  <2> QED
    BY <2>3, <2>4 DEF Accounted
<1> QED
  BY <1>2, <1>3, <1>4, <1>5, <1>6

LEMMA Invariance == Spec => []IInv
  BY InitInv, NextInv, PTL DEF Spec

(* Every value of the registry's variables stays one the code can build    *)
(* (vhost.go, queue.go, exchange.go): in particular queue objects are      *)
(* numbered within bounds and handlers refer to declared names only.       *)
THEOREM RegistryTypeCorrect == Spec => []TypeOK
<1>1. IInv => TypeOK
  BY DEF IInv
<1> QED
  BY <1>1, Invariance, PTL

(* A binding always leads to the queue object registered under its name:   *)
(* no deletion, declaration, unbinding, cleanup, crash or recovery leaves  *)
(* one behind (queue.go:826, binding.go:28, vhost.go:281).                 *)
THEOREM NoDanglingBinding == Spec => []BindingsLive
  BY InvImplies, Invariance, PTL

(* Auto-delete exchanges and queues go with their last binding and their   *)
(* last consumer, however those were lost (exchange.go:246,                *)
(* consumer.go:735).                                                       *)
THEOREM UnusedIsDeleted == Spec => []AutoDeleteHappens
  BY InvImplies, Invariance, PTL

(* Whatever the store fails to do, the files list exactly the durable      *)
(* exchanges, queues and bindings of the running registry, up to the names *)
(* that were set adrift: by a save or a removal that failed, by unbinding  *)
(* one of several copies from a fanout exchange, or by a recovery that     *)
(* skipped them (exchange.go:147, queue.go:528, binding.go:118).           *)
THEOREM FilesFollowRegistry == Spec => []RegistrySurvives
  BY InvImplies, Invariance, PTL

(* A persistent message a durable queue holds is in the queue's file,      *)
(* whatever the store fails to do, unless the queue got it twice under one *)
(* id, as a dead letter or from two copies of a fanout binding, or got it  *)
(* back after it expired (message.go:149, message.go:362, recover.go:84).  *)
THEOREM HeldIsSaved == Spec => []HeldOnDisk
  BY InvImplies, Invariance, PTL

(* A message comes back after a restart only if it was not settled, or by  *)
(* one of the five paths that leave it in the file: a dead-lettered        *)
(* rejection, a no-ack get, a full channel, a publish refused half-way and *)
(* a failed removal (ack.go:42, ack.go:183, queue.go:648, message.go:222), *)
(* or if the queue's own file was set adrift.                              *)
THEOREM SettledIsGone == Spec => []SettledStaysSettled
  BY InvImplies, Invariance, PTL

-----------------------------------------------------------------------------
(***************************************************************************)
(* Topic matching.  Cut generalises Means to what is left of the key from  *)
(* word i and of the pattern from word p.  It solves the equation that     *)
(* matchWords' recursion states, and by induction on what is left nothing  *)
(* else does.                                                              *)
(***************************************************************************)
(* A nonempty set of numbers has a least one. *)
LEMMA LessIsWellFounded ==
    \E R : IsWellFoundedOn(R, Nat) /\ \A x, y \in Nat : <<x, y>> \in R <=> x < y
<1> DEFINE R == OpToRel(<, Nat)
<1>1. \A x, y \in Nat : <<x, y>> \in R <=> x < y
  BY DEF OpToRel
<1>2. IsWellFoundedOn(R, Nat)
  BY NatLessThanWellFounded
<1> HIDE DEF R
<1> QED
  BY <1>1, <1>2

LEMMA Smallest ==
    ASSUME NEW T \in SUBSET Nat, T # {}
    PROVE  \E n \in T : \A x \in T : n <= x
<1>1. PICK R : IsWellFoundedOn(R, Nat) /\ \A x, y \in Nat : <<x, y>> \in R <=> x < y
  BY LessIsWellFounded
<1>2. IsWellFoundedOn(R, Nat) /\ T \subseteq Nat
  BY <1>1
<1>3. PICK n \in T : \A y \in T : ~ (<<y, n>> \in R)
  BY <1>2, WFMin, Zenon
<1>4. \A y \in T : ~ (y < n)
  BY <1>1, <1>3
<1> QED
  BY <1>4

Piece(r, pat, end, n) ==
    IF pat[n] = Hash THEN end[n] >= end[n - 1]
    ELSE end[n] = end[n - 1] + 1 /\ (pat[n] = Star \/ pat[n] = r[end[n]])
IsCut(r, pat, i, p, end) ==
    /\ end[p - 1] = i - 1 /\ end[Len(pat)] = Len(r)
    /\ \A n \in p..Len(pat) : Piece(r, pat, end, n)
Ends(p, N, L) == [(p - 1)..N -> 0..L]
Cut(r, pat, i, p) == \E end \in Ends(p, Len(pat), Len(r)) : IsCut(r, pat, i, p, end)

Calls(r, pat) == (1..(Len(r) + 1)) \X (1..(Len(pat) + 1))
Answer(r, pat, m, at) ==
    LET i == at[1]  p == at[2]
    IN  IF p > Len(pat) THEN i > Len(r)
        ELSE IF i > Len(r) THEN OnlyHashes(pat, p)
        ELSE IF pat[p] = Hash THEN m[<<i, p + 1>>] \/ m[<<i + 1, p>>]
        ELSE (pat[p] = Star \/ pat[p] = r[i]) /\ m[<<i + 1, p + 1>>]
Recursion(r, pat, m) == m = [at \in Calls(r, pat) |-> Answer(r, pat, m, at)]

LEMMA MeansIsCut ==
    ASSUME NEW W, NEW r \in Seq(W), NEW pat \in Seq(W)
    PROVE  Means(r, pat) <=> Cut(r, pat, 1, 1)
<1>1. Len(pat) \in Nat /\ 1 - 1 = 0
  OBVIOUS
<1> QED
  BY <1>1 DEF Means, Cut, Ends, IsCut, Piece

(* A cut of what follows, with the end before it. *)
LEMMA EndsIn ==
    ASSUME NEW N \in Nat, NEW L \in Nat, NEW p \in 1..N, NEW e
    PROVE  /\ e \in Ends(p, N, L) => e[p - 1] \in 0..L /\ e[p] \in 0..L
           /\ e \in Ends(p + 1, N, L) => e[p] \in 0..L
BY DEF Ends

LEMMA DropFirst ==
    ASSUME NEW N \in Nat, NEW L \in Nat, NEW p \in 1..N, NEW e \in Ends(p, N, L)
    PROVE  \E f \in Ends(p + 1, N, L) : \A n \in p..N : f[n] = e[n]
<1> DEFINE f == [n \in p..N |-> e[n]]
<1>1. f \in Ends(p + 1, N, L) /\ \A n \in p..N : f[n] = e[n]
  BY DEF Ends
<1> QED
  BY <1>1

(* The four cases of matchWords. *)
LEMMA CutAtEnd ==
    ASSUME NEW W, NEW r \in Seq(W), NEW pat \in Seq(W), NEW i \in 1..(Len(r) + 1), NEW p, p = Len(pat) + 1
    PROVE  Cut(r, pat, i, p) <=> i > Len(r)
<1>1. Len(r) \in Nat /\ Len(pat) \in Nat /\ p - 1 = Len(pat) /\ p..Len(pat) = {}
  OBVIOUS
<1>2. ASSUME Cut(r, pat, i, p) PROVE i > Len(r)
  BY <1>1, <1>2 DEF Cut, Ends, IsCut
<1>3. ASSUME i > Len(r) PROVE Cut(r, pat, i, p)
  <2> DEFINE end == [n \in (p - 1)..Len(pat) |-> Len(r)]
  <2>1. end \in [(p - 1)..Len(pat) -> 0..Len(r)] /\ end[p - 1] = i - 1 /\ end[Len(pat)] = Len(r)
    BY <1>1, <1>3
  <2>2. IsCut(r, pat, i, p, end)
    BY <1>1, <2>1 DEF IsCut
  <2> QED
    BY <2>1, <2>2 DEF Cut, Ends
<1> QED
  BY <1>2, <1>3

LEMMA PieceSame ==
    ASSUME NEW r, NEW pat, NEW e, NEW f, NEW n, e[n] = f[n], e[n - 1] = f[n - 1], Piece(r, pat, e, n)
    PROVE  Piece(r, pat, f, n)
BY DEF Piece

LEMMA CutOfNothing ==
    ASSUME NEW W, NEW r \in Seq(W), NEW pat \in Seq(W), NEW p \in 1..Len(pat), NEW i, i = Len(r) + 1
    PROVE  Cut(r, pat, i, p) <=> OnlyHashes(pat, p)
<1>1. Len(r) \in Nat /\ Len(pat) \in Nat
  OBVIOUS
<1>2. ASSUME NEW end \in [(p - 1)..Len(pat) -> 0..Len(r)], IsCut(r, pat, i, p, end) PROVE OnlyHashes(pat, p)
  <2> DEFINE T == {n \in p..Len(pat) : pat[n] # Hash}
  <2> SUFFICES ASSUME T # {} PROVE FALSE
    BY DEF OnlyHashes
  (* The first end that is not that of the key, and the first literal or *. *)
  <2> DEFINE D == {n \in p..Len(pat) : end[n] # Len(r)}
  <2>1. D = {}
    <3> SUFFICES ASSUME D # {} PROVE FALSE
      OBVIOUS
    <3>1. D \in SUBSET Nat
      OBVIOUS
    <3>2. PICK n \in D : \A x \in D : n <= x
      BY <3>1, Smallest
    <3>3. n - 1 \in (p - 1)..Len(pat) /\ n \in p..Len(pat) /\ n \in (p - 1)..Len(pat)
      OBVIOUS
    <3>4. end[n - 1] = Len(r)
      <4>1. CASE n = p
        BY <1>1, <1>2, <4>1 DEF IsCut
      <4>2. CASE n # p
        <5>1. n - 1 \in p..Len(pat) /\ ~(n <= n - 1)
          BY <3>3, <4>2
        <5> QED
          BY <3>2, <5>1
      <4> QED
        BY <4>1, <4>2
    <3>5. end[n] \in 0..Len(r) /\ end[n] >= end[n - 1]
      <4>1. Piece(r, pat, end, n)
        BY <1>2, <3>3 DEF IsCut
      <4>2. end[n] \in 0..Len(r)
        BY <3>3
      <4> QED
        BY <1>1, <3>4, <4>1, <4>2 DEF Piece
    <3> QED
      BY <1>1, <3>2, <3>4, <3>5
  <2>2. PICK n \in p..Len(pat) : pat[n] # Hash
    OBVIOUS
  <2>3. n - 1 = p - 1 \/ n - 1 \in p..Len(pat)
    OBVIOUS
  <2>4. end[n] = Len(r) /\ end[n - 1] = Len(r)
    <3>1. end[p - 1] = Len(r)
      BY <1>1, <1>2 DEF IsCut
    <3> QED
      BY <2>1, <2>3, <3>1
  <2> QED
    BY <1>1, <1>2, <2>2, <2>4 DEF IsCut, Piece
<1>3. ASSUME OnlyHashes(pat, p) PROVE Cut(r, pat, i, p)
  <2> DEFINE end == [n \in (p - 1)..Len(pat) |-> Len(r)]
  <2>1. end \in [(p - 1)..Len(pat) -> 0..Len(r)] /\ end[p - 1] = i - 1 /\ end[Len(pat)] = Len(r)
    BY <1>1
  <2>2. \A n \in p..Len(pat) : pat[n] = Hash /\ end[n] = Len(r) /\ end[n - 1] = Len(r)
    BY <1>1, <1>3 DEF OnlyHashes
  <2> HIDE DEF end
  <2>3. IsCut(r, pat, i, p, end)
    BY <1>1, <2>1, <2>2 DEF IsCut, Piece
  <2> QED
    BY <2>1, <2>3 DEF Cut, Ends
<1> QED
  BY <1>2, <1>3 DEF Cut, Ends

(* What a cut from word p on is: the end of the piece of word p, and a cut *)
(* of what follows.                                                        *)
RestIsCut(r, pat, p, e) ==
    e[Len(pat)] = Len(r) /\ \A n \in (p + 1)..Len(pat) : Piece(r, pat, e, n)
First(r, pat, p, a, b) ==
    IF pat[p] = Hash THEN b >= a ELSE b = a + 1 /\ (pat[p] = Star \/ pat[p] = r[b])
After(r, pat, p) == {e \in Ends(p + 1, Len(pat), Len(r)) : RestIsCut(r, pat, p, e)}

LEMMA AfterEnds ==
    ASSUME NEW W, NEW r \in Seq(W), NEW pat \in Seq(W), NEW p \in 1..Len(pat), NEW e \in After(r, pat, p)
    PROVE  e[p] \in 0..Len(r)
<1>1. Len(pat) \in Nat /\ Len(r) \in Nat /\ e \in Ends(p + 1, Len(pat), Len(r))
  BY DEF After
<1> QED
  BY <1>1, EndsIn

LEMMA CutAfter ==
    ASSUME NEW W, NEW r \in Seq(W), NEW pat \in Seq(W), NEW p \in 1..Len(pat), NEW b \in 0..Len(r)
    PROVE  Cut(r, pat, b + 1, p + 1) <=> \E e \in After(r, pat, p) : e[p] = b
<1>1. (p + 1) - 1 = p /\ (b + 1) - 1 = b
  OBVIOUS
<1>2. \A e : IsCut(r, pat, b + 1, p + 1, e) <=> e[p] = b /\ RestIsCut(r, pat, p, e)
  BY <1>1 DEF IsCut, RestIsCut
<1> QED
  BY <1>2 DEF Cut, After

LEMMA FirstIsPiece ==
    ASSUME NEW r, NEW pat, NEW p, NEW f
    PROVE  Piece(r, pat, f, p) <=> First(r, pat, p, f[p - 1], f[p])
BY DEF Piece, First

LEMMA CutFirst ==
    ASSUME NEW W, NEW r \in Seq(W), NEW pat \in Seq(W), NEW p \in 1..Len(pat), NEW a \in 0..Len(r)
    PROVE  Cut(r, pat, a + 1, p) <=> \E e \in After(r, pat, p) : First(r, pat, p, a, e[p])
<1>1. Len(pat) \in Nat /\ Len(r) \in Nat
  OBVIOUS
<1>2. p \in p..Len(pat) /\ Len(pat) \in p..Len(pat) /\ (a + 1) - 1 = a
  OBVIOUS
<1>3. \A n \in (p + 1)..Len(pat) : n \in p..Len(pat) /\ n - 1 \in p..Len(pat)
  OBVIOUS
<1>4. \A n \in p..Len(pat) : n = p \/ n \in (p + 1)..Len(pat)
  OBVIOUS
<1>5. ASSUME NEW f \in Ends(p, Len(pat), Len(r)), IsCut(r, pat, a + 1, p, f)
      PROVE  \E e \in After(r, pat, p) : First(r, pat, p, a, e[p])
  <2>1. PICK e \in Ends(p + 1, Len(pat), Len(r)) : \A n \in p..Len(pat) : e[n] = f[n]
    BY <1>1, DropFirst
  <2>2. f[p - 1] = a /\ f[Len(pat)] = Len(r) /\ \A n \in p..Len(pat) : Piece(r, pat, f, n)
    BY <1>2, <1>5 DEF IsCut
  <2>3. ASSUME NEW n \in (p + 1)..Len(pat) PROVE Piece(r, pat, e, n)
    <3>1. e[n] = f[n] /\ e[n - 1] = f[n - 1] /\ Piece(r, pat, f, n)
      BY <1>3, <2>1, <2>2
    <3> QED
      BY <3>1 DEF Piece
  <2>4. RestIsCut(r, pat, p, e)
    BY <1>2, <2>1, <2>2, <2>3 DEF RestIsCut
  <2>5. First(r, pat, p, a, e[p])
    <3>1. First(r, pat, p, f[p - 1], f[p]) /\ e[p] = f[p]
      BY <1>2, <2>1, <2>2, FirstIsPiece
    <3> QED
      BY <2>2, <3>1
  <2> QED
    BY <2>4, <2>5 DEF After
<1>6. ASSUME NEW e \in After(r, pat, p), First(r, pat, p, a, e[p])
      PROVE  Cut(r, pat, a + 1, p)
  <2>1. e \in Ends(p + 1, Len(pat), Len(r)) /\ RestIsCut(r, pat, p, e)
    BY DEF After
  <2> DEFINE f == [n \in (p - 1)..Len(pat) |-> IF n = p - 1 THEN a ELSE e[n]]
  <2>2. f \in Ends(p, Len(pat), Len(r)) /\ f[p - 1] = a /\ \A n \in p..Len(pat) : f[n] = e[n]
    <3>1. (\A n \in (p - 1)..Len(pat) : n = p - 1 \/ n \in p..Len(pat)) /\ (p + 1) - 1 = p
      BY <1>1
    <3>2. f \in Ends(p, Len(pat), Len(r))
      BY <2>1, <3>1 DEF Ends
    <3>3. f[p - 1] = a /\ \A n \in p..Len(pat) : f[n] = e[n]
      BY <1>1
    <3> QED
      BY <3>2, <3>3
  <2> HIDE DEF f
  <2>3. ASSUME NEW n \in (p + 1)..Len(pat) PROVE Piece(r, pat, f, n)
    <3>1. e[n] = f[n] /\ e[n - 1] = f[n - 1]
      BY <1>3, <2>2
    <3>2. Piece(r, pat, e, n)
      BY <2>1 DEF RestIsCut
    <3> QED
      BY <3>1, <3>2 DEF Piece
  <2>4. Piece(r, pat, f, p)
    <3>1. First(r, pat, p, f[p - 1], f[p])
      BY <1>2, <1>6, <2>2
    <3> QED
      BY <3>1, FirstIsPiece
  <2>5. \A n \in p..Len(pat) : Piece(r, pat, f, n)
    BY <1>4, <2>3, <2>4
  <2>6. f[Len(pat)] = Len(r)
    BY <1>2, <2>1, <2>2 DEF RestIsCut
  <2>7. IsCut(r, pat, a + 1, p, f)
    BY <1>2, <2>2, <2>5, <2>6 DEF IsCut
  <2> QED
    BY <2>2, <2>7 DEF Cut
<1>7. Cut(r, pat, a + 1, p) <=> \E f \in Ends(p, Len(pat), Len(r)) : IsCut(r, pat, a + 1, p, f)
  BY DEF Cut
<1> QED
  BY <1>5, <1>6, <1>7

LEMMA CutAtHash ==
    ASSUME NEW W, NEW r \in Seq(W), NEW pat \in Seq(W), NEW i \in 1..Len(r), NEW p \in 1..Len(pat), pat[p] = Hash
    PROVE  Cut(r, pat, i, p) <=> Cut(r, pat, i, p + 1) \/ Cut(r, pat, i + 1, p)
<1>1. i - 1 \in 0..Len(r) /\ i \in 0..Len(r) /\ (i - 1) + 1 = i
  OBVIOUS
<1>2. Cut(r, pat, i, p) <=> \E e \in After(r, pat, p) : First(r, pat, p, i - 1, e[p])
  BY <1>1, CutFirst
<1>3. Cut(r, pat, i + 1, p) <=> \E e \in After(r, pat, p) : First(r, pat, p, i, e[p])
  BY <1>1, CutFirst
<1>4. Cut(r, pat, i, p + 1) <=> \E e \in After(r, pat, p) : e[p] = i - 1
  <2>1. PICK b \in 0..Len(r) : b = i - 1 /\ b + 1 = i
    BY <1>1
  <2>2. Cut(r, pat, b + 1, p + 1) <=> \E e \in After(r, pat, p) : e[p] = b
    BY CutAfter
  <2> QED
    BY <2>1, <2>2
<1>5. \A e \in After(r, pat, p) : First(r, pat, p, i - 1, e[p]) <=> e[p] = i - 1 \/ First(r, pat, p, i, e[p])
  <2> SUFFICES ASSUME NEW e \in After(r, pat, p)
               PROVE  First(r, pat, p, i - 1, e[p]) <=> e[p] = i - 1 \/ First(r, pat, p, i, e[p])
    OBVIOUS
  <2>1. e[p] \in 0..Len(r)
    BY AfterEnds
  <2> QED
    BY <2>1 DEF First
<1> QED
  BY <1>2, <1>3, <1>4, <1>5

LEMMA CutAtWord ==
    ASSUME NEW W, NEW r \in Seq(W), NEW pat \in Seq(W), NEW i \in 1..Len(r), NEW p \in 1..Len(pat), pat[p] # Hash
    PROVE  Cut(r, pat, i, p) <=> (pat[p] = Star \/ pat[p] = r[i]) /\ Cut(r, pat, i + 1, p + 1)
<1>1. i - 1 \in 0..Len(r) /\ i \in 0..Len(r) /\ (i - 1) + 1 = i
  OBVIOUS
<1>2. Cut(r, pat, i, p) <=> \E e \in After(r, pat, p) : First(r, pat, p, i - 1, e[p])
  BY <1>1, CutFirst
<1>3. Cut(r, pat, i + 1, p + 1) <=> \E e \in After(r, pat, p) : e[p] = i
  BY <1>1, CutAfter
<1>4. \A e : First(r, pat, p, i - 1, e[p]) <=> e[p] = i /\ (pat[p] = Star \/ pat[p] = r[i])
  BY <1>1 DEF First
<1> QED
  BY <1>2, <1>3, <1>4

(* Cut solves the recursion. *)
LEMMA CutSolves ==
    ASSUME NEW W, NEW r \in Seq(W), NEW pat \in Seq(W)
    PROVE  LET g == [at \in Calls(r, pat) |-> Cut(r, pat, at[1], at[2])] IN Recursion(r, pat, g)
<1> DEFINE g == [at \in Calls(r, pat) |-> Cut(r, pat, at[1], at[2])]
<1>1. Len(r) \in Nat /\ Len(pat) \in Nat
  OBVIOUS
<1>2. ASSUME NEW i \in 1..(Len(r) + 1), NEW p \in 1..(Len(pat) + 1)
      PROVE  Cut(r, pat, i, p) = Answer(r, pat, g, <<i, p>>)
  <2>0. \A j \in 1..(Len(r) + 1), q \in 1..(Len(pat) + 1) : g[<<j, q>>] = Cut(r, pat, j, q)
    BY DEF Calls
  <2> HIDE DEF g
  <2>1. CASE p > Len(pat)
    <3>1. p = Len(pat) + 1
      BY <1>1, <2>1
    <3>2. Cut(r, pat, i, p) <=> i > Len(r)
      BY <3>1, CutAtEnd
    <3>3. Answer(r, pat, g, <<i, p>>) = (i > Len(r))
      BY <2>1 DEF Answer
    <3>4. CASE i > Len(r)
      BY <3>2, <3>3, <3>4 DEF Cut
    <3>5. CASE ~(i > Len(r))
      <4>1. Answer(r, pat, g, <<i, p>>) = FALSE
        BY <2>1, <3>5 DEF Answer
      <4>2. Cut(r, pat, i, p) = FALSE
        BY <3>2, <3>5, Zenon DEF Cut
      <4> QED
        BY <4>1, <4>2
    <3> QED
      BY <3>4, <3>5
  <2>2. CASE p <= Len(pat) /\ i > Len(r)
    <3>1. i = Len(r) + 1 /\ p \in 1..Len(pat) /\ ~(p > Len(pat))
      BY <1>1, <2>2
    <3> QED
      BY <2>2, <3>1, CutOfNothing DEF Answer, Cut, OnlyHashes
  <2>3. CASE p <= Len(pat) /\ i <= Len(r) /\ pat[p] = Hash
    <3>1. i \in 1..Len(r) /\ p \in 1..Len(pat) /\ ~(p > Len(pat)) /\ ~(i > Len(r))
      BY <1>1, <2>3
    <3>2. g[<<i, p + 1>>] = Cut(r, pat, i, p + 1) /\ g[<<i + 1, p>>] = Cut(r, pat, i + 1, p)
      BY <1>1, <2>0, <3>1
    <3>3. Cut(r, pat, i, p) <=> Cut(r, pat, i, p + 1) \/ Cut(r, pat, i + 1, p)
      BY <2>3, <3>1, CutAtHash
    <3>4. Answer(r, pat, g, <<i, p>>) = (Cut(r, pat, i, p + 1) \/ Cut(r, pat, i + 1, p))
      BY <2>3, <3>1, <3>2 DEF Answer
    <3> QED
      BY <3>3, <3>4 DEF Cut
  <2>4. CASE p <= Len(pat) /\ i <= Len(r) /\ pat[p] # Hash
    <3>1. i \in 1..Len(r) /\ p \in 1..Len(pat) /\ ~(p > Len(pat)) /\ ~(i > Len(r))
      BY <1>1, <2>4
    <3>2. g[<<i + 1, p + 1>>] = Cut(r, pat, i + 1, p + 1)
      BY <1>1, <2>0, <3>1
    <3>3. Cut(r, pat, i, p) <=> (pat[p] = Star \/ pat[p] = r[i]) /\ Cut(r, pat, i + 1, p + 1)
      BY <2>4, <3>1, CutAtWord
    <3>4. Answer(r, pat, g, <<i, p>>) = ((pat[p] = Star \/ pat[p] = r[i]) /\ Cut(r, pat, i + 1, p + 1))
      BY <2>4, <3>1, <3>2 DEF Answer
    <3> QED
      BY <3>3, <3>4 DEF Cut
  <2> QED
    BY <1>1, <2>1, <2>2, <2>3, <2>4
<1>3. \A at \in Calls(r, pat) : Cut(r, pat, at[1], at[2]) = Answer(r, pat, g, at)
  <2> SUFFICES ASSUME NEW at \in Calls(r, pat) PROVE Cut(r, pat, at[1], at[2]) = Answer(r, pat, g, at)
    OBVIOUS
  <2>1. at[1] \in 1..(Len(r) + 1) /\ at[2] \in 1..(Len(pat) + 1) /\ at = <<at[1], at[2]>>
    BY DEF Calls
  <2> HIDE DEF g
  <2>2. Cut(r, pat, at[1], at[2]) = Answer(r, pat, g, <<at[1], at[2]>>)
    BY <1>2, <2>1
  <2> QED
    BY <2>1, <2>2
<1>4. g = [at \in Calls(r, pat) |-> Answer(r, pat, g, at)]
  <2>1. \A h : (\A at \in Calls(r, pat) : Cut(r, pat, at[1], at[2]) = Answer(r, pat, h, at)) =>
           [at \in Calls(r, pat) |-> Cut(r, pat, at[1], at[2])] = [at \in Calls(r, pat) |-> Answer(r, pat, h, at)]
    OBVIOUS
  <2> QED
    BY <1>3, <2>1, Zenon
<1> QED
  BY <1>4, Zenon DEF Recursion

(* Two solutions agree, by induction on the words left.                    *)
WordsLeft(r, pat, at) == ((Len(r) + 1) - at[1]) + ((Len(pat) + 1) - at[2])

LEMMA SameAnswer ==
    ASSUME NEW W, NEW r \in Seq(W), NEW pat \in Seq(W), NEW m, NEW h, NEW at \in Calls(r, pat),
           \A b \in Calls(r, pat) : WordsLeft(r, pat, b) < WordsLeft(r, pat, at) => m[b] = h[b]
    PROVE  Answer(r, pat, m, at) = Answer(r, pat, h, at)
<1>1. PICK i \in 1..(Len(r) + 1), p \in 1..(Len(pat) + 1) : at = <<i, p>> /\ at[1] = i /\ at[2] = p
  BY DEF Calls
<1>2. Len(r) \in Nat /\ Len(pat) \in Nat
  OBVIOUS
<1>3. ASSUME NEW j \in 1..(Len(r) + 1), NEW q \in 1..(Len(pat) + 1),
             ((Len(r) + 1) - j) + ((Len(pat) + 1) - q) < ((Len(r) + 1) - i) + ((Len(pat) + 1) - p)
      PROVE  m[<<j, q>>] = h[<<j, q>>]
  <2>1. <<j, q>> \in Calls(r, pat) /\ <<j, q>>[1] = j /\ <<j, q>>[2] = q
    BY DEF Calls
  <2> QED
    BY <1>1, <1>3, <2>1 DEF WordsLeft
<1>4. CASE p > Len(pat) \/ i > Len(r)
  BY <1>1, <1>4 DEF Answer
<1>5. CASE ~(p > Len(pat)) /\ ~(i > Len(r))
  <2>1. /\ i + 1 \in 1..(Len(r) + 1) /\ p + 1 \in 1..(Len(pat) + 1)
        /\ ((Len(r) + 1) - i) + ((Len(pat) + 1) - (p + 1)) < ((Len(r) + 1) - i) + ((Len(pat) + 1) - p)
        /\ ((Len(r) + 1) - (i + 1)) + ((Len(pat) + 1) - p) < ((Len(r) + 1) - i) + ((Len(pat) + 1) - p)
        /\ ((Len(r) + 1) - (i + 1)) + ((Len(pat) + 1) - (p + 1)) < ((Len(r) + 1) - i) + ((Len(pat) + 1) - p)
    BY <1>2, <1>5
  <2>2. m[<<i, p + 1>>] = h[<<i, p + 1>>]
    BY <1>3, <2>1
  <2>3. m[<<i + 1, p>>] = h[<<i + 1, p>>]
    BY <1>3, <2>1
  <2>4. m[<<i + 1, p + 1>>] = h[<<i + 1, p + 1>>]
    BY <1>3, <2>1
  <2> QED
    BY <1>1, <1>5, <2>2, <2>3, <2>4 DEF Answer
<1> QED
  BY <1>4, <1>5

LEMMA OneSolution ==
    ASSUME NEW W, NEW r \in Seq(W), NEW pat \in Seq(W), NEW m, NEW h,
           Recursion(r, pat, m), Recursion(r, pat, h), NEW b \in Calls(r, pat)
    PROVE  m[b] = h[b]
<1> DEFINE D == {k \in Nat : \E at \in Calls(r, pat) : k = WordsLeft(r, pat, at) /\ m[at] # h[at]}
<1>1. \A at \in Calls(r, pat) : WordsLeft(r, pat, at) \in Nat
  <2> SUFFICES ASSUME NEW at \in Calls(r, pat) PROVE WordsLeft(r, pat, at) \in Nat
    OBVIOUS
  <2>1. at[1] \in 1..(Len(r) + 1) /\ at[2] \in 1..(Len(pat) + 1) /\ Len(r) \in Nat /\ Len(pat) \in Nat
    BY DEF Calls
  <2> QED
    BY <2>1 DEF WordsLeft
<1>2. \A at \in Calls(r, pat) : m[at] = Answer(r, pat, m, at) /\ h[at] = Answer(r, pat, h, at)
  <2>1. \A f : f = [at \in Calls(r, pat) |-> Answer(r, pat, f, at)] =>
               \A at \in Calls(r, pat) : f[at] = Answer(r, pat, f, at)
    <3> SUFFICES ASSUME NEW f, f = [at \in Calls(r, pat) |-> Answer(r, pat, f, at)],
                        NEW at \in Calls(r, pat)
                 PROVE  f[at] = Answer(r, pat, f, at)
      OBVIOUS
    <3>1. [x \in Calls(r, pat) |-> Answer(r, pat, f, x)][at] = Answer(r, pat, f, at)
      OBVIOUS
    <3> QED
      BY <3>1, Zenon
  <2> QED
    BY <2>1 DEF Recursion
<1>3. SUFFICES ASSUME m[b] # h[b] PROVE FALSE
  OBVIOUS
<1>4. D # {} /\ D \in SUBSET Nat
  BY <1>1, <1>3
<1>5. PICK k \in D : \A x \in D : k <= x
  BY <1>4, Smallest
<1>6. PICK at \in Calls(r, pat) : k = WordsLeft(r, pat, at) /\ m[at] # h[at]
  BY <1>5
<1>7. \A c \in Calls(r, pat) : WordsLeft(r, pat, c) < WordsLeft(r, pat, at) => m[c] = h[c]
  <2> SUFFICES ASSUME NEW c \in Calls(r, pat), WordsLeft(r, pat, c) < WordsLeft(r, pat, at), m[c] # h[c]
               PROVE  FALSE
    OBVIOUS
  <2>1. WordsLeft(r, pat, c) \in D
    BY <1>1
  <2>2. k <= WordsLeft(r, pat, c)
    BY <1>5, <2>1
  <2> QED
    BY <1>1, <1>6, <2>2
<1>8. Answer(r, pat, m, at) = Answer(r, pat, h, at)
  BY <1>7, SameAnswer
<1> QED
  BY <1>2, <1>6, <1>8

LEMMA MatchWordsIsMeans ==
    ASSUME NEW W, NEW r \in Seq(W), NEW pat \in Seq(W)
    PROVE  MatchWords(r, pat) <=> Means(r, pat)
<1> DEFINE g == [at \in Calls(r, pat) |-> Cut(r, pat, at[1], at[2])]
           M == CHOOSE m : m = [at \in Calls(r, pat) |-> Answer(r, pat, m, at)]
<1>1. Recursion(r, pat, g)
  BY CutSolves
<1>2. MatchWords(r, pat) = M[<<1, 1>>]
  BY DEF MatchWords, Calls, Answer
<1>3. Recursion(r, pat, M)
  <2> HIDE DEF g
  <2>1. \E m : m = [at \in Calls(r, pat) |-> Answer(r, pat, m, at)]
    BY <1>1 DEF Recursion
  <2>2. M = [at \in Calls(r, pat) |-> Answer(r, pat, M, at)]
    BY <2>1, Zenon
  <2> QED
    BY <2>2, Zenon DEF Recursion
<1>4. <<1, 1>> \in Calls(r, pat)
  <2>1. Len(r) \in Nat /\ Len(pat) \in Nat
    OBVIOUS
  <2> QED
    BY <2>1 DEF Calls
<1>5. g[<<1, 1>>] = Cut(r, pat, 1, 1)
  BY <1>4
<1> HIDE DEF g, M
<1>6. M[<<1, 1>>] = g[<<1, 1>>]
  BY <1>1, <1>3, <1>4, OneSolution
<1> QED
  BY <1>2, <1>5, <1>6, MeansIsCut

(* The shortcuts of MatchTopic agree with what patterns mean.              *)
LEMMA HashMeansAll ==
    ASSUME NEW W, NEW r \in Seq(W)
    PROVE  Means(r, <<Hash>>)
<1> DEFINE end == [n \in 0..1 |-> IF n = 0 THEN 0 ELSE Len(r)]
<1>1. Len(r) \in Nat /\ Len(<<Hash>>) = 1 /\ <<Hash>>[1] = Hash /\ 1..1 = {1} /\ 1 - 1 = 0
  OBVIOUS
<1>2. end \in [0..1 -> 0..Len(r)] /\ end[0] = 0 /\ end[1] = Len(r)
  BY <1>1
<1> HIDE DEF end
<1>3. \A p \in 1..1 : <<Hash>>[p] = Hash /\ end[p] >= end[p - 1]
  BY <1>1, <1>2
<1> QED
  BY <1>1, <1>2, <1>3 DEF Means

LEMMA KeyMeansItself ==
    ASSUME NEW W, NEW r \in Seq(W)
    PROVE  Means(r, r)
<1> DEFINE end == [n \in 0..Len(r) |-> n]
<1>1. Len(r) \in Nat
  OBVIOUS
<1>2. end \in [0..Len(r) -> 0..Len(r)] /\ end[0] = 0 /\ end[Len(r)] = Len(r)
  BY <1>1
<1>3. \A p \in 1..Len(r) : end[p] = p /\ end[p - 1] = p - 1 /\ p >= p - 1 /\ p = (p - 1) + 1
  BY <1>1
<1> HIDE DEF end
<1>4. \A p \in 1..Len(r) : IF r[p] = Hash THEN end[p] >= end[p - 1]
                           ELSE end[p] = end[p - 1] + 1 /\ (r[p] = Star \/ r[p] = r[end[p]])
  BY <1>3
<1> QED
  BY <1>2, <1>4 DEF Means

LEMMA StarHashMeans ==
    ASSUME NEW W, NEW r \in Seq(W)
    PROVE  Means(r, <<Star, Hash>>) <=> Len(r) >= 1
<1> DEFINE pat == <<Star, Hash>>
<1>1. /\ Len(r) \in Nat /\ Len(pat) = 2 /\ pat[1] = Star /\ pat[2] = Hash
      /\ 1..2 = {1, 2} /\ 0..2 = {0, 1, 2} /\ 1 - 1 = 0 /\ 2 - 1 = 1
  OBVIOUS
<1>2. Star # Hash
  BY WordsAssumption
<1> HIDE DEF pat
<1>3. ASSUME NEW end \in [0..2 -> 0..Len(r)], end[0] = 0, end[1] = end[0] + 1 PROVE Len(r) >= 1
  <2>1. end[1] \in 0..Len(r) /\ end[1] = 1
    BY <1>3
  <2> QED
    BY <1>1, <2>1
<1>4. Means(r, pat) => Len(r) >= 1
  <2> SUFFICES ASSUME Means(r, pat) PROVE Len(r) >= 1
    OBVIOUS
  <2>1. PICK end \in [0..2 -> 0..Len(r)] :
            /\ end[0] = 0
            /\ \A p \in 1..2 : IF pat[p] = Hash THEN end[p] >= end[p - 1]
                               ELSE end[p] = end[p - 1] + 1 /\ (pat[p] = Star \/ pat[p] = r[end[p]])
    BY <1>1 DEF Means
  <2>2. end[1] = end[0] + 1
    BY <1>1, <1>2, <2>1
  <2> QED
    BY <1>3, <2>1, <2>2
<1>5. Len(r) >= 1 => Means(r, pat)
  <2> SUFFICES ASSUME Len(r) >= 1 PROVE Means(r, pat)
    OBVIOUS
  <2> DEFINE end == [n \in 0..2 |-> IF n = 0 THEN 0 ELSE IF n = 1 THEN 1 ELSE Len(r)]
  <2>1. end \in [0..2 -> 0..Len(r)] /\ end[0] = 0 /\ end[1] = 1 /\ end[2] = Len(r)
    BY <1>1
  <2> HIDE DEF end
  <2>2. \A p \in 1..2 : IF pat[p] = Hash THEN end[p] >= end[p - 1]
                        ELSE end[p] = end[p - 1] + 1 /\ (pat[p] = Star \/ pat[p] = r[end[p]])
    BY <1>1, <1>2, <2>1
  <2> QED
    BY <1>1, <2>1, <2>2 DEF Means
<1> QED
  BY <1>4, <1>5 DEF pat

LEMMA MatchTopicIsMeans ==
    ASSUME NEW W, NEW r \in Seq(W), NEW pat \in Seq(W)
    PROVE  MatchTopic(r, pat) <=>
             IF Malformed(r) \/ Malformed(pat) THEN pat = <<Hash>> \/ r = pat
             ELSE Means(r, pat) /\ ~(pat = <<Star, Hash>> /\ Len(r) = 1)
<1>1. CASE Malformed(r) \/ Malformed(pat)
  BY <1>1 DEF MatchTopic
<1>2. CASE ~Malformed(r) /\ ~Malformed(pat)
  <2>1. Len(r) \in Nat /\ Len(<<Star, Hash>>) = 2 /\ Len(<<Hash>>) = 1
    OBVIOUS
  <2>2. CASE pat = <<Hash>>
    <3>1. pat # <<Star, Hash>>
      BY <2>1, <2>2
    <3> QED
      BY <1>2, <2>2, <3>1, HashMeansAll DEF MatchTopic
  <2>3. CASE r = pat
    <3>1. ~(pat = <<Star, Hash>> /\ Len(r) = 1)
      <4> SUFFICES ASSUME r = <<Star, Hash>> PROVE Len(r) # 1
        BY <2>3
      <4>1. Len(r) = 2
        OBVIOUS
      <4> QED
        BY <4>1
    <3> QED
      BY <1>2, <2>3, <3>1, KeyMeansItself DEF MatchTopic
  <2>4. CASE pat # <<Hash>> /\ r # pat /\ pat = <<Star, Hash>>
    <3>1. MatchTopic(r, pat) <=> Len(r) >= 2
      BY <1>2, <2>4 DEF MatchTopic
    <3>2. Means(r, pat) <=> Len(r) >= 1
      BY <2>4, StarHashMeans
    <3>3. Len(r) >= 2 <=> Len(r) >= 1 /\ Len(r) # 1
      <4>1. \A n \in Nat : n >= 2 <=> n >= 1 /\ n # 1
        OBVIOUS
      <4> QED
        BY <2>1, <4>1
    <3> QED
      BY <1>2, <2>4, <3>1, <3>2, <3>3, Zenon
  <2>5. CASE pat # <<Hash>> /\ r # pat /\ pat # <<Star, Hash>>
    BY <1>2, <2>5, MatchWordsIsMeans DEF MatchTopic
  <2> QED
    BY <2>2, <2>3, <2>4, <2>5
<1> QED
  BY <1>1, <1>2

LEMMA KeysAreSequences ==
    ASSUME NEW words, NEW k \in KeysOf(words)
    PROVE  k \in Seq(words)
<1>1. PICK n \in 1..MaxWords : k \in [1..n -> words]
  BY DEF KeysOf
<1>2. n \in Nat
  BY WordsAssumption
<1> QED
  BY <1>1, <1>2

(* MatchTopic decides what the wildcards mean for keys of any number of    *)
(* words, with the exception of *.# and of keys with empty words           *)
(* (exchange.go:282, exchange.go:323).                                     *)
THEOREM TopicMatching == AsMeant
<1> SUFFICES ASSUME NEW r \in KeysOf(RoutingWords), NEW pat \in KeysOf(PatternWords)
             PROVE  MatchTopic(r, pat) <=>
                      IF Malformed(r) \/ Malformed(pat) THEN pat = <<Hash>> \/ r = pat
                      ELSE Means(r, pat) /\ ~(pat = <<Star, Hash>> /\ Len(r) = 1)
  BY DEF AsMeant
<1>1. r \in Seq(PatternWords) /\ pat \in Seq(PatternWords)
  <2>1. r \in Seq(RoutingWords) /\ pat \in Seq(PatternWords)
    BY KeysAreSequences
  <2>2. RoutingWords \subseteq PatternWords
    BY DEF PatternWords
  <2> QED
    BY <2>1, <2>2
<1> QED
  BY <1>1, MatchTopicIsMeans

LEMMA OneWordMeans ==
    ASSUME NEW u, NEW w, w # Star
    PROVE  Means(<<u>>, <<w>>) <=> w = Hash \/ u = w
<1> DEFINE r == <<u>>
           pat == <<w>>
<1>1. /\ r \in Seq({u}) /\ Len(r) = 1 /\ r[1] = u /\ Len(pat) = 1 /\ pat[1] = w
      /\ 1 \in 1..1 /\ 1 - 1 = 0 /\ 0 + 1 = 1
  OBVIOUS
<1>2. w = Hash \/ u = w => Means(r, pat)
  BY <1>1, HashMeansAll, KeyMeansItself
<1> HIDE DEF r, pat
<1>3. ASSUME Means(r, pat) PROVE w = Hash \/ u = w
  <2>1. PICK end \in [0..1 -> 0..1] :
            /\ end[0] = 0
            /\ \A p \in 1..1 : IF pat[p] = Hash THEN end[p] >= end[p - 1]
                               ELSE end[p] = end[p - 1] + 1 /\ (pat[p] = Star \/ pat[p] = r[end[p]])
    BY <1>1, <1>3 DEF Means
  <2>2. w = Hash \/ (end[1] = end[0] + 1 /\ w = r[end[1]])
    BY <1>1, <2>1
  <2> QED
    BY <1>1, <2>1, <2>2
<1> QED
  BY <1>2, <1>3 DEF r, pat

LEMMA KeysWellFormed ==
    ASSUME NEW k \in Keys
    PROVE  k \in Seq(PatternWords) /\ k # <<Star, Hash>> /\ \E w : k = <<w>> /\ w # Star
<1>1. PICK w \in PatternWords : k = <<w>> /\ w # Star
  <2>1. CASE k = AnyKey
    BY <2>1, WordsAssumption DEF AnyKey, PatternWords
  <2>2. ASSUME NEW q \in QNames, k = KeyFor(q)
        PROVE  \E w \in PatternWords : k = <<w>> /\ w # Star
    BY <2>2, WordsAssumption, VHostAssumption DEF KeyFor, PatternWords, RoutingWords
  <2>3. CASE k = NoKey
    BY <2>3, WordsAssumption DEF NoKey, PatternWords, RoutingWords
  <2> QED
    BY <2>1, <2>2, <2>3 DEF Keys
<1>2. k \in Seq(PatternWords)
  BY <1>1
<1>3. Len(k) = 1
  BY <1>1
<1>4. k # <<Star, Hash>>
  <2>1. Len(<<Star, Hash>>) = 2
    OBVIOUS
  <2> QED
    BY <1>3, <2>1
<1> QED
  BY <1>1, <1>2, <1>4

LEMMA RoutedAsMeant ==
    ASSUME TypeOK, NEW e \in ExNames, NEW m \in Msgs, exchanges[e] # None, exchanges[e].kind.typ = "topic"
    PROVE  Route(e, KeyOf[m]) = {<<b.queue, b.born>> : b \in {x \in exchanges[e].bindings : Means(KeyOf[m], x.key)}}
<1>1. KeyOf[m] \in Keys
  BY VHostAssumption
<1>2. exchanges[e].bindings \subseteq Binding
  BY DEF TypeOK, ExchangeObject
<1>3. ASSUME NEW x \in exchanges[e].bindings PROVE MatchTopic(KeyOf[m], x.key) <=> Means(KeyOf[m], x.key)
  <2> DEFINE r == KeyOf[m]
             pat == x.key
  <2>1. pat \in Keys
    BY <1>2 DEF Binding
  <2> HIDE DEF r, pat
  <2>2. /\ r \in Seq(PatternWords) /\ \E u : r = <<u>>
        /\ pat \in Seq(PatternWords) /\ pat # <<Star, Hash>> /\ \E w : pat = <<w>> /\ w # Star
    BY <1>1, <2>1, KeysWellFormed DEF r
  <2>3. PICK u : r = <<u>>
    BY <2>2
  <2>4. PICK w : pat = <<w>> /\ w # Star
    BY <2>2
  <2>5. Means(r, pat) <=> pat = <<Hash>> \/ r = pat
    <3>1. Means(<<u>>, <<w>>) <=> w = Hash \/ u = w
      BY <2>4, OneWordMeans
    <3> QED
      BY <2>3, <2>4, <3>1
  <2>6. MatchTopic(r, pat) <=> IF Malformed(r) \/ Malformed(pat) THEN pat = <<Hash>> \/ r = pat
                               ELSE Means(r, pat) /\ ~(pat = <<Star, Hash>> /\ Len(r) = 1)
    BY <2>2, MatchTopicIsMeans
  <2>7. MatchTopic(r, pat) <=> Means(r, pat)
    BY <2>2, <2>5, <2>6, Zenon
  <2> QED
    BY <2>7 DEF r, pat
<1>4. {b \in exchanges[e].bindings : MatchTopic(KeyOf[m], b.key)}
        = {x \in exchanges[e].bindings : Means(KeyOf[m], x.key)}
  BY <1>3
<1>5. Registry.ex = exchanges
  BY DEF Registry
<1>6. Route(e, KeyOf[m])
        = {<<b.queue, b.born>> : b \in {x \in exchanges[e].bindings : MatchTopic(KeyOf[m], x.key)}}
  BY <1>5 DEF Route, Exists
<1> QED
  BY <1>4, <1>6

(* A message published to a topic exchange goes exactly to the queues      *)
(* bound with a pattern that means its routing key, in every reachable     *)
(* registry (message.go:195, exchange.go:282).                             *)
THEOREM RoutesAsMeant == Spec => []MatchesAsMeant
<1>1. IInv => MatchesAsMeant
  BY TopicMatching, RoutedAsMeant DEF IInv, MatchesAsMeant
<1> QED
  BY <1>1, Invariance, PTL
=============================================================================
