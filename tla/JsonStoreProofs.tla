--------------------------- MODULE JsonStoreProofs ---------------------------
(***************************************************************************)
(* Proofs about JsonStore, for any files, items, locks, goroutines and     *)
(* crashes: what is saved survives, the broker never refuses its own data  *)
(* directory, and the store implements the persistence interface.          *)
(***************************************************************************)
EXTENDS JsonStore, TLAPS

(* The states of a method in which it holds the lock of its file, and      *)
(* those of atomicWriteFile.                                               *)
Writing == {"write", "sync", "rename", "syncDir"}
Holding == Writing \union {"load"}
Early == {"mkdir", "syncParent", "lock", "load"}

(* The crash ends every method. *)
NodeInv == node # "up" => \A p \in Procs : proc[p] = NoMethod

(* Whoever works on a file holds its lock. *)
LockInv == \A p \in Procs : proc[p].pc \in Holding => lock[StripeOf[proc[p].file]] = p

(* The directories of a file are there, and nobody is making one: synced   *)
(* or not, they are not touched again before the next crash, except that   *)
(* an unsynced one may become durable.                                     *)
Placed(f) == \A d \in Chain(f) : dir[d] \in {"unsynced", "durable"}

(* A directory that is being made belongs to the owner of mkdirMu, and     *)
(* nothing is in it.  A method writes in a directory that is placed only.  *)
DirInv ==
    /\ \A p \in Procs : proc[p].pc = "syncParent" => mkdirMu = p
    /\ \A d \in Dirs : dir[d] = "created" => \E p \in Procs : proc[p].pc = "syncParent"
    /\ \A p \in Procs : proc[p].pc = "syncParent" \/ proc[p].pc = "mkdir" => proc[p].op = "saveMeta"
    /\ \A p \in Procs :
          \/ proc[p].pc \in Writing
          \/ proc[p].pc \in {"lock", "load"} /\ proc[p].op = "saveMeta"
          => Placed(proc[p].file)
    /\ \A f \in Files : ~Placed(f) => entry[f] = Missing /\ disk[f] = {Missing}

(* There is a marker before the vhost's directory, unless a crash lost it. *)
MarkerInv ==
    /\ node = "up" => marker \in {"renamed", "durable"}
    /\ HasEntries => marker # "absent"
    /\ node = "refused" => marker = "lost"

(* What the owner of the lock loaded is still there, and what it is about  *)
(* to rename is what it made of that, synced.                              *)
Prepared(p) ==
    LET m == proc[p]
    IN  /\ m.data = Updated(m.op, m.file, m.item, entry[m.file])
        /\ m.op # "saveMeta" => entry[m.file] # Missing
WriteOf(p) ==
    /\ proc[p].pc \in {"write", "sync", "rename"} => Prepared(p)
    /\ proc[p].pc = "sync" => tmp[proc[p].file] = [state |-> "written", data |-> proc[p].data]
    /\ proc[p].pc = "rename" => tmp[proc[p].file] = [state |-> "synced", data |-> proc[p].data]
    /\ proc[p].pc = "syncDir" =>
          /\ entry[proc[p].file] = proc[p].data
          /\ proc[p].op = "add" => proc[p].item \in proc[p].data
WriteInv == \A p \in Procs : WriteOf(p)

(* A crash leaves nothing torn, and may leave the current content. *)
DiskInv == \A f \in Files : disk[f] \subseteq Whole \union {Missing} /\ entry[f] \in disk[f]

KeptInv ==
    \A k \in kept :
        /\ Placed(k[1])
        /\ \A v \in disk[k[1]] : v # Missing /\ k[2] \in v
        /\ ~BeingDeleted(k[1], k[2])

IInv == TypeOK /\ NodeInv /\ LockInv /\ DirInv /\ MarkerInv /\ WriteInv /\ DiskInv /\ KeptInv

-----------------------------------------------------------------------------
(* The records of the methods and of the temporary files, field by field. *)
EarlyMethod == [pc : Early, op : Methods, file : Files, item : Items, data : {Missing}]
WritingMethod == [pc : Writing, op : Writes, file : Files, item : Items, data : Whole]

LEMMA MethodCases ==
    ASSUME NEW m \in Method
    PROVE  m = NoMethod \/ m \in EarlyMethod \/ m \in WritingMethod
  BY DEF Method, EarlyMethod, WritingMethod, Early, Writing

LEMMA MethodFields ==
    ASSUME NEW m \in Method
    PROVE  /\ m = NoMethod <=> m.pc = "idle"
           /\ m.pc # "idle" => m.pc \in Early \union Writing /\ m.op \in Methods /\ m.file \in Files /\ m.item \in Items
           /\ m.pc \in Early => m \in EarlyMethod
           /\ m.pc \in Writing => m \in WritingMethod /\ m.op \in Writes /\ m.data \in Whole
<1>1. CASE m = NoMethod
  BY <1>1 DEF NoMethod, Early, Writing
<1>2. CASE m \in EarlyMethod
  <2>1. m.pc \in Early /\ m.op \in Methods /\ m.file \in Files /\ m.item \in Items
    BY <1>2 DEF EarlyMethod
  <2>2. m.pc # "idle" /\ m.pc \notin Writing
    BY <2>1 DEF Early, Writing
  <2> QED
    BY <1>2, <2>1, <2>2 DEF NoMethod
<1>3. CASE m \in WritingMethod
  <2>1. m.pc \in Writing /\ m.op \in Writes /\ m.file \in Files /\ m.item \in Items /\ m.data \in Whole
    BY <1>3 DEF WritingMethod
  <2>2. m.pc # "idle" /\ m.pc \notin Early
    BY <2>1 DEF Early, Writing
  <2> QED
    BY <1>3, <2>1, <2>2 DEF NoMethod, Methods
<1> QED
  BY <1>1, <1>2, <1>3, MethodCases

LEMMA MethodMoved ==
    ASSUME NEW m \in Method, NEW pc, NEW n, n = [m EXCEPT !.pc = pc],
           (m.pc \in Early /\ pc \in Early) \/ (m.pc \in Writing /\ pc \in Writing)
    PROVE  /\ n \in Method /\ n.pc = pc
           /\ n.op = m.op /\ n.file = m.file /\ n.item = m.item /\ n.data = m.data
<1>1. CASE m.pc \in Early /\ pc \in Early
  <2>1. m \in EarlyMethod
    BY <1>1, MethodFields
  <2>2. /\ n \in EarlyMethod /\ n.pc = pc
        /\ n.op = m.op /\ n.file = m.file /\ n.item = m.item /\ n.data = m.data
    BY <1>1, <2>1 DEF EarlyMethod
  <2> QED
    BY <2>2 DEF Method, EarlyMethod, Early
<1>2. CASE m.pc \in Writing /\ pc \in Writing
  <2>1. m \in WritingMethod
    BY <1>2, MethodFields
  <2>2. /\ n \in WritingMethod /\ n.pc = pc
        /\ n.op = m.op /\ n.file = m.file /\ n.item = m.item /\ n.data = m.data
    BY <1>2, <2>1 DEF WritingMethod
  <2> QED
    BY <2>2 DEF Method, WritingMethod, Writing
<1> QED
  BY <1>1, <1>2

(* The method p is in moves on, and nothing else of it changes. *)
Moved(p, pc) ==
    /\ proc' \in [Procs -> Method]
    /\ \A q \in Procs \ {p} : proc'[q] = proc[q]
    /\ proc'[p].pc = pc
    /\ proc'[p].op = proc[p].op /\ proc'[p].file = proc[p].file
    /\ proc'[p].item = proc[p].item /\ proc'[p].data = proc[p].data

LEMMA GotoStep ==
    ASSUME TypeOK, NEW p \in Procs, NEW pc, Goto(p, pc),
           (proc[p].pc \in Early /\ pc \in Early) \/ (proc[p].pc \in Writing /\ pc \in Writing)
    PROVE  Moved(p, pc)
<1>1. proc \in [Procs -> Method] /\ proc[p] \in Method
  BY DEF TypeOK
<1> DEFINE n == [proc[p] EXCEPT !.pc = pc]
<1>2. proc' = [proc EXCEPT ![p] = n]
  BY DEF Goto
<1>3. /\ n \in Method /\ n.pc = pc
      /\ n.op = proc[p].op /\ n.file = proc[p].file /\ n.item = proc[p].item /\ n.data = proc[p].data
  BY <1>1, MethodMoved
<1> HIDE DEF n
<1> QED
  BY <1>1, <1>2, <1>3 DEF Moved

(* The method p was in returns. *)
Finished(p) ==
    /\ proc' \in [Procs -> Method]
    /\ \A q \in Procs \ {p} : proc'[q] = proc[q]
    /\ proc'[p] = NoMethod /\ proc'[p].pc = "idle"
    /\ lock' \in [Stripes -> Procs \union {NoProc}]
    /\ \A s \in Stripes : lock'[s] = IF lock[s] = p THEN NoProc ELSE lock[s]

LEMMA ReturnStep ==
    ASSUME TypeOK, NEW p \in Procs, Return(p)
    PROVE  Finished(p)
  BY DEF TypeOK, Return, Finished, Method, NoMethod

-----------------------------------------------------------------------------
(* What the actions do, field by field. *)
LEMMA CallStep ==
    ASSUME TypeOK, NEW p \in Procs, Call(p)
    PROVE  /\ node = "up" /\ proc[p] = NoMethod /\ ops' \in 0..MaxOps
           /\ UNCHANGED <<entry, disk, tmp, lock, mkdirMu, dir, marker, node, crashes>>
           /\ proc' \in [Procs -> Method] /\ \A q \in Procs \ {p} : proc'[q] = proc[q]
           /\ proc'[p].op \in Methods /\ proc'[p].file \in Files /\ proc'[p].item \in Items
           /\ proc'[p].pc = IF proc'[p].op = "saveMeta" THEN "mkdir" ELSE "lock"
           /\ kept' \subseteq kept
           /\ proc'[p].op = "del" => <<proc'[p].file, proc'[p].item>> \notin kept'
           /\ \/ proc'[p].op = "remove"
              \/ proc'[p].op = "saveMeta" /\ proc'[p].file \in Exchanges
              => \A k \in kept' : k[1] # proc'[p].file
<1>1. /\ node = "up" /\ proc[p] = NoMethod /\ ops' \in 0..MaxOps
      /\ UNCHANGED <<entry, disk, tmp, lock, mkdirMu, dir, marker, node, crashes>>
  BY JsonStoreAssumption DEF Call, TypeOK
<1>2. PICK op \in Methods, f \in Files, i \in Items :
        /\ proc' = [proc EXCEPT ![p] =
             [pc |-> IF op = "saveMeta" THEN "mkdir" ELSE "lock",
              op |-> op, file |-> f, item |-> i, data |-> Missing]]
        /\ kept' = CASE op = "del" -> kept \ {<<f, i>>}
                     [] op = "remove" \/ (op = "saveMeta" /\ f \in Exchanges) ->
                            {k \in kept : k[1] # f}
                     [] OTHER -> kept
  BY DEF Call
<1> DEFINE pc == IF op = "saveMeta" THEN "mkdir" ELSE "lock"
           n == [pc |-> pc, op |-> op, file |-> f, item |-> i, data |-> Missing]
<1>3. proc' = [proc EXCEPT ![p] = n] /\ pc \in Early
  BY <1>2 DEF Early
<1> HIDE DEF pc
<1>4. n \in EarlyMethod /\ n.pc = pc /\ n.op = op /\ n.file = f /\ n.item = i
  BY <1>3 DEF EarlyMethod
<1> HIDE DEF n
<1>5. n \in Method
  BY <1>4 DEF EarlyMethod, Method, Early
<1>6. proc' \in [Procs -> Method] /\ (\A q \in Procs \ {p} : proc'[q] = proc[q]) /\ proc'[p] = n
  BY <1>3, <1>5 DEF TypeOK
<1>7. proc'[p].pc = IF op = "saveMeta" THEN "mkdir" ELSE "lock"
  BY <1>4, <1>6 DEF pc
<1>8. CASE op = "del"
  BY <1>1, <1>2, <1>4, <1>6, <1>7, <1>8
<1>9. CASE op = "remove" \/ (op = "saveMeta" /\ f \in Exchanges)
  <2>1. kept' = {k \in kept : k[1] # f}
    BY <1>2, <1>9
  <2> QED
    BY <1>1, <1>4, <1>6, <1>7, <1>9, <2>1
<1>10. CASE op # "del" /\ ~(op = "remove" \/ (op = "saveMeta" /\ f \in Exchanges))
  <2>1. kept' = kept
    BY <1>2, <1>10
  <2> QED
    BY <1>1, <1>4, <1>6, <1>7, <1>10, <2>1
<1> QED
  BY <1>8, <1>9, <1>10

(* What a method writes back is whole. *)
LEMMA UpdatedWhole ==
    ASSUME NEW op \in Writes, NEW f \in Files, NEW i \in Items, NEW v \in Whole \union {Missing},
           op # "saveMeta" => v # Missing
    PROVE  /\ Updated(op, f, i, v) \in Whole
           /\ op = "add" => i \in Updated(op, f, i, v)
<1>1. CASE op = "saveMeta"
  BY <1>1 DEF Updated, Whole
<1>2. CASE op = "add"
  BY <1>2 DEF Updated, Whole
<1>3. CASE op = "del"
  BY <1>3 DEF Updated, Whole
<1> QED
  BY <1>1, <1>2, <1>3 DEF Writes

LEMMA LoadStep ==
    ASSUME TypeOK, DiskInv, NEW p \in Procs, Load(p)
    PROVE  /\ proc[p].pc = "load"
           /\ UNCHANGED <<entry, disk, tmp, mkdirMu, dir, marker, node, kept, ops, crashes>>
           /\ \/ Finished(p)
              \/ /\ UNCHANGED lock
                 /\ proc' \in [Procs -> Method] /\ \A q \in Procs \ {p} : proc'[q] = proc[q]
                 /\ proc'[p].pc = "write" /\ proc'[p].op = proc[p].op
                 /\ proc'[p].file = proc[p].file /\ proc'[p].item = proc[p].item
                 /\ proc'[p].data = Updated(proc[p].op, proc[p].file, proc[p].item, entry[proc[p].file])
                 /\ proc[p].op # "saveMeta" => entry[proc[p].file] # Missing
<1>1. /\ proc[p].pc = "load" /\ proc[p].op \in Writes \union {"load"}
      /\ UNCHANGED <<entry, disk, tmp, mkdirMu, dir, marker, node, kept, ops, crashes>>
  BY DEF Load
<1>2. CASE Return(p)
  BY <1>1, <1>2, ReturnStep
<1>3. CASE ~Return(p)
  <2> DEFINE m == proc[p]
             v == entry[m.file]
             u == Updated(m.op, m.file, m.item, v)
             n == [m EXCEPT !.pc = "write", !.data = u]
  <2>1. proc' = [proc EXCEPT ![p].pc = "write", ![p].data = u] /\ UNCHANGED lock
    BY <1>3 DEF Load
  <2>2. m.op \in Writes /\ (m.op # "saveMeta" => v # Missing)
    BY <1>1, <1>3 DEF Load
  <2>3. m \in EarlyMethod /\ proc \in [Procs -> Method] /\ m.file \in Files /\ m.item \in Items
    BY <1>1, MethodFields DEF TypeOK, Early
  <2>4. v \in Whole \union {Missing}
    BY <2>3 DEF DiskInv
  <2>5. u \in Whole
    BY <2>2, <2>3, <2>4, UpdatedWhole
  <2>6. proc' = [proc EXCEPT ![p] = n]
    BY <2>1, <2>3
  <2> HIDE DEF u
  <2>7. n \in WritingMethod /\ n.pc = "write" /\ n.op = m.op /\ n.file = m.file /\ n.item = m.item /\ n.data = u
    BY <2>2, <2>3, <2>5 DEF EarlyMethod, WritingMethod, Writing
  <2> HIDE DEF n
  <2>8. n \in Method
    BY <2>7 DEF WritingMethod, Writing, Method
  <2>9. proc' \in [Procs -> Method] /\ (\A q \in Procs \ {p} : proc'[q] = proc[q]) /\ proc'[p] = n
    BY <2>3, <2>6, <2>8
  <2> QED
    BY <1>1, <2>1, <2>2, <2>7, <2>9 DEF u
<1> QED
  BY <1>2, <1>3

-----------------------------------------------------------------------------
(* Two methods do not work on one file. *)
LEMMA OneAtATime ==
    ASSUME LockInv, NEW p \in Procs, NEW q \in Procs, p # q,
           proc[p].pc \in Holding, proc[q].pc \in Holding
    PROVE  proc[p].file # proc[q].file
  BY DEF LockInv

(* The methods that go on are the ones that were called before. *)
Continues ==
    \A q \in Procs :
        \/ proc'[q] = NoMethod
        \/ /\ proc[q] # NoMethod
           /\ proc'[q].op = proc[q].op /\ proc'[q].file = proc[q].file /\ proc'[q].item = proc[q].item

LEMMA MovedContinues ==
    ASSUME TypeOK, NEW p \in Procs, NEW pc, Moved(p, pc), proc[p].pc # "idle"
    PROVE  Continues
  BY MethodFields DEF Moved, Continues, TypeOK, NoMethod

LEMMA FinishedContinues ==
    ASSUME NEW p \in Procs, Finished(p)
    PROVE  Continues
  BY DEF Finished, Continues

(* A directory that is there stays there. *)
Steady == \A d \in Dirs : dir[d] \in {"unsynced", "durable"} => dir'[d] \in {"unsynced", "durable"}

LEMMA ChainInDirs ==
    ASSUME NEW f
    PROVE  Chain(f) \subseteq Dirs /\ DirOf(f) \in Chain(f) /\ DirOf(f) \in {"queues", "exchanges"}
<1>1. DirOf(f) \in {"queues", "exchanges"}
  BY DEF DirOf
<1>2. Chain(f) = Outer \union {DirOf(f)}
  BY <1>1 DEF Chain, Above
<1> QED
  BY <1>1, <1>2 DEF Outer, Dirs

LEMMA PlacedStays ==
    ASSUME Steady
    PROVE  \A f : Placed(f) => Placed(f)'
  BY ChainInDirs DEF Steady, Placed

LEMMA DirsSteady ==
    ASSUME UNCHANGED dir
    PROVE  Steady /\ \A f : Placed(f) <=> Placed(f)'
<1>1. Steady
  BY DEF Steady
<1>2. \A f : Placed(f)' => Placed(f)
  BY DEF Placed
<1> QED
  BY <1>1, <1>2, PlacedStays

(* What is kept stays so unless something more may be on the disk. *)
LEMMA KeptSame ==
    ASSUME KeptInv, Continues, kept \subseteq Files \X Items, kept' \subseteq kept,
           \A f \in Files : Placed(f) => Placed(f)',
           \A f \in Files : disk'[f] \subseteq disk[f]
    PROVE  KeptInv'
<1> SUFFICES ASSUME NEW k \in kept'
             PROVE  /\ Placed(k[1])'
                    /\ \A v \in disk'[k[1]] : v # Missing /\ k[2] \in v
                    /\ ~BeingDeleted(k[1], k[2])'
  BY DEF KeptInv
<1>1. k \in kept /\ k[1] \in Files /\ DirOf(k[1]) \in Dirs
  BY DEF DirOf, Dirs
<1>2. /\ Placed(k[1])
      /\ \A v \in disk[k[1]] : v # Missing /\ k[2] \in v
      /\ ~BeingDeleted(k[1], k[2])
  BY <1>1 DEF KeptInv
<1>3. ~BeingDeleted(k[1], k[2])'
  BY <1>2 DEF Continues, BeingDeleted
<1> QED
  BY <1>1, <1>2, <1>3

(* The locks, when a method moves on without taking or leaving one. *)
LEMMA LockSame ==
    ASSUME TypeOK, LockInv, NEW p \in Procs, NEW pc, Moved(p, pc), UNCHANGED lock,
           pc \in Holding => proc[p].pc \in Holding
    PROVE  LockInv'
  BY DEF LockInv, Moved

LEMMA LockLeft ==
    ASSUME TypeOK, LockInv, NEW p \in Procs, Finished(p)
    PROVE  LockInv'
<1> SUFFICES ASSUME NEW q \in Procs, proc'[q].pc \in Holding
             PROVE  lock'[StripeOf[proc'[q].file]] = q
  BY DEF LockInv
<1>1. q # p /\ proc'[q] = proc[q]
  BY DEF Finished, Holding, Writing
<1>2. lock[StripeOf[proc[q].file]] = q
  BY <1>1 DEF LockInv
<1>3. proc[q] \in Method /\ proc[q].pc # "idle"
  BY <1>1 DEF TypeOK, Holding, Writing
<1>4. StripeOf[proc[q].file] \in Stripes
  BY <1>3, MethodFields, JsonStoreAssumption
<1> QED
  BY <1>1, <1>2, <1>4 DEF Finished

(* The directories, when p moves on. *)
LEMMA DirStep ==
    ASSUME DirInv, NEW p \in Procs, \A q \in Procs \ {p} : proc'[q] = proc[q],
           Steady, UNCHANGED <<entry, disk>>,
           \A d \in Dirs : dir'[d] = "created" => \E q \in Procs : proc'[q].pc = "syncParent",
           \A q \in Procs : proc'[q].pc = "syncParent" => mkdirMu' = q,
           proc'[p].pc = "syncParent" \/ proc'[p].pc = "mkdir" => proc'[p].op = "saveMeta",
           \/ proc'[p].pc \in Writing
           \/ proc'[p].pc \in {"lock", "load"} /\ proc'[p].op = "saveMeta"
           => Placed(proc[p].file)'
    PROVE  DirInv'
<1>1. \A f : Placed(f) => Placed(f)'
  BY PlacedStays
<1>2. ASSUME NEW q \in Procs \ {p},
             \/ proc'[q].pc \in Writing
             \/ proc'[q].pc \in {"lock", "load"} /\ proc'[q].op = "saveMeta"
      PROVE  Placed(proc[q].file)'
  <2>1. proc'[q].file = proc[q].file /\ Placed(proc[q].file)
    BY <1>2 DEF DirInv
  <2> QED
    BY <2>1 DEF Placed, Steady, Chain, Above, DirOf, Outer, Dirs
<1>3. \A f \in Files : ~Placed(f)' => entry'[f] = Missing /\ disk'[f] = {Missing}
  BY <1>1 DEF DirInv
<1>4. \A q \in Procs : proc'[q].pc = "syncParent" \/ proc'[q].pc = "mkdir" => proc'[q].op = "saveMeta"
  BY DEF DirInv
<1> QED
  BY <1>2, <1>3, <1>4 DEF DirInv

(* The directories, when none changes. *)
LEMMA DirSame ==
    ASSUME TypeOK, DirInv, NEW p \in Procs, UNCHANGED <<dir, mkdirMu, entry, disk>>,
           \/ \E pc \in Holding : /\ Moved(p, pc) /\ proc[p].pc \in Holding \union {"lock"}
                                  /\ pc \in Writing => proc[p].pc \in Writing
           \/ Finished(p) /\ proc[p].pc # "syncParent"
    PROVE  DirInv'
<1>1. proc'[p].pc # "syncParent" /\ proc'[p].pc # "mkdir" /\ proc[p].pc # "syncParent"
  BY DEF Moved, Finished, Holding, Writing
<1>2. \A q \in Procs \ {p} : proc'[q] = proc[q]
  BY DEF Moved, Finished
<1>3. ASSUME \/ proc'[p].pc \in Writing
             \/ proc'[p].pc \in {"lock", "load"} /\ proc'[p].op = "saveMeta"
      PROVE  Placed(proc[p].file)'
  <2>1. Placed(proc[p].file) /\ proc'[p].file = proc[p].file
    BY <1>3 DEF Moved, Finished, DirInv, Holding, Writing
  <2> QED
    BY <2>1 DEF Placed
<1>4. \A d \in Dirs : dir[d] = "created" => \E q \in Procs : proc'[q].pc = "syncParent"
  BY <1>1, <1>2 DEF DirInv
<1>5. Steady
  BY DirsSteady
<1> QED
  BY <1>1, <1>2, <1>3, <1>4, <1>5, DirStep DEF DirInv

(* What a method has prepared, when another one moves on. *)
LEMMA OthersPrepared ==
    ASSUME TypeOK, LockInv, WriteInv, NEW p \in Procs, \A q \in Procs \ {p} : proc'[q] = proc[q],
           \A f \in Files : f # proc[p].file \/ proc[p].pc \notin Holding
                               => entry'[f] = entry[f] /\ tmp'[f] = tmp[f]
    PROVE  \A q \in Procs \ {p} : WriteOf(q)'
<1> TAKE q \in Procs \ {p}
<1>1. CASE proc[q].pc \notin Writing
  BY <1>1 DEF WriteOf, Writing
<1>2. CASE proc[q].pc \in Writing
  <2>1. proc[q] \in Method /\ proc[q].pc # "idle" /\ proc[q].pc \in Holding
    BY <1>2 DEF TypeOK, Holding, Writing
  <2>2. proc[q].file \in Files /\ (proc[q].file # proc[p].file \/ proc[p].pc \notin Holding)
    BY <2>1, MethodFields, OneAtATime
  <2>3. entry'[proc[q].file] = entry[proc[q].file] /\ tmp'[proc[q].file] = tmp[proc[q].file]
    BY <2>2
  <2>4. WriteOf(q)
    BY DEF WriteInv
  <2> QED
    BY <2>3, <2>4 DEF WriteOf, Prepared
<1> QED
  BY <1>1, <1>2

-----------------------------------------------------------------------------
(* One lemma per action: it keeps the invariant. *)
LEMMA CallKeeps ==
    ASSUME IInv, NEW p \in Procs, Call(p)
    PROVE  IInv'
<1>a. TypeOK /\ NodeInv /\ LockInv /\ DirInv /\ MarkerInv /\ WriteInv /\ DiskInv /\ KeptInv
  BY DEF IInv
<1>b. /\ node = "up" /\ proc[p] = NoMethod /\ ops' \in 0..MaxOps
      /\ UNCHANGED <<entry, disk, tmp, lock, mkdirMu, dir, marker, node, crashes>>
      /\ proc' \in [Procs -> Method] /\ (\A q \in Procs \ {p} : proc'[q] = proc[q])
      /\ kept' \subseteq kept
      /\ proc'[p].pc \in {"mkdir", "lock"} /\ (proc'[p].pc = "mkdir" <=> proc'[p].op = "saveMeta")
  BY <1>a, CallStep
<1>1. TypeOK'
  BY <1>a, <1>b DEF TypeOK
<1>2. NodeInv' /\ MarkerInv' /\ DiskInv'
  BY <1>a, <1>b DEF NodeInv, MarkerInv, DiskInv, HasEntries
<1>3. LockInv'
  BY <1>a, <1>b DEF LockInv, Holding, Writing
<1>4. proc[p].pc = "idle"
  BY <1>b DEF NoMethod
<1>5. DirInv'
  <2>1. Steady
    BY <1>b, DirsSteady
  <2>2. \A d \in Dirs : dir'[d] = "created" => \E q \in Procs : proc'[q].pc = "syncParent"
    BY <1>a, <1>b, <1>4 DEF DirInv
  <2>3. \A q \in Procs : proc'[q].pc = "syncParent" => mkdirMu' = q
    BY <1>a, <1>b DEF DirInv
  <2> QED
    BY <1>a, <1>b, <2>1, <2>2, <2>3, DirStep DEF Writing
<1>6. WriteInv'
  <2>1. \A q \in Procs \ {p} : WriteOf(q)'
    BY <1>a, <1>b, OthersPrepared
  <2>2. WriteOf(p)'
    BY <1>b DEF WriteOf
  <2> QED
    BY <2>1, <2>2 DEF WriteInv
<1>7. KeptInv'
  <2> SUFFICES ASSUME NEW k \in kept'
               PROVE  /\ Placed(k[1])'
                      /\ \A v \in disk'[k[1]] : v # Missing /\ k[2] \in v
                      /\ ~BeingDeleted(k[1], k[2])'
    BY DEF KeptInv
  <2>1. /\ Placed(k[1])
        /\ \A v \in disk[k[1]] : v # Missing /\ k[2] \in v
        /\ ~BeingDeleted(k[1], k[2])
    BY <1>a, <1>b DEF KeptInv
  <2>2. k = <<k[1], k[2]>>
    BY <1>a, <1>b DEF TypeOK
  <2>3. ~ (/\ proc'[p].file = k[1]
           /\ \/ proc'[p].op = "del" /\ proc'[p].item = k[2]
              \/ proc'[p].op = "remove"
              \/ proc'[p].op = "saveMeta" /\ k[1] \in Exchanges)
    BY <1>a, <2>2, CallStep
  <2>4. ~BeingDeleted(k[1], k[2])'
    BY <1>b, <2>1, <2>3 DEF BeingDeleted
  <2> QED
    BY <1>b, <2>1, <2>4, DirsSteady
<1> QED
  BY <1>1, <1>2, <1>3, <1>5, <1>6, <1>7 DEF IInv

(* A step of mkdirAllDurable changes the directories only. *)
LEMMA DirStepKeeps ==
    ASSUME IInv, NEW p \in Procs, proc[p].pc \in {"mkdir", "syncParent"},
           \/ /\ \E pc \in {"mkdir", "syncParent", "lock"} : Moved(p, pc)
              /\ UNCHANGED lock
           \/ Finished(p),
           UNCHANGED <<entry, disk, tmp, node, kept, ops, crashes>>,
           dir' \in [Dirs -> {"absent", "created", "unsynced", "durable"}],
           mkdirMu' \in Procs \union {NoProc}, marker' \in {"absent", "renamed", "durable", "lost"},
           marker \in {"renamed", "durable"} => marker' \in {"renamed", "durable"},
           Steady, DirInv'
    PROVE  IInv'
<1>a. TypeOK /\ NodeInv /\ LockInv /\ DirInv /\ MarkerInv /\ WriteInv /\ DiskInv /\ KeptInv
  BY DEF IInv
<1>c. proc[p] \in Method /\ proc[p].file \in Files /\ proc[p] # NoMethod /\ node = "up"
  BY <1>a, MethodFields DEF TypeOK, NodeInv
<1>d. proc' \in [Procs -> Method] /\ lock' \in [Stripes -> Procs \union {NoProc}]
  BY <1>a DEF TypeOK, Moved, Finished
<1>f. \A q \in Procs \ {p} : proc'[q] = proc[q]
  BY DEF Moved, Finished
<1>2. TypeOK'
  BY <1>a, <1>d DEF TypeOK
<1>3. NodeInv' /\ MarkerInv' /\ DiskInv'
  BY <1>a, <1>c DEF NodeInv, MarkerInv, DiskInv
<1>4. LockInv'
  <2>1. CASE Finished(p)
    BY <1>a, <2>1, LockLeft
  <2>2. CASE UNCHANGED lock /\ \E pc \in {"mkdir", "syncParent", "lock"} : Moved(p, pc)
    BY <1>a, <2>2, LockSame DEF Holding, Writing
  <2> QED
    BY <2>1, <2>2
<1>6. WriteInv'
  <2>1. \A q \in Procs \ {p} : WriteOf(q)'
    BY <1>a, <1>f, OthersPrepared
  <2>2. WriteOf(p)'
    BY DEF WriteOf, Moved, Finished
  <2> QED
    BY <2>1, <2>2 DEF WriteInv
<1>7. KeptInv'
  <2>1. Continues
    BY <1>a, <1>c, MovedContinues, FinishedContinues
  <2> QED
    BY <1>a, <2>1, PlacedStays, KeptSame DEF TypeOK
<1> QED
  BY <1>2, <1>3, <1>4, <1>6, <1>7 DEF IInv

LEMMA MkdirKeeps ==
    ASSUME IInv, NEW p \in Procs, MkdirAllDurable(p)
    PROVE  IInv' /\ proc[p].pc = "mkdir" /\ (Moved(p, "syncParent") \/ Moved(p, "lock"))
           /\ UNCHANGED <<entry, disk>> /\ (\A d \in Dirs : dir'[d] = "unsynced" <=> dir[d] = "unsynced")
<1>a. TypeOK /\ DirInv
  BY DEF IInv
<1> DEFINE missing == {d \in Above(Wanted(p)) : dir[d] = "absent"}
<1>b. /\ proc[p].pc = "mkdir" /\ mkdirMu = NoProc
      /\ UNCHANGED <<entry, disk, tmp, lock, marker, node, kept, ops, crashes>>
  BY DEF MkdirAllDurable, MkdirGuard
<1>d. /\ \A e \in Dirs : dir[e] # "created"
      /\ \A q \in Procs : proc[q].pc # "syncParent"
  BY <1>a, <1>b, JsonStoreAssumption DEF DirInv
<1>e. proc[p].op = "saveMeta"
  BY <1>a, <1>b DEF DirInv
<1>1. CASE missing # {}
  <2>1. /\ dir' = [d \in Dirs |-> IF d \in missing THEN "created" ELSE dir[d]] /\ mkdirMu' = p
        /\ Goto(p, "syncParent")
    BY <1>1 DEF MkdirAllDurable
  <2>2. Moved(p, "syncParent")
    BY <1>a, <1>b, <2>1, GotoStep DEF Early
  <2>3. \A d \in Dirs : dir'[d] = IF d \in missing THEN "created" ELSE dir[d]
    BY <2>1
  <2>4. \A d \in Dirs : d \in missing => dir[d] = "absent"
    OBVIOUS
  <2> HIDE DEF missing
  <2>5. Steady /\ dir' \in [Dirs -> {"absent", "created", "unsynced", "durable"}]
    BY <1>a, <2>1, <2>3, <2>4 DEF Steady, TypeOK
  <2>6. DirInv'
    BY <1>a, <1>b, <1>d, <1>e, <2>1, <2>2, <2>5, DirStep DEF Moved, Writing
  <2> QED
    BY <1>b, <2>1, <2>2, <2>3, <2>4, <2>5, <2>6, DirStepKeeps DEF IInv, TypeOK
<1>2. CASE missing = {}
  <2>1. Goto(p, "lock") /\ UNCHANGED <<dir, mkdirMu>>
    BY <1>2 DEF MkdirAllDurable
  <2>2. Moved(p, "lock")
    BY <1>a, <1>b, <2>1, GotoStep DEF Early
  <2>3. Steady
    BY <2>1, DirsSteady
  <2>4. dir["vhost"] # "absent"
    BY <1>2 DEF Wanted, Above, Outer
  <2>5. \A d \in Chain(proc[p].file) : dir[d] # "absent"
    BY <1>2, <2>4 DEF Wanted, Chain
  <2>6. Placed(proc[p].file)
    BY <1>a, <1>d, <2>5, ChainInDirs DEF Placed, TypeOK
  <2>7. Placed(proc[p].file)'
    BY <2>1, <2>2, <2>6 DEF Placed, Moved
  <2>8. DirInv'
    BY <1>a, <1>b, <1>d, <1>e, <2>1, <2>2, <2>3, <2>7, DirStep DEF Moved, Writing
  <2> QED
    BY <1>b, <2>1, <2>2, <2>3, <2>8, DirStepKeeps DEF IInv, TypeOK
<1> QED
  BY <1>1, <1>2

LEMMA SyncParentKeeps ==
    ASSUME IInv, NEW p \in Procs, SyncParent(p)
    PROVE  IInv' /\ proc[p].pc = "syncParent" /\ (Moved(p, "syncParent") \/ Moved(p, "mkdir"))
           /\ UNCHANGED <<entry, disk>> /\ (\A d \in Dirs : dir'[d] = "unsynced" => dir[d] = "unsynced")
<1>a. TypeOK /\ DirInv
  BY DEF IInv
<1>b. /\ proc[p].pc = "syncParent"
      /\ UNCHANGED <<entry, disk, tmp, lock, node, kept, ops, crashes>>
  BY DEF SyncParent
<1>c. proc[p].op = "saveMeta" /\ mkdirMu = p /\ \A q \in Procs : proc[q].pc = "syncParent" => q = p
  BY <1>a, <1>b DEF DirInv
<1>1. PICK d \in Dirs :
        /\ dir' = [e \in Dirs |-> IF Parent(e) = Parent(d) /\ dir[e] # "absent" THEN "durable" ELSE dir[e]]
        /\ marker' = IF d = "vhosts" THEN "durable" ELSE marker
  BY DEF SyncParent
<1>2. /\ \A e \in Dirs : dir'[e] = dir[e] \/ (dir[e] # "absent" /\ dir'[e] = "durable")
      /\ dir' \in [Dirs -> {"absent", "created", "unsynced", "durable"}]
  BY <1>a, <1>1 DEF TypeOK
<1>3. Steady
  BY <1>2 DEF Steady
<1>4. CASE \A e \in Dirs : dir'[e] # "created"
  <2>1. mkdirMu' = NoProc /\ Goto(p, "mkdir")
    BY <1>c, <1>4 DEF SyncParent
  <2>2. Moved(p, "mkdir")
    BY <1>a, <1>b, <2>1, GotoStep DEF Early
  <2>3. DirInv'
    BY <1>a, <1>b, <1>c, <1>3, <1>4, <2>1, <2>2, DirStep DEF Moved, Writing
  <2> QED
    BY <1>a, <1>b, <1>1, <1>2, <1>3, <2>1, <2>2, <2>3, DirStepKeeps DEF TypeOK
<1>5. CASE ~ \A e \in Dirs : dir'[e] # "created"
  <2>1. UNCHANGED <<mkdirMu, proc>>
    BY <1>5 DEF SyncParent
  <2>2. Moved(p, "syncParent")
    BY <1>a, <1>b, <2>1 DEF Moved, TypeOK
  <2>3. DirInv'
    BY <1>a, <1>b, <1>c, <1>3, <2>1, <2>2, DirStep DEF Writing
  <2> QED
    BY <1>a, <1>b, <1>1, <1>2, <1>3, <2>1, <2>2, <2>3, DirStepKeeps DEF TypeOK
<1> QED
  BY <1>4, <1>5

(* The error of mkdirAllDurable: the new directories stay, unsynced. *)
LEMMA MkdirErrorKeeps ==
    ASSUME IInv, NEW p \in Procs, MkdirError(p)
    PROVE  IInv' /\ Finished(p) /\ proc[p].pc \in {"mkdir", "syncParent"} /\ proc[p].op = "saveMeta"
           /\ UNCHANGED <<entry, disk>>
           /\ (\A d \in Dirs : IF dir[d] = "created" /\ proc[p].pc = "syncParent"
                                THEN dir'[d] = "unsynced" ELSE dir'[d] = dir[d])
<1>a. TypeOK /\ DirInv
  BY DEF IInv
<1>b. /\ proc[p].pc \in {"mkdir", "syncParent"} /\ Return(p)
      /\ mkdirMu' = IF mkdirMu = p THEN NoProc ELSE mkdirMu
      /\ UNCHANGED <<entry, disk, tmp, marker, node, kept, ops, crashes>>
  BY DEF MkdirError
<1>c. proc[p].op = "saveMeta" /\ Finished(p)
  BY <1>a, <1>b, ReturnStep DEF DirInv
<1>1. \A d \in Dirs : IF dir[d] = "created" /\ proc[p].pc = "syncParent"
                      THEN dir'[d] = "unsynced" ELSE dir'[d] = dir[d]
  <2>1. CASE proc[p].pc = "mkdir"
    BY <2>1 DEF MkdirError
  <2>2. CASE proc[p].pc = "syncParent"
    <3>1. dir' = [d \in Dirs |-> IF d \in Made THEN "unsynced" ELSE dir[d]]
      BY <2>2 DEF MkdirError
    <3> QED
      BY <2>2, <3>1 DEF Made
  <2> QED
    BY <1>b, <2>1, <2>2
<1>2. dir' \in [Dirs -> {"absent", "created", "unsynced", "durable"}]
  BY <1>a, <1>b DEF MkdirError, TypeOK
<1>3. Steady
  BY <1>1 DEF Steady
<1>4. proc'[p].pc = "idle" /\ \A q \in Procs \ {p} : proc'[q] = proc[q]
  BY <1>c DEF Finished
<1>5. \A d \in Dirs : dir'[d] = "created" => \E q \in Procs : proc'[q].pc = "syncParent"
  <2> SUFFICES ASSUME NEW d \in Dirs, dir'[d] = "created"
               PROVE  \E q \in Procs : proc'[q].pc = "syncParent"
    OBVIOUS
  <2>1. dir[d] = "created" /\ proc[p].pc = "mkdir"
    BY <1>b, <1>1
  <2>2. PICK q \in Procs : proc[q].pc = "syncParent"
    BY <1>a, <2>1 DEF DirInv
  <2> QED
    BY <1>4, <2>1, <2>2
<1>6. \A q \in Procs : proc'[q].pc = "syncParent" => mkdirMu' = q
  BY <1>a, <1>b, <1>4 DEF DirInv
<1>7. DirInv'
  BY <1>a, <1>b, <1>3, <1>4, <1>5, <1>6, DirStep DEF Writing
<1>8. mkdirMu' \in Procs \union {NoProc} /\ marker' \in {"absent", "renamed", "durable", "lost"}
  BY <1>a, <1>b DEF TypeOK
<1> QED
  BY <1>b, <1>c, <1>1, <1>2, <1>3, <1>7, <1>8, DirStepKeeps

LEMMA LockFileKeeps ==
    ASSUME IInv, NEW p \in Procs, LockFile(p)
    PROVE  IInv'
<1>a. TypeOK /\ NodeInv /\ LockInv /\ DirInv /\ MarkerInv /\ WriteInv /\ DiskInv /\ KeptInv
  BY DEF IInv
<1> DEFINE s == StripeOf[proc[p].file]
<1>b. /\ proc[p].pc = "lock" /\ lock[s] = NoProc /\ lock' = [lock EXCEPT ![s] = p] /\ Goto(p, "load")
      /\ UNCHANGED <<entry, disk, tmp, mkdirMu, dir, marker, node, kept, ops, crashes>>
  BY DEF LockFile, Free
<1>c. proc[p] \in Method /\ proc[p].file \in Files /\ proc[p] # NoMethod /\ node = "up" /\ s \in Stripes
  BY <1>a, <1>b, MethodFields, JsonStoreAssumption DEF TypeOK, NodeInv
<1>1. Moved(p, "load")
  BY <1>a, <1>b, GotoStep DEF Early
<1>2. TypeOK'
  BY <1>a, <1>b, <1>c, <1>1 DEF TypeOK, Moved
<1>3. NodeInv' /\ MarkerInv' /\ DiskInv'
  BY <1>a, <1>b, <1>c DEF NodeInv, MarkerInv, DiskInv, HasEntries
<1>4. LockInv'
  <2> SUFFICES ASSUME NEW q \in Procs, proc'[q].pc \in Holding
               PROVE  lock'[StripeOf[proc'[q].file]] = q
    BY DEF LockInv
  <2>1. CASE q = p
    BY <1>a, <1>b, <1>c, <1>1, <2>1 DEF Moved, TypeOK
  <2>2. CASE q # p
    <3>1. proc'[q] = proc[q] /\ lock[StripeOf[proc[q].file]] = q
      BY <1>a, <1>1, <2>2 DEF Moved, LockInv
    <3>2. StripeOf[proc[q].file] # s
      BY <1>b, <3>1, JsonStoreAssumption
    <3> QED
      BY <1>a, <1>b, <3>1, <3>2 DEF TypeOK
  <2> QED
    BY <2>1, <2>2
<1>5. DirInv'
  BY <1>a, <1>b, <1>1, DirSame DEF Holding, Writing
<1>6. WriteInv'
  <2>1. \A q \in Procs \ {p} : WriteOf(q)'
    BY <1>a, <1>b, <1>1, OthersPrepared DEF Moved
  <2>2. WriteOf(p)'
    BY <1>1 DEF WriteOf, Moved
  <2> QED
    BY <2>1, <2>2 DEF WriteInv
<1>7. KeptInv'
  BY <1>a, <1>b, <1>1, MovedContinues, DirsSteady, KeptSame DEF TypeOK
<1> QED
  BY <1>2, <1>3, <1>4, <1>5, <1>6, <1>7 DEF IInv

(* A method that returns leaves the store as it is. *)
LEMMA FinishedKeeps ==
    ASSUME IInv, NEW p \in Procs, Finished(p), proc[p].pc \in Holding,
           \A f \in Files : f # proc[p].file => tmp'[f] = tmp[f], tmp' \in [Files -> TmpFile],
           UNCHANGED <<entry, disk, mkdirMu, dir, marker, node, kept, ops, crashes>>
    PROVE  IInv'
<1>a. TypeOK /\ NodeInv /\ LockInv /\ DirInv /\ MarkerInv /\ WriteInv /\ DiskInv /\ KeptInv
  BY DEF IInv
<1>1. TypeOK'
  BY <1>a DEF TypeOK, Finished
<1>2. NodeInv' /\ MarkerInv' /\ DiskInv'
  BY <1>a DEF NodeInv, MarkerInv, DiskInv, HasEntries, Finished
<1>3. LockInv'
  BY <1>a, LockLeft
<1>4. DirInv'
  BY <1>a, DirSame DEF Holding, Writing
<1>5. WriteInv'
  <2>1. \A q \in Procs \ {p} : WriteOf(q)'
    BY <1>a, OthersPrepared DEF Finished
  <2>2. WriteOf(p)'
    BY DEF WriteOf, Finished
  <2> QED
    BY <2>1, <2>2 DEF WriteInv
<1>6. KeptInv'
  BY <1>a, FinishedContinues, DirsSteady, KeptSame DEF TypeOK
<1> QED
  BY <1>1, <1>2, <1>3, <1>4, <1>5, <1>6 DEF IInv

LEMMA IOErrorKeeps ==
    ASSUME IInv, NEW p \in Procs, IOError(p)
    PROVE  IInv' /\ Finished(p) /\ proc[p].pc \in Writing /\ UNCHANGED <<entry, disk>>
<1>1. TypeOK /\ proc[p].pc \in Writing
  BY DEF IInv, IOError, Writing
<1>2. Finished(p)
  BY <1>1, ReturnStep DEF IOError
<1>3. /\ \A f \in Files : f # proc[p].file => tmp'[f] = tmp[f]
      /\ tmp' \in [Files -> TmpFile]
  BY <1>1 DEF IOError, TypeOK, TmpFile
<1> QED
  BY <1>1, <1>2, <1>3, FinishedKeeps DEF IOError, Holding

LEMMA LoadKeeps ==
    ASSUME IInv, NEW p \in Procs, Load(p)
    PROVE  IInv'
<1>a. TypeOK /\ NodeInv /\ LockInv /\ DirInv /\ MarkerInv /\ WriteInv /\ DiskInv /\ KeptInv
  BY DEF IInv
<1>b. proc[p].pc = "load" /\ UNCHANGED <<entry, disk, tmp, mkdirMu, dir, marker, node, kept, ops, crashes>>
  BY <1>a, LoadStep
<1>1. CASE Finished(p)
  BY <1>a, <1>b, <1>1, FinishedKeeps DEF TypeOK, Holding
<1>2. CASE ~Finished(p)
  <2>1. /\ UNCHANGED lock
        /\ proc' \in [Procs -> Method] /\ \A q \in Procs \ {p} : proc'[q] = proc[q]
        /\ proc'[p].pc = "write" /\ proc'[p].op = proc[p].op
        /\ proc'[p].file = proc[p].file /\ proc'[p].item = proc[p].item
        /\ proc'[p].data = Updated(proc[p].op, proc[p].file, proc[p].item, entry[proc[p].file])
        /\ proc[p].op # "saveMeta" => entry[proc[p].file] # Missing
    BY <1>a, <1>2, LoadStep
  <2>2. proc[p] \in Method /\ proc[p].file \in Files /\ proc[p] # NoMethod /\ node = "up"
    BY <1>a, <1>b, MethodFields DEF TypeOK, NodeInv
  <2>3. TypeOK'
    BY <1>a, <1>b, <2>1 DEF TypeOK
  <2>4. NodeInv' /\ MarkerInv' /\ DiskInv'
    BY <1>a, <1>b, <2>2 DEF NodeInv, MarkerInv, DiskInv, HasEntries
  <2>5. LockInv'
    BY <1>a, <1>b, <2>1 DEF LockInv, Holding
  <2>6. Placed(proc[p].file)
    BY <1>a, <1>b, <2>1, <2>2 DEF DirInv
  <2>7. DirInv'
    <3>1. Steady /\ Placed(proc[p].file)'
      BY <1>b, <2>1, <2>6, DirsSteady DEF Placed
    <3>2. \A d \in Dirs : dir'[d] = "created" => \E q \in Procs : proc'[q].pc = "syncParent"
      BY <1>a, <1>b, <2>1 DEF DirInv
    <3>3. \A q \in Procs : proc'[q].pc = "syncParent" => mkdirMu' = q
      BY <1>a, <1>b, <2>1 DEF DirInv
    <3> QED
      BY <1>a, <1>b, <2>1, <3>1, <3>2, <3>3, DirStep
  <2>8. WriteInv'
    <3>1. \A q \in Procs \ {p} : WriteOf(q)'
      BY <1>a, <1>b, <2>1, OthersPrepared
    <3>2. WriteOf(p)'
      BY <1>b, <2>1 DEF WriteOf, Prepared
    <3> QED
      BY <3>1, <3>2 DEF WriteInv
  <2>9. Continues
    BY <2>1, <2>2, MethodFields DEF Continues, TypeOK, NoMethod
  <2>10. KeptInv'
    BY <1>a, <1>b, <2>9, DirsSteady, KeptSame DEF TypeOK
  <2> QED
    BY <2>3, <2>4, <2>5, <2>7, <2>8, <2>10 DEF IInv
<1> QED
  BY <1>1, <1>2

(* What a writing method knows: its directory is durable, its file locked. *)
LEMMA WritingMethodFacts ==
    ASSUME IInv, NEW p \in Procs, proc[p].pc \in Holding
    PROVE  /\ proc[p] \in Method /\ proc[p] # NoMethod /\ proc[p].pc # "idle" /\ node = "up"
           /\ proc[p].file \in Files /\ proc[p].item \in Items /\ proc[p].op \in Methods
           /\ proc[p].pc \in Writing =>
                /\ proc[p].op \in Writes /\ proc[p].data \in Whole
                /\ Placed(proc[p].file)
<1>1. TypeOK /\ NodeInv /\ DirInv /\ proc[p] \in Method /\ proc[p].pc # "idle"
  BY DEF IInv, TypeOK, Holding, Writing
<1>2. proc[p] # NoMethod /\ node = "up"
  BY <1>1 DEF NodeInv, NoMethod
<1> QED
  BY <1>1, <1>2, MethodFields DEF DirInv

(* A step of atomicWriteFile before the rename. *)
LEMMA TmpKeeps ==
    ASSUME IInv, NEW p \in Procs, proc[p].pc \in Writing, NEW pc \in {"sync", "rename"}, Moved(p, pc),
           proc[p].pc \in {"write", "sync"}, tmp' \in [Files -> TmpFile],
           \A f \in Files : f # proc[p].file => tmp'[f] = tmp[f],
           tmp'[proc[p].file] = [state |-> IF pc = "sync" THEN "written" ELSE "synced", data |-> proc[p].data],
           UNCHANGED <<entry, disk, lock, mkdirMu, dir, marker, node, kept, ops, crashes>>
    PROVE  IInv'
<1>a. TypeOK /\ NodeInv /\ LockInv /\ DirInv /\ MarkerInv /\ WriteInv /\ DiskInv /\ KeptInv
  BY DEF IInv
<1>b. proc[p] # NoMethod /\ proc[p].pc # "idle" /\ node = "up" /\ proc[p].file \in Files
  BY WritingMethodFacts DEF Holding
<1>1. TypeOK'
  BY <1>a DEF TypeOK, Moved
<1>2. NodeInv' /\ MarkerInv' /\ DiskInv'
  BY <1>a, <1>b DEF NodeInv, MarkerInv, DiskInv, HasEntries
<1>3. LockInv'
  BY <1>a, LockSame DEF Holding
<1>4. DirInv'
  BY <1>a, DirSame DEF Holding, Writing
<1>5. WriteInv'
  <2>1. \A q \in Procs \ {p} : WriteOf(q)'
    <3>1. \A q \in Procs \ {p} : proc'[q] = proc[q]
      BY DEF Moved
    <3>2. \A g \in Files : g # proc[p].file \/ proc[p].pc \notin Holding
                               => entry'[g] = entry[g] /\ tmp'[g] = tmp[g]
      BY DEF Holding
    <3> QED
      BY <1>a, <3>1, <3>2, OthersPrepared
  <2>2. Prepared(p)
    BY <1>a DEF WriteInv, WriteOf
  <2>3. WriteOf(p)'
    BY <2>2 DEF WriteOf, Prepared, Moved
  <2> QED
    BY <2>1, <2>3 DEF WriteInv
<1>6. KeptInv'
  BY <1>a, <1>b, MovedContinues, DirsSteady, KeptSame DEF TypeOK
<1> QED
  BY <1>1, <1>2, <1>3, <1>4, <1>5, <1>6 DEF IInv

LEMMA WriteTmpKeeps ==
    ASSUME IInv, NEW p \in Procs, WriteTmp(p)
    PROVE  IInv'
<1> DEFINE f == proc[p].file
           t == [state |-> "written", data |-> proc[p].data]
<1>1. /\ proc[p].pc = "write" /\ Goto(p, "sync") /\ tmp' = [tmp EXCEPT ![f] = t]
      /\ UNCHANGED <<entry, disk, lock, mkdirMu, dir, marker, node, kept, ops, crashes>>
  BY DEF WriteTmp
<1>2. TypeOK /\ proc[p].pc \in Writing /\ f \in Files /\ proc[p].data \in Content
  BY <1>1, WritingMethodFacts DEF IInv, Writing, Holding, Content
<1>3. Moved(p, "sync")
  BY <1>1, <1>2, GotoStep DEF Writing
<1>4. t \in TmpFile
  BY <1>2 DEF TmpFile
<1>5. tmp' \in [Files -> TmpFile] /\ (\A g \in Files : g # f => tmp'[g] = tmp[g]) /\ tmp'[f] = t
  BY <1>1, <1>2, <1>4 DEF TypeOK
<1> QED
  BY <1>1, <1>2, <1>3, <1>5, TmpKeeps

LEMMA SyncTmpKeeps ==
    ASSUME IInv, NEW p \in Procs, SyncTmp(p)
    PROVE  IInv'
<1> DEFINE f == proc[p].file
           t == [state |-> "synced", data |-> proc[p].data]
<1>1. /\ proc[p].pc = "sync" /\ Goto(p, "rename") /\ tmp' = [tmp EXCEPT ![f].state = "synced"]
      /\ UNCHANGED <<entry, disk, lock, mkdirMu, dir, marker, node, kept, ops, crashes>>
  BY DEF SyncTmp
<1>2. TypeOK /\ proc[p].pc \in Writing /\ f \in Files /\ proc[p].data \in Content
  BY <1>1, WritingMethodFacts DEF IInv, Writing, Holding, Content
<1>3. Moved(p, "rename")
  BY <1>1, <1>2, GotoStep DEF Writing
<1>4. tmp[f] = [state |-> "written", data |-> proc[p].data]
  BY <1>1 DEF IInv, WriteInv, WriteOf
<1>5. tmp' = [tmp EXCEPT ![f] = t]
  <2>1. [tmp[f] EXCEPT !.state = "synced"] = t
    BY <1>4
  <2>2. tmp' = [tmp EXCEPT ![f] = [tmp[f] EXCEPT !.state = "synced"]]
    BY <1>1
  <2> QED
    BY <2>1, <2>2
<1>6. t \in TmpFile
  BY <1>2 DEF TmpFile
<1>7. tmp' \in [Files -> TmpFile] /\ (\A g \in Files : g # f => tmp'[g] = tmp[g]) /\ tmp'[f] = t
  BY <1>2, <1>5, <1>6 DEF TypeOK
<1> QED
  BY <1>1, <1>2, <1>3, <1>7, TmpKeeps

(* The rename puts in place what the method made of the current content,   *)
(* and nothing torn.                                                       *)
LEMMA RenameStep ==
    ASSUME IInv, NEW p \in Procs, RenameTmp(p)
    PROVE  /\ proc[p].pc = "rename" /\ Moved(p, "syncDir") /\ Prepared(p)
           /\ entry' = [entry EXCEPT ![proc[p].file] = proc[p].data]
           /\ disk' = [disk EXCEPT ![proc[p].file] = @ \union {proc[p].data}]
           /\ tmp' = [tmp EXCEPT ![proc[p].file] = NoTmp]
           /\ UNCHANGED <<lock, mkdirMu, dir, marker, node, kept, ops, crashes>>
<1> DEFINE f == proc[p].file
<1>1. proc[p].pc = "rename" /\ Goto(p, "syncDir") /\ TypeOK
  BY DEF RenameTmp, IInv
<1>2. Moved(p, "syncDir")
  BY <1>1, GotoStep DEF Writing
<1>3. tmp[f] = [state |-> "synced", data |-> proc[p].data] /\ Prepared(p)
  BY <1>1 DEF IInv, WriteInv, WriteOf
<1>4. tmp[f].state = "synced" /\ tmp[f].data = proc[p].data
  BY <1>3
<1>5. entry' = [entry EXCEPT ![f] = proc[p].data] /\ tmp' = [tmp EXCEPT ![f] = NoTmp]
  BY <1>4 DEF RenameTmp
<1>6. disk' = [disk EXCEPT ![f] = @ \union {proc[p].data} \union {}]
  BY <1>4 DEF RenameTmp
<1> QED
  BY <1>1, <1>2, <1>3, <1>5, <1>6 DEF RenameTmp

(* A method that nobody asked to delete an item does not drop it. *)
LEMMA UpdatedKeeps ==
    ASSUME NEW op \in Writes, NEW f \in Files, NEW i, NEW j, NEW v, v # Missing, j \in v,
           ~(op = "del" /\ i = j), ~(op = "saveMeta" /\ f \in Exchanges)
    PROVE  j \in Updated(op, f, i, v)
<1>1. CASE op = "saveMeta"
  BY <1>1 DEF Updated
<1>2. CASE op = "add"
  BY <1>2 DEF Updated
<1>3. CASE op = "del"
  BY <1>3 DEF Updated
<1> QED
  BY <1>1, <1>2, <1>3 DEF Writes

LEMMA RenameKeeps ==
    ASSUME IInv, NEW p \in Procs, RenameTmp(p)
    PROVE  IInv'
<1>a. TypeOK /\ NodeInv /\ LockInv /\ DirInv /\ MarkerInv /\ WriteInv /\ DiskInv /\ KeptInv
  BY DEF IInv
<1> DEFINE f == proc[p].file
           x == proc[p].data
<1>b. /\ proc[p].pc = "rename" /\ Moved(p, "syncDir") /\ Prepared(p)
      /\ UNCHANGED <<lock, mkdirMu, dir, marker, node, kept, ops, crashes>>
  BY RenameStep
<1>c. /\ proc[p] # NoMethod /\ proc[p].pc # "idle" /\ node = "up" /\ f \in Files /\ x \in Whole
      /\ Placed(f) /\ proc[p].op \in Writes /\ proc[p].item \in Items
  BY <1>b, WritingMethodFacts DEF Holding, Writing
<1>e. entry' = [entry EXCEPT ![f] = x] /\ tmp' = [tmp EXCEPT ![f] = NoTmp]
  BY RenameStep
<1>f. disk' = [disk EXCEPT ![f] = disk[f] \union {x}]
  BY RenameStep
<1>h. f = proc[p].file /\ x = proc[p].data
  OBVIOUS
<1> HIDE DEF f, x
<1>d. /\ \A g \in Files : entry'[g] = IF g = f THEN x ELSE entry[g]
      /\ \A g \in Files : disk'[g] = IF g = f THEN disk[g] \union {x} ELSE disk[g]
      /\ \A g \in Files : tmp'[g] = IF g = f THEN NoTmp ELSE tmp[g]
  <2>1. entry \in [Files -> Content] /\ tmp \in [Files -> TmpFile] /\ DOMAIN disk = Files
    BY <1>a DEF TypeOK
  <2>2. \A g \in Files : disk'[g] = IF g = f THEN disk[g] \union {x} ELSE disk[g]
    BY <1>f, <2>1
  <2> QED
    BY <1>e, <2>1, <2>2
<1>1. TypeOK'
  <2>1. x \in Content /\ NoTmp \in TmpFile
    BY <1>c DEF Content, TmpFile
  <2>2. entry' \in [Files -> Content] /\ tmp' \in [Files -> TmpFile]
    BY <1>a, <1>e, <2>1 DEF TypeOK
  <2>3. disk' \in [Files -> (SUBSET Content) \ {{}}]
    <3>1. disk[f] \union {x} \in (SUBSET Content) \ {{}}
      <4>1. disk[f] \in SUBSET Content
        BY <1>a, <1>c DEF TypeOK
      <4>2. disk[f] \union {x} \subseteq Content
        BY <2>1, <4>1
      <4>3. x \in disk[f] \union {x}
        OBVIOUS
      <4>4. disk[f] \union {x} # {}
        BY <4>3, Zenon
      <4> QED
        BY <4>2, <4>4
    <3> QED
      BY <1>a, <1>f, <3>1 DEF TypeOK
  <2> QED
    BY <1>a, <1>b, <2>2, <2>3 DEF TypeOK, Moved
<1>2. NodeInv' /\ MarkerInv'
  BY <1>a, <1>b, <1>c DEF NodeInv, MarkerInv, HasEntries
<1>3. DiskInv'
  <2> SUFFICES ASSUME NEW g \in Files
               PROVE  disk'[g] \subseteq Whole \union {Missing} /\ entry'[g] \in disk'[g]
    BY DEF DiskInv
  <2>1. disk[g] \subseteq Whole \union {Missing} /\ entry[g] \in disk[g]
    BY <1>a DEF DiskInv
  <2>2. CASE g = f
    BY <1>c, <1>d, <2>1, <2>2
  <2>3. CASE g # f
    BY <1>d, <2>1, <2>3
  <2> QED
    BY <2>2, <2>3
<1>4. LockInv'
  BY <1>a, <1>b, LockSame DEF Holding, Writing
<1>5. DirInv'
  <2>1. \A q \in Procs \ {p} : proc'[q] = proc[q]
    BY <1>b DEF Moved
  <2>2. proc'[p].pc = "syncDir" /\ proc'[p].file = f
    BY <1>b, <1>h DEF Moved
  <2>3. \A d \in Dirs : dir'[d] = "created" => \E q \in Procs : proc'[q].pc = "syncParent"
    BY <1>a, <1>b, <2>1 DEF DirInv
  <2>4. \A g \in Files : ~Placed(g)' => entry'[g] = Missing /\ disk'[g] = {Missing}
    BY <1>a, <1>b, <1>c, <1>d, DirsSteady DEF DirInv
  <2>5. ASSUME NEW q \in Procs,
               \/ proc'[q].pc \in Writing
               \/ proc'[q].pc \in {"lock", "load"} /\ proc'[q].op = "saveMeta"
        PROVE  Placed(proc[q].file)'
    <3>1. proc'[q].file = proc[q].file /\ Placed(proc[q].file)
      BY <1>a, <1>c, <1>h, <2>1, <2>2, <2>5 DEF DirInv
    <3> QED
      BY <1>b, <3>1 DEF Placed
  <2> QED
    BY <1>a, <1>b, <1>c, <2>1, <2>2, <2>3, <2>4, <2>5 DEF DirInv
<1>6. WriteInv'
  <2>1. \A q \in Procs \ {p} : WriteOf(q)'
    <3>1. \A q \in Procs \ {p} : proc'[q] = proc[q]
      BY <1>b DEF Moved
    <3>2. \A g \in Files : g # proc[p].file \/ proc[p].pc \notin Holding
                               => entry'[g] = entry[g] /\ tmp'[g] = tmp[g]
      BY <1>b, <1>d, <1>h DEF Holding, Writing
    <3> QED
      BY <1>a, <3>1, <3>2, OthersPrepared
  <2>2. entry[f] \in Whole \union {Missing} /\ (proc[p].op # "saveMeta" => entry[f] # Missing)
        /\ x = Updated(proc[p].op, f, proc[p].item, entry[f])
    BY <1>a, <1>b, <1>c, <1>h DEF DiskInv, Prepared
  <2>3. proc[p].op = "add" => proc[p].item \in x
    BY <1>c, <2>2, UpdatedWhole
  <2>4. WriteOf(p)'
    BY <1>b, <1>c, <1>d, <1>h, <2>3 DEF WriteOf, Moved
  <2> QED
    BY <2>1, <2>4 DEF WriteInv
<1>7. KeptInv'
  <2> SUFFICES ASSUME NEW k \in kept
               PROVE  /\ Placed(k[1])'
                      /\ \A v \in disk'[k[1]] : v # Missing /\ k[2] \in v
                      /\ ~BeingDeleted(k[1], k[2])'
    BY <1>b DEF KeptInv
  <2>1. /\ Placed(k[1]) /\ k[1] \in Files
        /\ \A v \in disk[k[1]] : v # Missing /\ k[2] \in v
        /\ ~BeingDeleted(k[1], k[2])
    BY <1>a DEF KeptInv, TypeOK
  <2>2. ~BeingDeleted(k[1], k[2])'
    <3>1. Continues
      BY <1>a, <1>b, <1>c, MovedContinues
    <3> QED
      BY <2>1, <3>1 DEF Continues, BeingDeleted
  <2>3. CASE k[1] # f
    BY <1>b, <1>d, <2>1, <2>2, <2>3, DirsSteady
  <2>4. CASE k[1] = f
    <3>1. entry[f] # Missing /\ k[2] \in entry[f]
      BY <1>a, <1>c, <2>1, <2>4 DEF DiskInv
    <3>2. ~(proc[p].op = "del" /\ proc[p].item = k[2]) /\ ~(proc[p].op = "saveMeta" /\ f \in Exchanges)
      BY <1>c, <1>h, <2>1, <2>4 DEF BeingDeleted
    <3>3. k[2] \in Updated(proc[p].op, f, proc[p].item, entry[f])
      BY <1>c, <3>1, <3>2, UpdatedKeeps
    <3>4. x # Missing /\ k[2] \in x
      BY <1>b, <1>c, <1>h, <3>3, ContentAssumption DEF Prepared
    <3>5. disk'[k[1]] = disk[k[1]] \union {x}
      BY <1>c, <1>d, <2>4
    <3> QED
      BY <1>b, <2>1, <2>2, <3>4, <3>5, DirsSteady
  <2> QED
    BY <2>3, <2>4
<1> QED
  BY <1>1, <1>2, <1>3, <1>4, <1>5, <1>6, <1>7 DEF IInv

(* The removal: the items of the file are being deleted, so none is kept. *)
LEMMA RemoveStep ==
    ASSUME IInv, NEW p \in Procs, RemoveFile(p)
    PROVE  /\ proc[p].pc = "load" /\ proc[p].op = "remove" /\ Finished(p)
           /\ UNCHANGED <<tmp, mkdirMu, dir, marker, node, kept, ops, crashes>>
           /\ \/ entry[proc[p].file] = Missing /\ UNCHANGED <<entry, disk>>
              \/ /\ entry[proc[p].file] # Missing
                 /\ entry' = [entry EXCEPT ![proc[p].file] = Missing]
                 /\ disk' = [disk EXCEPT ![proc[p].file] = disk[proc[p].file] \union {Missing}]
  BY ReturnStep DEF RemoveFile, IInv

LEMMA RemoveKeeps ==
    ASSUME IInv, NEW p \in Procs, RemoveFile(p)
    PROVE  IInv'
<1>a. TypeOK /\ NodeInv /\ LockInv /\ DirInv /\ MarkerInv /\ WriteInv /\ DiskInv /\ KeptInv
  BY DEF IInv
<1> DEFINE f == proc[p].file
<1>b. /\ proc[p].pc = "load" /\ proc[p].op = "remove" /\ Finished(p)
      /\ UNCHANGED <<tmp, mkdirMu, dir, marker, node, kept, ops, crashes>>
  BY RemoveStep
<1>c. proc[p].pc \in Holding /\ proc[p] # NoMethod /\ node = "up" /\ f \in Files
  BY <1>b, WritingMethodFacts DEF Holding
<1>d. f = proc[p].file
  OBVIOUS
<1>1. CASE UNCHANGED <<entry, disk>>
  BY <1>a, <1>b, <1>c, <1>1, FinishedKeeps DEF TypeOK
<1>2. CASE entry[f] # Missing /\ entry' = [entry EXCEPT ![f] = Missing]
           /\ disk' = [disk EXCEPT ![f] = disk[f] \union {Missing}]
  <2> HIDE DEF f
  <2>1. DOMAIN entry = Files /\ DOMAIN disk = Files
    BY <1>a DEF TypeOK
  <2>2. /\ \A g \in Files : entry'[g] = IF g = f THEN Missing ELSE entry[g]
        /\ \A g \in Files : disk'[g] = IF g = f THEN disk[g] \union {Missing} ELSE disk[g]
    BY <1>2, <2>1
  <2>3. TypeOK'
    <3>1. Missing \in Content
      BY DEF Content
    <3>2. entry' \in [Files -> Content]
      BY <1>a, <1>2, <3>1 DEF TypeOK
    <3>3. disk[f] \union {Missing} \in (SUBSET Content) \ {{}}
      <4>1. disk[f] \in SUBSET Content
        BY <1>a, <1>c DEF TypeOK
      <4>2. disk[f] \union {Missing} \subseteq Content
        BY <3>1, <4>1
      <4>3. Missing \in disk[f] \union {Missing}
        OBVIOUS
      <4>4. disk[f] \union {Missing} # {}
        BY <4>3, Zenon
      <4> QED
        BY <4>2, <4>4
    <3>4. disk' \in [Files -> (SUBSET Content) \ {{}}]
      BY <1>a, <1>2, <3>3 DEF TypeOK
    <3> QED
      BY <1>a, <1>b, <3>2, <3>4 DEF TypeOK, Finished
  <2>4. NodeInv' /\ MarkerInv'
    BY <1>a, <1>b, <1>c DEF NodeInv, MarkerInv, HasEntries
  <2>5. DiskInv'
    <3> SUFFICES ASSUME NEW g \in Files
                 PROVE  disk'[g] \subseteq Whole \union {Missing} /\ entry'[g] \in disk'[g]
      BY DEF DiskInv
    <3>1. disk[g] \subseteq Whole \union {Missing} /\ entry[g] \in disk[g]
      BY <1>a DEF DiskInv
    <3>2. CASE g = f
      BY <2>2, <3>1, <3>2
    <3>3. CASE g # f
      BY <2>2, <3>1, <3>3
    <3> QED
      BY <3>2, <3>3
  <2>6. LockInv'
    BY <1>a, <1>b, LockLeft
  <2>7. DirInv'
    <3>1. Placed(f)
      BY <1>a, <1>c, <1>2 DEF DirInv
    <3>2. \A q \in Procs \ {p} : proc'[q] = proc[q]
      BY <1>b DEF Finished
    <3>3. proc'[p].pc = "idle"
      BY <1>b DEF Finished
    <3>4. \A d \in Dirs : dir'[d] = "created" => \E q \in Procs : proc'[q].pc = "syncParent"
      BY <1>a, <1>b, <3>2 DEF DirInv
    <3>5. \A g \in Files : ~Placed(g)' => entry'[g] = Missing /\ disk'[g] = {Missing}
      BY <1>a, <1>b, <2>2, <3>1, DirsSteady DEF DirInv
    <3>6. ASSUME NEW q \in Procs,
                 \/ proc'[q].pc \in Writing
                 \/ proc'[q].pc \in {"lock", "load"} /\ proc'[q].op = "saveMeta"
          PROVE  Placed(proc[q].file)'
      <4>1. proc'[q].file = proc[q].file /\ Placed(proc[q].file)
        BY <1>a, <3>2, <3>3, <3>6 DEF DirInv, Writing
      <4> QED
        BY <1>b, <4>1 DEF Placed
    <3> QED
      BY <1>a, <1>b, <3>2, <3>3, <3>4, <3>5, <3>6 DEF DirInv, Writing
  <2>8. WriteInv'
    <3>1. \A q \in Procs \ {p} : proc'[q] = proc[q]
      BY <1>b DEF Finished
    <3>2. \A g \in Files : g # proc[p].file \/ proc[p].pc \notin Holding
                             => entry'[g] = entry[g] /\ tmp'[g] = tmp[g]
      BY <1>b, <1>c, <1>d, <2>2
    <3>3. \A q \in Procs \ {p} : WriteOf(q)'
      BY <1>a, <3>1, <3>2, OthersPrepared
    <3>4. WriteOf(p)'
      BY <1>b DEF WriteOf, Finished
    <3> QED
      BY <3>3, <3>4 DEF WriteInv
  <2>9. KeptInv'
    <3> SUFFICES ASSUME NEW k \in kept
                 PROVE  /\ Placed(k[1])'
                        /\ \A v \in disk'[k[1]] : v # Missing /\ k[2] \in v
                        /\ ~BeingDeleted(k[1], k[2])'
      BY <1>b DEF KeptInv
    <3>1. /\ Placed(k[1]) /\ k[1] \in Files
          /\ \A v \in disk[k[1]] : v # Missing /\ k[2] \in v
          /\ ~BeingDeleted(k[1], k[2])
      BY <1>a DEF KeptInv, TypeOK
    <3>2. k[1] # f
      BY <1>b, <1>c, <1>d, <3>1 DEF BeingDeleted
    <3>3. ~BeingDeleted(k[1], k[2])'
      BY <1>b, <3>1, FinishedContinues DEF Continues, BeingDeleted
    <3> QED
      BY <1>b, <2>2, <3>1, <3>2, <3>3, DirsSteady
  <2> QED
    BY <2>3, <2>4, <2>5, <2>6, <2>7, <2>8, <2>9 DEF IInv
<1> QED
  BY <1>1, <1>2, RemoveStep

(* The sync of the directory leaves one content, the current one, and the  *)
(* item that was added is in it.                                           *)
LEMMA SyncDirStep ==
    ASSUME IInv, NEW p \in Procs, SyncDir(p)
    PROVE  /\ proc[p].pc = "syncDir" /\ Finished(p)
           /\ UNCHANGED <<entry, tmp, mkdirMu, dir, marker, node, ops, crashes>>
           /\ disk' = [g \in Files |-> IF DirOf(g) = DirOf(proc[p].file) THEN {entry[g]} ELSE disk[g]]
           /\ \/ kept' = kept
              \/ /\ proc[p].op = "add" /\ ~BeingDeleted(proc[p].file, proc[p].item)
                 /\ kept' = kept \union {<<proc[p].file, proc[p].item>>}
<1>1. /\ proc[p].pc = "syncDir" /\ Finished(p)
      /\ UNCHANGED <<entry, tmp, mkdirMu, dir, marker, node, ops, crashes>>
  BY ReturnStep DEF SyncDir, IInv
<1>2. \A g \in Files : disk[g] \intersect {Torn} = {}
  BY ContentAssumption, JsonStoreAssumption DEF IInv, DiskInv
<1>3. \A g \in Files : {entry[g]} \union (disk[g] \intersect {Torn}) = {entry[g]}
  BY <1>2
<1>4. disk' = [g \in Files |-> IF DirOf(g) = DirOf(proc[p].file)
                               THEN {entry[g]} \union (disk[g] \intersect {Torn}) ELSE disk[g]]
  BY DEF SyncDir
<1>5. disk' = [g \in Files |-> IF DirOf(g) = DirOf(proc[p].file) THEN {entry[g]} ELSE disk[g]]
  BY <1>3, <1>4
<1>6. \/ kept' = kept
      \/ /\ proc[p].op = "add" /\ ~BeingDeleted(proc[p].file, proc[p].item)
         /\ kept' = kept \union {<<proc[p].file, proc[p].item>>}
  BY DEF SyncDir
<1> QED
  BY <1>1, <1>5, <1>6

LEMMA SyncDirKeeps ==
    ASSUME IInv, NEW p \in Procs, SyncDir(p)
    PROVE  IInv'
<1>a. TypeOK /\ NodeInv /\ LockInv /\ DirInv /\ MarkerInv /\ WriteInv /\ DiskInv /\ KeptInv
  BY DEF IInv
<1>b. /\ proc[p].pc = "syncDir" /\ Finished(p)
      /\ UNCHANGED <<entry, tmp, mkdirMu, dir, marker, node, ops, crashes>>
  BY SyncDirStep
<1>c. disk' = [g \in Files |-> IF DirOf(g) = DirOf(proc[p].file) THEN {entry[g]} ELSE disk[g]]
  BY SyncDirStep
<1>d. \/ kept' = kept
      \/ /\ proc[p].op = "add" /\ ~BeingDeleted(proc[p].file, proc[p].item)
         /\ kept' = kept \union {<<proc[p].file, proc[p].item>>}
  BY SyncDirStep
<1>e. /\ proc[p].pc \in Holding /\ proc[p].pc \in Writing
      /\ proc[p].file \in Files /\ proc[p].item \in Items /\ proc[p].data \in Whole
      /\ Placed(proc[p].file) /\ node = "up"
  BY <1>b, WritingMethodFacts DEF Holding, Writing
<1>f. /\ \A g \in Files : disk'[g] \subseteq disk[g] /\ entry[g] \in disk'[g]
      /\ disk'[proc[p].file] = {entry[proc[p].file]}
  <2>1. \A g \in Files : disk[g] \subseteq Whole \union {Missing} /\ entry[g] \in disk[g]
    BY <1>a DEF DiskInv
  <2> QED
    BY <1>c, <1>e, <2>1
<1>1. TypeOK'
  <2>1. disk' \in [Files -> (SUBSET Content) \ {{}}]
    <3>1. \A g \in Files : (IF DirOf(g) = DirOf(proc[p].file) THEN {entry[g]} ELSE disk[g])
                             \in (SUBSET Content) \ {{}}
      <4> TAKE g \in Files
      <4>1. entry[g] \in Content /\ disk[g] \in (SUBSET Content) \ {{}}
        BY <1>a DEF TypeOK
      <4>2. {entry[g]} \in (SUBSET Content) \ {{}}
        BY <4>1
      <4> QED
        BY <4>1, <4>2
    <3> QED
      BY <1>c, <3>1
  <2>2. kept' \subseteq Files \X Items
    BY <1>a, <1>d, <1>e DEF TypeOK
  <2> QED
    BY <1>a, <1>b, <2>1, <2>2 DEF TypeOK, Finished
<1>2. NodeInv' /\ MarkerInv'
  BY <1>a, <1>b, <1>e DEF NodeInv, MarkerInv, HasEntries
<1>3. LockInv'
  BY <1>a, <1>b, LockLeft
<1>4. DirInv'
  <2>1. \A q \in Procs \ {p} : proc'[q] = proc[q]
    BY <1>b DEF Finished
  <2>2. proc'[p].pc = "idle"
    BY <1>b DEF Finished
  <2>3. \A d \in Dirs : dir'[d] = "created" => \E q \in Procs : proc'[q].pc = "syncParent"
    BY <1>a, <1>b, <2>1 DEF DirInv
  <2>4. \A g \in Files : ~Placed(g)' => entry'[g] = Missing /\ disk'[g] = {Missing}
    <3> SUFFICES ASSUME NEW g \in Files, ~Placed(g)
                 PROVE  entry[g] = Missing /\ disk'[g] = {Missing}
      BY <1>b, DirsSteady
    <3>1. entry[g] = Missing /\ disk[g] = {Missing}
      BY <1>a DEF DirInv
    <3> QED
      BY <1>f, <3>1
  <2>5. ASSUME NEW q \in Procs,
               \/ proc'[q].pc \in Writing
               \/ proc'[q].pc \in {"lock", "load"} /\ proc'[q].op = "saveMeta"
        PROVE  Placed(proc[q].file)'
    <3>1. proc'[q].file = proc[q].file /\ Placed(proc[q].file)
      BY <1>a, <2>1, <2>2, <2>5 DEF DirInv, Writing
    <3> QED
      BY <1>b, <3>1 DEF Placed
  <2> QED
    BY <1>a, <1>b, <2>1, <2>2, <2>3, <2>4, <2>5 DEF DirInv, Writing
<1>5. WriteInv'
  <2>1. \A q \in Procs \ {p} : proc'[q] = proc[q]
    BY <1>b DEF Finished
  <2>2. \A q \in Procs \ {p} : WriteOf(q)'
    BY <1>a, <1>b, <2>1, OthersPrepared
  <2>3. WriteOf(p)'
    BY <1>b DEF WriteOf, Finished
  <2> QED
    BY <2>2, <2>3 DEF WriteInv
<1>6. DiskInv'
  BY <1>a, <1>b, <1>f DEF DiskInv
<1>7. Continues
  BY <1>b, FinishedContinues
<1>8. KeptInv'
  <2> SUFFICES ASSUME NEW k \in kept'
               PROVE  /\ Placed(k[1])'
                      /\ \A v \in disk'[k[1]] : v # Missing /\ k[2] \in v
                      /\ ~BeingDeleted(k[1], k[2])'
    BY DEF KeptInv
  <2>1. CASE k \in kept
    <3>1. /\ Placed(k[1]) /\ k[1] \in Files
          /\ \A v \in disk[k[1]] : v # Missing /\ k[2] \in v
          /\ ~BeingDeleted(k[1], k[2])
      BY <1>a, <2>1 DEF KeptInv, TypeOK
    <3>2. ~BeingDeleted(k[1], k[2])'
      BY <1>7, <3>1 DEF Continues, BeingDeleted
    <3> QED
      BY <1>b, <1>f, <3>1, <3>2, DirsSteady
  <2>2. CASE k \notin kept
    <3>1. /\ k[1] = proc[p].file /\ k[2] = proc[p].item
          /\ proc[p].op = "add" /\ ~BeingDeleted(k[1], k[2])
      BY <1>d, <2>2
    <3>2. entry[k[1]] = proc[p].data /\ k[2] \in entry[k[1]]
      BY <1>a, <1>b, <3>1 DEF WriteInv, WriteOf
    <3>3. entry[k[1]] # Missing
      BY <1>e, <3>2, ContentAssumption
    <3>4. ~BeingDeleted(k[1], k[2])'
      BY <1>7, <3>1 DEF Continues, BeingDeleted
    <3> QED
      BY <1>b, <1>e, <1>f, <3>1, <3>2, <3>3, <3>4, DirsSteady
  <2> QED
    BY <2>1, <2>2
<1> QED
  BY <1>1, <1>2, <1>3, <1>4, <1>5, <1>6, <1>8 DEF IInv

(* Before the start no method runs.  A data directory without a marker is  *)
(* empty, or a crash lost the marker.                                      *)
LEMMA StartingKeeps ==
    ASSUME IInv, node = "down", UNCHANGED <<entry, disk, lock, mkdirMu, proc, kept, ops, crashes>>,
           \A d \in Dirs : dir'[d] = dir[d] \/ (d = "data" /\ dir'[d] \in {"unsynced", "durable"}),
           dir' \in [Dirs -> {"absent", "created", "unsynced", "durable"}],
           tmp' \in [Files -> TmpFile], node' \in {"down", "up", "refused"},
           marker' \in {"absent", "renamed", "durable", "lost"}, MarkerInv'
    PROVE  IInv'
<1>a. TypeOK /\ NodeInv /\ LockInv /\ DirInv /\ MarkerInv /\ WriteInv /\ DiskInv /\ KeptInv
  BY DEF IInv
<1>c. \A p \in Procs : proc[p] = NoMethod /\ proc[p].pc = "idle"
  BY <1>a DEF NodeInv, NoMethod
<1>4. TypeOK'
  BY <1>a DEF TypeOK
<1>5. NodeInv'
  BY <1>c DEF NodeInv
<1>6. LockInv' /\ DiskInv'
  BY <1>a DEF LockInv, DiskInv
<1>7. Steady
  BY DEF Steady
<1>8. DirInv'
  <2>1. \A d \in Dirs : dir'[d] # "created"
    BY <1>a, <1>c DEF DirInv
  <2>2. \A f \in Files : ~Placed(f)' => entry'[f] = Missing /\ disk'[f] = {Missing}
    BY <1>a, <1>7, PlacedStays DEF DirInv
  <2> QED
    BY <1>c, <2>1, <2>2 DEF DirInv, Writing
<1>9. WriteInv'
  BY <1>c DEF WriteInv, WriteOf
<1>10. Continues
  BY <1>c DEF Continues
<1>11. KeptInv'
  BY <1>a, <1>7, <1>10, PlacedStays, KeptSame DEF TypeOK
<1> QED
  BY <1>4, <1>5, <1>6, <1>8, <1>9, <1>11 DEF IInv

LEMMA StartKeeps ==
    ASSUME IInv, Start \/ StartFails
    PROVE  IInv'
<1>a. TypeOK /\ MarkerInv
  BY DEF IInv
<1>b. UNCHANGED <<entry, disk, lock, mkdirMu, proc, kept, ops, crashes>> /\ node = "down"
  BY DEF Start, StartFails
<1>1. /\ \A d \in Dirs : dir'[d] = dir[d] \/ (d = "data" /\ dir'[d] \in {"unsynced", "durable"})
      /\ dir' \in [Dirs -> {"absent", "created", "unsynced", "durable"}]
  BY <1>a DEF Start, StartFails, TypeOK
<1>2. dir'["vhost"] = dir["vhost"]
  BY <1>1 DEF Dirs
<1>3. /\ node' \in {"down", "up", "refused"} /\ marker' \in {"absent", "renamed", "durable", "lost"}
      /\ tmp' \in [Files -> TmpFile]
  BY <1>a, <1>b DEF Start, StartFails, CheckLayout, TypeOK, TmpFile
<1>4. CASE Start
  <2>1. /\ node' = IF NoLayout /\ HasEntries THEN "refused" ELSE "up"
        /\ marker' = IF NoLayout /\ node' = "up" THEN "durable" ELSE marker
    BY <1>4 DEF Start, CheckLayout
  <2>2. MarkerInv'
    BY <1>a, <1>2, <2>1 DEF MarkerInv, HasEntries, NoLayout, TypeOK
  <2> QED
    BY <1>b, <1>1, <1>3, <2>2, StartingKeeps
<1>5. CASE StartFails
  <2>1. node' = "down" /\ (marker' = marker \/ marker' = "renamed")
    BY <1>5 DEF StartFails
  <2>2. MarkerInv'
    BY <1>a, <1>2, <2>1 DEF MarkerInv, HasEntries
  <2> QED
    BY <1>b, <1>1, <1>3, <2>2, StartingKeeps
<1> QED
  BY <1>4, <1>5

(* The crash leaves what the disk may hold; a directory that is lost had   *)
(* nothing in it, unless it was unsynced.                                  *)
LEMMA CrashStep ==
    ASSUME IInv, Crash
    PROVE  /\ \A f \in Files : entry'[f] \in disk[f] \/ (AtRisk(f) /\ entry'[f] = Missing)
           /\ \A f \in Files : entry'[f] # Missing => entry'[f] \in disk[f] /\ Placed(f)'
           /\ \A f \in Files : Placed(f) /\ ~AtRisk(f) => Placed(f)'
           /\ \A f \in Files : disk'[f] = {entry'[f]}
           /\ entry' \in [Files -> Content] /\ disk' \in [Files -> (SUBSET Content) \ {{}}]
           /\ proc' = [p \in Procs |-> NoMethod]
           /\ dir' \in [Dirs -> {"absent", "durable"}]
           /\ marker' \in {"absent", "renamed", "durable", "lost"}
           /\ dir'["vhost"] # "absent" => marker' # "absent"
<1>a. TypeOK /\ DirInv /\ MarkerInv
  BY DEF IInv
<1>1. PICK gone \in SUBSET {d \in Dirs : dir[d] \in {"created", "unsynced"}} :
        LET stays(d) == dir[d] # "absent" /\ Above(d) \intersect gone = {}
        IN /\ dir' = [d \in Dirs |-> IF stays(d) THEN "durable" ELSE "absent"]
           /\ marker' \in CASE "data" \in gone -> {"absent"}
                           [] "data" \notin gone /\ marker = "renamed" -> {"durable", "lost"}
                           [] OTHER -> {marker}
           /\ entry' \in [Files -> UNION {disk[f] : f \in Files} \union {Missing}]
           /\ \A f \in Files : entry'[f] \in IF stays(DirOf(f)) THEN disk[f] ELSE {Missing}
  BY DEF Crash
<1> DEFINE stays(d) == dir[d] # "absent" /\ Above(d) \intersect gone = {}
<1>2. /\ \A d \in Dirs : dir'[d] = IF stays(d) THEN "durable" ELSE "absent"
      /\ dir' \in [Dirs -> {"absent", "durable"}]
  BY <1>1
<1>3. \A f \in Files : entry'[f] \in IF stays(DirOf(f)) THEN disk[f] ELSE {Missing}
  BY <1>1
<1>4. /\ node = "up" /\ disk' = [f \in Files |-> {entry'[f]}]
      /\ proc' = [p \in Procs |-> NoMethod]
  BY DEF Crash
<1>5. ASSUME NEW f \in Files, ~Placed(f)
      PROVE  entry'[f] = Missing /\ entry'[f] \in disk[f]
  <2>1. disk[f] = {Missing}
    BY <1>a, <1>5 DEF DirInv
  <2> QED
    BY <1>3, <2>1
<1>6. ASSUME NEW f \in Files, Placed(f), gone \intersect Chain(f) = {}
      PROVE  entry'[f] \in disk[f] /\ Placed(f)'
  <2>1. \A d \in Chain(f) : Above(d) \subseteq Chain(f) /\ d \in Dirs
    BY DEF Chain, Above, DirOf, Outer, Dirs
  <2>2. \A d \in Chain(f) : stays(d)
    BY <1>6, <2>1 DEF Placed
  <2>3. Placed(f)'
    BY <1>2, <2>1, <2>2 DEF Placed
  <2> QED
    BY <1>3, <2>2, <2>3, ChainInDirs
<1>7. ASSUME NEW f \in Files, Placed(f), gone \intersect Chain(f) # {}
      PROVE  AtRisk(f) /\ entry'[f] = Missing
  <2>1. PICK d \in Chain(f) : d \in gone
    BY <1>7
  <2>2. dir[d] = "unsynced"
    BY <1>7, <2>1 DEF Placed
  <2>3. AtRisk(f)
    BY <2>1, <2>2 DEF AtRisk
  <2>4. ~stays(DirOf(f))
    BY <2>1 DEF Chain
  <2> QED
    BY <1>3, <2>3, <2>4
<1>8. marker' \in {"absent", "renamed", "durable", "lost"} /\ (dir'["vhost"] # "absent" => marker' # "absent")
  <2>1. marker \in {"renamed", "durable"}
    BY <1>a, <1>4 DEF MarkerInv
  <2>2. CASE "data" \in gone
    <3>1. ~stays("vhost") /\ marker' = "absent"
      BY <1>1, <2>2 DEF Above, Outer
    <3> QED
      BY <1>2, <3>1 DEF Dirs
  <2>3. CASE "data" \notin gone
    BY <1>1, <2>1, <2>3
  <2> QED
    BY <2>2, <2>3
<1>9. \A f \in Files : entry'[f] \in disk[f] \/ (AtRisk(f) /\ entry'[f] = Missing)
  BY <1>5, <1>6, <1>7
<1>10. \A f \in Files : entry'[f] # Missing => entry'[f] \in disk[f] /\ Placed(f)'
  BY <1>5, <1>6, <1>7
<1>11. \A f \in Files : Placed(f) /\ ~AtRisk(f) => Placed(f)'
  BY <1>6, <1>7
<1>12. entry' \in [Files -> Content]
  <2>1. \A f \in Files : entry'[f] \in Content
    BY <1>a, <1>9 DEF TypeOK, Content
  <2>2. entry' \in [Files -> UNION {disk[f] : f \in Files} \union {Missing}]
    BY <1>1
  <2> QED
    BY <2>1, <2>2
<1>13. disk' \in [Files -> (SUBSET Content) \ {{}}]
  BY <1>4, <1>12
<1> QED
  BY <1>2, <1>4, <1>8, <1>9, <1>10, <1>11, <1>12, <1>13

LEMMA CrashKeeps ==
    ASSUME IInv, Crash
    PROVE  IInv'
<1>a. TypeOK /\ NodeInv /\ LockInv /\ DirInv /\ MarkerInv /\ WriteInv /\ DiskInv /\ KeptInv
  BY DEF IInv
<1>b. /\ crashes < MaxCrashes /\ crashes' = crashes + 1 /\ node' = "down"
      /\ kept' = {k \in kept : AtRisk(k[1]) => entry'[k[1]] # Missing}
      /\ lock' = [s \in Stripes |-> NoProc] /\ mkdirMu' = NoProc
      /\ UNCHANGED <<tmp, ops>>
  BY DEF Crash
<1>c. /\ entry' \in [Files -> Content] /\ disk' \in [Files -> (SUBSET Content) \ {{}}]
      /\ proc' = [p \in Procs |-> NoMethod]
      /\ dir' \in [Dirs -> {"absent", "durable"}]
      /\ marker' \in {"absent", "renamed", "durable", "lost"}
      /\ dir'["vhost"] # "absent" => marker' # "absent"
      /\ \A f \in Files : disk'[f] = {entry'[f]}
  BY CrashStep
<1>d. \A p \in Procs : proc'[p] = NoMethod /\ proc'[p].pc = "idle"
  BY <1>c DEF NoMethod
<1>1. TypeOK'
  <2>1. proc' \in [Procs -> Method]
    BY <1>c DEF Method
  <2>2. crashes' \in 0..MaxCrashes
    BY <1>a, <1>b, JsonStoreAssumption DEF TypeOK
  <2>3. /\ dir' \in [Dirs -> {"absent", "created", "unsynced", "durable"}]
        /\ lock' \in [Stripes -> Procs \union {NoProc}]
    BY <1>b, <1>c
  <2>4. kept' \subseteq Files \X Items
    BY <1>a, <1>b DEF TypeOK
  <2> QED
    BY <1>a, <1>b, <1>c, <2>1, <2>2, <2>3, <2>4 DEF TypeOK
<1>2. NodeInv' /\ LockInv' /\ WriteInv'
  BY <1>d DEF NodeInv, LockInv, WriteInv, WriteOf, Holding, Writing
<1>3. MarkerInv'
  BY <1>b, <1>c DEF MarkerInv, HasEntries
<1>4. DirInv'
  <2>1. \A d \in Dirs : dir'[d] # "created"
    BY <1>c
  <2>2. \A f \in Files : ~Placed(f)' => entry'[f] = Missing /\ disk'[f] = {Missing}
    BY CrashStep
  <2> QED
    BY <1>d, <2>1, <2>2 DEF DirInv, Writing
<1>5. DiskInv'
  <2> SUFFICES ASSUME NEW f \in Files
               PROVE  disk'[f] \subseteq Whole \union {Missing} /\ entry'[f] \in disk'[f]
    BY DEF DiskInv
  <2>1. disk'[f] = {entry'[f]} /\ (entry'[f] \in disk[f] \/ entry'[f] = Missing)
    BY CrashStep
  <2>2. disk[f] \subseteq Whole \union {Missing}
    BY <1>a DEF DiskInv
  <2> QED
    BY <2>1, <2>2
<1>6. KeptInv'
  <2> SUFFICES ASSUME NEW k \in kept'
               PROVE  /\ Placed(k[1])'
                      /\ \A v \in disk'[k[1]] : v # Missing /\ k[2] \in v
                      /\ ~BeingDeleted(k[1], k[2])'
    BY DEF KeptInv
  <2>1. k \in kept /\ k[1] \in Files /\ (AtRisk(k[1]) => entry'[k[1]] # Missing)
    BY <1>a, <1>b DEF TypeOK
  <2>2. Placed(k[1]) /\ \A v \in disk[k[1]] : v # Missing /\ k[2] \in v
    BY <1>a, <2>1 DEF KeptInv
  <2>3. entry'[k[1]] \in disk[k[1]] /\ disk'[k[1]] = {entry'[k[1]]} /\ Placed(k[1])'
    BY <2>1, <2>2, CrashStep
  <2>4. ~BeingDeleted(k[1], k[2])'
    BY <1>d DEF BeingDeleted
  <2> QED
    BY <2>2, <2>3, <2>4
<1> QED
  BY <1>1, <1>2, <1>3, <1>4, <1>5, <1>6 DEF IInv

-----------------------------------------------------------------------------
LEMMA InitHolds == Init => IInv
<1> SUFFICES ASSUME Init PROVE IInv
  OBVIOUS
<1>1. \A p \in Procs : proc[p] = NoMethod /\ proc[p].pc = "idle"
  BY DEF Init, NoMethod
<1>2. TypeOK
  <2>1. Missing \in Content /\ NoTmp \in TmpFile /\ NoMethod \in Method
    BY DEF Content, TmpFile, Method
  <2>2. {Missing} \in (SUBSET Content) \ {{}}
    BY <2>1
  <2>3. ops \in 0..MaxOps /\ crashes \in 0..MaxCrashes
    BY JsonStoreAssumption DEF Init
  <2> QED
    BY <2>1, <2>2, <2>3 DEF Init, TypeOK
<1>3. NodeInv /\ LockInv /\ WriteInv
  BY <1>1 DEF NodeInv, LockInv, WriteInv, WriteOf, Holding, Writing
<1>4. DirInv
  <2>1. \A d \in Dirs : dir[d] # "created"
    BY DEF Init
  <2> QED
    BY <1>1, <2>1 DEF Init, DirInv, Writing
<1>5. MarkerInv /\ DiskInv /\ KeptInv
  BY DEF Init, MarkerInv, HasEntries, DiskInv, KeptInv, Dirs
<1> QED
  BY <1>2, <1>3, <1>4, <1>5 DEF IInv

LEMMA StepKeeps == IInv /\ [Next]_vars => IInv'
<1> SUFFICES ASSUME IInv, [Next]_vars PROVE IInv'
  OBVIOUS
<1>1. CASE UNCHANGED vars
  BY <1>1 DEF vars, IInv, TypeOK, NodeInv, LockInv, DirInv, MarkerInv, HasEntries, WriteInv, WriteOf,
              Prepared, DiskInv, KeptInv, BeingDeleted, Placed
<1>2. CASE Start \/ StartFails \/ Crash
  BY <1>2, StartKeeps, CrashKeeps
<1>3. ASSUME NEW p \in Procs,
             \/ Call(p) \/ MkdirAllDurable(p) \/ SyncParent(p) \/ LockFile(p) \/ Load(p)
             \/ RemoveFile(p) \/ WriteTmp(p) \/ SyncTmp(p) \/ RenameTmp(p) \/ SyncDir(p)
             \/ IOError(p) \/ MkdirError(p)
      PROVE  IInv'
  BY <1>3, CallKeeps, MkdirKeeps, SyncParentKeeps, LockFileKeeps, LoadKeeps, RemoveKeeps,
     WriteTmpKeeps, SyncTmpKeeps, RenameKeeps, SyncDirKeeps, IOErrorKeeps, MkdirErrorKeeps
<1> QED
  BY <1>1, <1>2, <1>3 DEF Next

LEMMA InvariantHolds == Spec => []IInv
  BY InitHolds, StepKeeps, PTL DEF Spec

(* What is saved stays: SaveMessage and SaveBinding that returned survive  *)
(* any number of crashes at any step of atomicWriteFile, of this and of    *)
(* the other methods on the file, until somebody asks for the deletion,    *)
(* unless mkdirAllDurable failed to sync a directory the file is in.       *)
THEOREM SavedSurvivesCrashes == Spec => []KeptSurvives
<1>1. IInv => KeptSurvives
  <2> SUFFICES ASSUME IInv PROVE KeptSurvives
    OBVIOUS
  <2>1. \A f \in Files : Torn \notin disk[f]
    BY ContentAssumption, JsonStoreAssumption DEF IInv, DiskInv
  <2>2. \A f : Placed(f) => Durable(f) \/ AtRisk(f)
    BY DEF Placed, Durable, AtRisk
  <2> QED
    BY <2>1, <2>2 DEF IInv, KeptInv, KeptSurvives
<1> QED
  BY <1>1, InvariantHolds, PTL

(* checkLayout never refuses a data directory that this broker wrote,      *)
(* wherever a crash stopped the first start or the first write, unless the *)
(* sync of the marker itself failed and a crash lost it.                   *)
THEOREM OwnDataAccepted == Spec => []NeverRefused
<1>1. IInv => NeverRefused
  BY DEF IInv, MarkerInv, NeverRefused
<1> QED
  BY <1>1, InvariantHolds, PTL

-----------------------------------------------------------------------------
(* The store implements the persistence interface.                         *)
Calls == [p \in Procs |-> AbstractCall(p)]
Maybes == [f \in Files |-> AbstractMaybe(f)]
Risky == {f \in Files : AtRisk(f)}

(* What a crash may leave, when the directories stay as they are. *)
LEMMA RiskSame ==
    ASSUME UNCHANGED dir
    PROVE  /\ Risky' = Risky
           /\ \A f \in Files : AtRisk(f)' <=> AtRisk(f)
           /\ UNCHANGED disk => Maybes' = Maybes
<1>1. \A f : AtRisk(f)' <=> AtRisk(f)
  BY DEF AtRisk
<1> QED
  BY <1>1 DEF Risky, Maybes, AbstractMaybe

LEMMA MaybeOf ==
    ASSUME NEW f \in Files
    PROVE  Maybes[f] = disk[f] \union IF f \in Risky THEN {Missing} ELSE {}
  BY DEF Maybes, Risky, AbstractMaybe

(* What a step of one method looks like through the interface. *)
LEMMA AbstractOthers ==
    ASSUME NEW p \in Procs, \A q \in Procs \ {p} : proc'[q] = proc[q]
    PROVE  Calls' = [Calls EXCEPT ![p] = AbstractCall(p)']
<1>1. \A q \in Procs \ {p} : AbstractCall(q)' = AbstractCall(q)
  BY DEF AbstractCall
<1> QED
  BY <1>1 DEF Calls

LEMMA AbstractIdle ==
    ASSUME NEW p \in Procs, Finished(p)
    PROVE  Calls' = [Calls EXCEPT ![p] = [state |-> "idle"]]
<1>1. AbstractCall(p)' = [state |-> "idle"]
  BY DEF Finished, AbstractCall
<1>2. \A q \in Procs \ {p} : proc'[q] = proc[q]
  BY DEF Finished
<1> QED
  BY <1>1, <1>2, AbstractOthers

LEMMA AbstractSame ==
    ASSUME NEW p \in Procs, \A q \in Procs \ {p} : proc'[q] = proc[q],
           proc[p] # NoMethod, proc'[p] # NoMethod,
           proc[p].pc = "syncDir" <=> proc'[p].pc = "syncDir",
           proc'[p].op = proc[p].op, proc'[p].file = proc[p].file, proc'[p].item = proc[p].item
    PROVE  Calls' = Calls
<1>1. AbstractCall(p)' = AbstractCall(p)
  BY DEF AbstractCall
<1>2. \A q \in Procs \ {p} : AbstractCall(q)' = AbstractCall(q)
  BY DEF AbstractCall
<1> QED
  BY <1>1, <1>2 DEF Calls

(* The fields of a call. *)
LEMMA AbstractFields ==
    ASSUME NEW p \in Procs
    PROVE  /\ Calls[p] = AbstractCall(p)
           /\ proc[p] = NoMethod => Calls[p].state = "idle"
           /\ proc[p] # NoMethod =>
                /\ Calls[p].state = IF proc[p].pc = "syncDir" THEN "applied" ELSE "called"
                /\ Calls[p].op = proc[p].op /\ Calls[p].file = proc[p].file /\ Calls[p].item = proc[p].item
<1>1. Calls[p] = AbstractCall(p)
  BY DEF Calls
<1>2. CASE proc[p] = NoMethod
  BY <1>1, <1>2 DEF AbstractCall
<1>3. CASE proc[p] # NoMethod
  <2>1. CASE proc[p].pc = "syncDir"
    <3>1. AbstractCall(p) = [state |-> "applied", op |-> proc[p].op, file |-> proc[p].file, item |-> proc[p].item]
      BY <1>3, <2>1 DEF AbstractCall
    <3> QED
      BY <1>1, <1>3, <2>1, <3>1
  <2>2. CASE proc[p].pc # "syncDir"
    <3>1. AbstractCall(p) = [state |-> "called", op |-> proc[p].op, file |-> proc[p].file, item |-> proc[p].item]
      BY <1>3, <2>2 DEF AbstractCall
    <3> QED
      BY <1>1, <1>3, <2>2, <3>1
  <2> QED
    BY <2>1, <2>2
<1> QED
  BY <1>1, <1>2, <1>3

(* The call of a method. *)
LEMMA CallIsCalled ==
    ASSUME IInv, NEW p \in Procs, Call(p)
    PROVE  Interface!Called(p)
<1>1. /\ proc[p] = NoMethod /\ UNCHANGED <<entry, disk, dir>>
      /\ proc' \in [Procs -> Method] /\ \A q \in Procs \ {p} : proc'[q] = proc[q]
      /\ proc'[p].op \in Methods /\ proc'[p].file \in Files /\ proc'[p].item \in Items
      /\ proc'[p].pc = IF proc'[p].op = "saveMeta" THEN "mkdir" ELSE "lock"
  BY CallStep DEF IInv
<1>2. proc'[p] # NoMethod /\ proc'[p].pc # "syncDir"
  BY <1>1 DEF NoMethod
<1>3. AbstractCall(p)' = [state |-> "called", op |-> proc'[p].op, file |-> proc'[p].file, item |-> proc'[p].item]
  BY <1>2 DEF AbstractCall
<1>4. Calls' = [Calls EXCEPT ![p] = [state |-> "called", op |-> proc'[p].op, file |-> proc'[p].file,
                                      item |-> proc'[p].item]]
  BY <1>1, <1>3, AbstractOthers
<1>5. Calls[p].state = "idle"
  BY <1>1, AbstractFields
<1>6. \E op \in {"saveMeta", "add", "del"} \union {"remove", "load"}, f \in Files, i \in Items :
        Calls' = [Calls EXCEPT ![p] = [state |-> "called", op |-> op, file |-> f, item |-> i]]
  BY <1>1, <1>4 DEF Methods, Writes
<1> QED
  BY <1>1, <1>5, <1>6, RiskSame DEF Interface!Called, Interface!Ops, Calls, Maybes, Risky

(* A method that returns before its rename, or after an error. *)
LEMMA FinishedIsGivenUp ==
    ASSUME NEW p \in Procs, Finished(p), proc[p] # NoMethod, UNCHANGED <<entry, disk, dir>>
    PROVE  Interface!GivenUp(p)
<1>1. Calls' = [Calls EXCEPT ![p] = [state |-> "idle"]]
  BY AbstractIdle
<1>2. Calls[p].state # "idle"
  BY AbstractFields
<1> QED
  BY <1>1, <1>2, RiskSame DEF Interface!GivenUp, Interface!Idle, Calls, Maybes, Risky

(* One more content a crash may leave. *)
LEMMA MaybeAdded ==
    ASSUME TypeOK, UNCHANGED dir, NEW f \in Files, NEW x, disk' = [disk EXCEPT ![f] = disk[f] \union {x}]
    PROVE  Maybes' = [Maybes EXCEPT ![f] = @ \union {x}] /\ Risky' = Risky
<1>1. DOMAIN disk = Files
  BY DEF TypeOK
<1>2. \A g \in Files : disk'[g] = IF g = f THEN disk[g] \union {x} ELSE disk[g]
  BY <1>1
<1>3. \A g \in Files : AtRisk(g)' <=> AtRisk(g)
  BY RiskSame
<1>4. \A g \in Files : AbstractMaybe(g)' = IF g = f THEN AbstractMaybe(g) \union {x} ELSE AbstractMaybe(g)
  BY <1>2, <1>3 DEF AbstractMaybe
<1>5. Maybes' = [g \in Files |-> AbstractMaybe(g)']
  BY DEF Maybes
<1>6. Maybes' = [g \in Files |-> IF g = f THEN Maybes[g] \union {x} ELSE Maybes[g]]
  BY <1>4, <1>5 DEF Maybes
<1> QED
  BY <1>6, RiskSame DEF Maybes

(* The rename is where a write takes effect, on the value of that moment. *)
LEMMA RenameIsApplied ==
    ASSUME IInv, NEW p \in Procs, RenameTmp(p)
    PROVE  Interface!Applied(p)
<1> DEFINE m == proc[p]
           x == proc[p].data
<1>1. /\ m.pc = "rename" /\ Moved(p, "syncDir") /\ Prepared(p)
      /\ entry' = [entry EXCEPT ![m.file] = x]
      /\ disk' = [disk EXCEPT ![m.file] = disk[m.file] \union {x}] /\ UNCHANGED dir
  BY RenameStep
<1>2. /\ m # NoMethod /\ m.file \in Files /\ m.op \in Writes
  BY <1>1, WritingMethodFacts DEF Holding, Writing
<1>3. /\ Calls[p] = [state |-> "called", op |-> m.op, file |-> m.file, item |-> m.item]
  BY <1>1, <1>2 DEF Calls, AbstractCall
<1>4. proc'[p] # NoMethod
  BY <1>1 DEF Moved, NoMethod
<1>5. AbstractCall(p)' = [state |-> "applied", op |-> m.op, file |-> m.file, item |-> m.item]
  <2>1. proc'[p].pc = "syncDir" /\ proc'[p].op = m.op /\ proc'[p].file = m.file /\ proc'[p].item = m.item
    BY <1>1 DEF Moved
  <2>2. AbstractCall(p)' = [state |-> "applied", op |-> proc'[p].op, file |-> proc'[p].file, item |-> proc'[p].item]
    BY <1>4, <2>1 DEF AbstractCall
  <2> QED
    BY <2>1, <2>2
<1>6. [Calls[p] EXCEPT !.state = "applied"] = AbstractCall(p)'
  BY <1>3, <1>5
<1>7. Calls' = [Calls EXCEPT ![p] = [Calls[p] EXCEPT !.state = "applied"]]
  <2>1. \A q \in Procs \ {p} : proc'[q] = proc[q]
    BY <1>1 DEF Moved
  <2> QED
    BY <1>6, <2>1, AbstractOthers
<1>8. x = Interface!Effect(m.op, m.file, m.item, entry[m.file])
  <2>1. x = Updated(m.op, m.file, m.item, entry[m.file])
    BY <1>1 DEF Prepared
  <2>2. CASE m.op = "saveMeta"
    BY <2>1, <2>2 DEF Updated, Interface!Effect
  <2>3. CASE m.op = "add"
    BY <2>1, <2>3 DEF Updated, Interface!Effect
  <2>4. CASE m.op = "del"
    BY <2>1, <2>4 DEF Updated, Interface!Effect
  <2> QED
    BY <1>2, <2>2, <2>3, <2>4 DEF Writes
<1>9. Interface!Defined(m.op, entry[m.file])
  BY <1>1 DEF Prepared, Interface!Defined
<1>10. Calls[p].state = "called" /\ Calls[p].op = m.op /\ Calls[p].file = m.file /\ Calls[p].item = m.item
  BY <1>3
<1>11. m.op \in Interface!Ops /\ m.op # "remove"
  BY <1>2 DEF Interface!Ops, Writes
<1>12. Calls' = [Calls EXCEPT ![p] = IF Calls[p].op = "remove" THEN Interface!Idle
                                     ELSE [Calls[p] EXCEPT !.state = "applied"]]
  BY <1>7, <1>10, <1>11
<1>13. Maybes' = [Maybes EXCEPT ![m.file] = @ \union {x}] /\ Risky' = Risky
  BY <1>1, <1>2, MaybeAdded DEF IInv
<1> HIDE DEF m, x
<1> QED
  BY <1>1, <1>8, <1>9, <1>10, <1>11, <1>12, <1>13 DEF Interface!Applied, Calls, Maybes, Risky

(* The removal takes effect and returns. *)
LEMMA RemoveIsApplied ==
    ASSUME IInv, NEW p \in Procs, RemoveFile(p)
    PROVE  Interface!Applied(p) \/ Interface!GivenUp(p)
<1> DEFINE m == proc[p]
<1>1. /\ m.pc = "load" /\ m.op = "remove" /\ Finished(p) /\ UNCHANGED dir
      /\ \/ entry[m.file] = Missing /\ UNCHANGED <<entry, disk>>
         \/ /\ entry[m.file] # Missing
            /\ entry' = [entry EXCEPT ![m.file] = Missing]
            /\ disk' = [disk EXCEPT ![m.file] = disk[m.file] \union {Missing}]
  BY RemoveStep
<1>2. m # NoMethod
  BY <1>1 DEF NoMethod
<1>3. Calls[p].state = "called" /\ Calls[p].op = "remove" /\ Calls[p].file = m.file /\ Calls[p].item = m.item
  BY <1>1, <1>2, AbstractFields
<1>4. CASE UNCHANGED <<entry, disk>>
  BY <1>1, <1>2, <1>4, FinishedIsGivenUp
<1>5. CASE /\ entry[m.file] # Missing
           /\ entry' = [entry EXCEPT ![m.file] = Missing]
           /\ disk' = [disk EXCEPT ![m.file] = disk[m.file] \union {Missing}]
  <2>1. Interface!Effect("remove", m.file, m.item, entry[m.file]) = Missing
    BY DEF Interface!Effect
  <2>2. Interface!Defined("remove", entry[m.file])
    BY <1>5 DEF Interface!Defined
  <2>3. Calls' = [Calls EXCEPT ![p] = IF Calls[p].op = "remove" THEN Interface!Idle
                                      ELSE [Calls[p] EXCEPT !.state = "applied"]]
    BY <1>1, <1>3, AbstractIdle DEF Interface!Idle
  <2>4. m.file \in Files
    BY <1>1, WritingMethodFacts DEF Holding
  <2>5. Maybes' = [Maybes EXCEPT ![m.file] = @ \union {Missing}] /\ Risky' = Risky
    BY <1>1, <1>5, <2>4, MaybeAdded DEF IInv
  <2> HIDE DEF m
  <2> QED
    BY <1>3, <1>5, <2>1, <2>2, <2>3, <2>5 DEF Interface!Applied, Calls, Maybes, Risky
<1> QED
  BY <1>1, <1>4, <1>5

(* The sync of the directory makes the entities in it durable. *)
LEMMA SyncDirIsReturned ==
    ASSUME IInv, NEW p \in Procs, SyncDir(p)
    PROVE  Interface!Returned(p)
<1> DEFINE S == {g \in Files : DirOf(g) = DirOf(proc[p].file)}
<1>1. /\ proc[p].pc = "syncDir" /\ Finished(p) /\ UNCHANGED <<entry, dir>>
      /\ disk' = [g \in Files |-> IF DirOf(g) = DirOf(proc[p].file) THEN {entry[g]} ELSE disk[g]]
  BY SyncDirStep
<1>2. proc[p] # NoMethod /\ proc[p].file \in Files
  BY <1>1, WritingMethodFacts DEF Holding, Writing
<1>3. Calls[p].state = "applied" /\ Calls[p].file = proc[p].file
  BY <1>1, <1>2, AbstractFields
<1>4. S \in SUBSET Files /\ Calls[p].file \in S
  BY <1>2, <1>3
<1>5. disk' = [g \in Files |-> IF g \in S THEN {entry[g]} ELSE disk[g]]
  BY <1>1
<1>6. Calls' = [Calls EXCEPT ![p] = [state |-> "idle"]]
  BY <1>1, AbstractIdle
<1>7. \A g \in Files : AtRisk(g)' <=> AtRisk(g)
  BY <1>1, RiskSame
<1> HIDE DEF S
<1>8. Maybes' = [g \in Files |-> IF g \in S THEN {entry[g]} \union IF g \in Risky THEN {Missing} ELSE {}
                                ELSE Maybes[g]]
  <2>1. Maybes' = [g \in Files |-> AbstractMaybe(g)']
    BY DEF Maybes
  <2>2. \A g \in Files : disk'[g] = IF g \in S THEN {entry[g]} ELSE disk[g]
    BY <1>5
  <2>3. \A g \in Files : AbstractMaybe(g)' = IF g \in S THEN {entry[g]} \union IF g \in Risky THEN {Missing} ELSE {}
                                             ELSE Maybes[g]
    BY <1>7, <2>2 DEF AbstractMaybe, Maybes, Risky
  <2> QED
    BY <2>1, <2>3
<1>9. Risky' = Risky
  BY <1>1, RiskSame
<1> QED
  BY <1>1, <1>3, <1>4, <1>6, <1>8, <1>9 DEF Interface!Returned, Interface!Idle, Calls, Maybes, Risky

LEMMA CrashIsCrashed ==
    ASSUME IInv, Crash
    PROVE  Interface!Crashed
<1>1. \A f \in Files : entry'[f] \in Maybes[f]
  <2> TAKE f \in Files
  <2>1. entry'[f] \in disk[f] \/ (AtRisk(f) /\ entry'[f] = Missing)
    BY CrashStep
  <2> QED
    BY <2>1, MaybeOf DEF Risky
<1>2. entry' \in [Files -> UNION {Maybes[f] : f \in Files}]
  <2>1. entry' \in [Files -> Content]
    BY CrashStep
  <2>2. \A f \in Files : entry'[f] \in UNION {Maybes[g] : g \in Files}
    BY <1>1
  <2> QED
    BY <2>1, <2>2
<1>3. Risky' = {}
  <2>1. \A f : ~AtRisk(f)'
    <3> SUFFICES ASSUME NEW f, NEW d \in Chain(f), dir'[d] = "unsynced" PROVE FALSE
      BY DEF AtRisk
    <3> QED
      BY CrashStep, ChainInDirs
  <2> QED
    BY <2>1 DEF Risky
<1>4. Maybes' = [f \in Files |-> {entry'[f]}]
  <2>1. \A f \in Files : AbstractMaybe(f)' = {entry'[f]}
    <3> TAKE f \in Files
    <3>1. disk'[f] = {entry'[f]}
      BY CrashStep
    <3>2. ~AtRisk(f)'
      BY <1>3 DEF Risky
    <3> QED
      BY <3>1, <3>2 DEF AbstractMaybe
  <2> QED
    BY <2>1 DEF Maybes
<1>5. Calls' = [p \in Procs |-> [state |-> "idle"]]
  <2>1. proc' = [p \in Procs |-> NoMethod]
    BY CrashStep
  <2>2. \A p \in Procs : AbstractCall(p)' = [state |-> "idle"]
    BY <2>1 DEF AbstractCall
  <2> QED
    BY <2>2 DEF Calls
<1> HIDE DEF Maybes
<1> QED
  BY <1>1, <1>2, <1>3, <1>4, <1>5 DEF Interface!Crashed, Interface!Idle, Calls, Maybes, Risky

(* The syncs of mkdirAllDurable can only make an entity certain. *)
LEMMA DirsAssured ==
    ASSUME IInv, UNCHANGED <<entry, disk>>, Calls' = Calls,
           \A d \in Dirs : dir'[d] = "unsynced" => dir[d] = "unsynced"
    PROVE  Interface!Assured
<1>1. \A f : AtRisk(f)' => AtRisk(f)
  BY ChainInDirs DEF AtRisk
<1>2. Risky' \subseteq Risky
  BY <1>1 DEF Risky
<1> DEFINE S == {f \in Risky : f \notin Risky' /\ Missing \notin disk[f]}
<1>3. S \in SUBSET {f \in Risky : entry[f] # Missing}
  BY DEF IInv, DiskInv, Risky
<1>4. \A f \in Files : AbstractMaybe(f)' = IF f \in S THEN Maybes[f] \ {Missing} ELSE Maybes[f]
  <2> TAKE f \in Files
  <2>1. Maybes[f] = disk[f] \union IF f \in Risky THEN {Missing} ELSE {}
    BY MaybeOf
  <2>2. AbstractMaybe(f)' = disk[f] \union IF f \in Risky' THEN {Missing} ELSE {}
    BY DEF AbstractMaybe, Risky
  <2> QED
    BY <1>2, <2>1, <2>2
<1> HIDE DEF S
<1>5. Maybes' = [f \in Files |-> IF f \in S THEN Maybes[f] \ {Missing} ELSE Maybes[f]]
  BY <1>4 DEF Maybes
<1> QED
  BY <1>2, <1>3, <1>5 DEF Interface!Assured, Calls, Maybes, Risky

(* The failed sync of a new directory leaves entities uncertain that do    *)
(* not exist.                                                              *)
LEMMA DirsUncertain ==
    ASSUME IInv, UNCHANGED <<entry, disk>>,
           \A d \in Dirs : \/ dir'[d] = "unsynced" /\ dir[d] \in {"created", "absent"}
                           \/ dir'[d] = dir[d]
                           \/ dir'[d] = "durable" /\ dir[d] # "unsynced"
    PROVE  /\ Maybes' = Maybes
           /\ \E S \in SUBSET {f \in Files : Maybes[f] = {Missing}} : Risky' = Risky \union S
<1>a. DirInv
  BY DEF IInv
<1>1. \A f : AtRisk(f) => AtRisk(f)'
  BY ChainInDirs DEF AtRisk
<1>2. ASSUME NEW f \in Files, AtRisk(f)', ~AtRisk(f)
      PROVE  disk[f] = {Missing} /\ Maybes[f] = {Missing} /\ AbstractMaybe(f)' = {Missing}
  <2>1. PICK d \in Chain(f) : dir'[d] = "unsynced"
    BY <1>2 DEF AtRisk
  <2>2. dir[d] # "unsynced" /\ d \in Dirs
    BY <1>2, <2>1, ChainInDirs DEF AtRisk
  <2>3. ~Placed(f)
    BY <2>1, <2>2 DEF Placed
  <2>4. disk[f] = {Missing}
    BY <1>a, <2>3 DEF DirInv
  <2> QED
    BY <1>2, <2>4, MaybeOf DEF AbstractMaybe, Risky
<1>3. \A f \in Files : AbstractMaybe(f)' = Maybes[f]
  <2> TAKE f \in Files
  <2>1. CASE AtRisk(f)' /\ ~AtRisk(f)
    BY <1>2, <2>1
  <2>2. CASE AtRisk(f)' <=> AtRisk(f)
    BY <2>2, MaybeOf DEF AbstractMaybe, Risky
  <2> QED
    BY <1>1, <2>1, <2>2
<1>4. Maybes' = Maybes
  BY <1>3 DEF Maybes
<1> DEFINE S == Risky' \ Risky
<1>5. S \in SUBSET {f \in Files : Maybes[f] = {Missing}}
  BY <1>2 DEF Risky
<1>6. Risky' = Risky \union S
  BY <1>1 DEF Risky
<1> QED
  BY <1>4, <1>5, <1>6

LEMMA MkdirErrorIsFailed ==
    ASSUME IInv, NEW p \in Procs, MkdirError(p)
    PROVE  Interface!CreationFailed(p)
<1>1. /\ Finished(p) /\ proc[p].pc \in {"mkdir", "syncParent"} /\ proc[p].op = "saveMeta"
      /\ UNCHANGED <<entry, disk>>
      /\ \A d \in Dirs : IF dir[d] = "created" /\ proc[p].pc = "syncParent"
                         THEN dir'[d] = "unsynced" ELSE dir'[d] = dir[d]
  BY MkdirErrorKeeps
<1>2. proc[p] # NoMethod
  BY <1>1 DEF NoMethod
<1>3. Calls[p].state = "called" /\ Calls[p].op = "saveMeta"
  BY <1>1, <1>2, AbstractFields
<1>4. Calls' = [Calls EXCEPT ![p] = [state |-> "idle"]]
  BY <1>1, AbstractIdle
<1>5. /\ Maybes' = Maybes
      /\ \E S \in SUBSET {f \in Files : Maybes[f] = {Missing}} : Risky' = Risky \union S
  BY <1>1, DirsUncertain
<1> QED
  BY <1>1, <1>3, <1>4, <1>5 DEF Interface!CreationFailed, Interface!Idle, Calls, Maybes, Risky

(* A start is not visible; a failed one may leave everything uncertain. *)
LEMMA StartRefines ==
    ASSUME IInv, Start \/ StartFails
    PROVE  Interface!OpeningFailed
<1>1. /\ node = "down" /\ UNCHANGED <<entry, disk, proc>>
      /\ \A d \in Dirs : \/ dir'[d] = "unsynced" /\ dir[d] \in {"created", "absent"}
                         \/ dir'[d] = dir[d]
                         \/ dir'[d] = "durable" /\ dir[d] # "unsynced"
  BY DEF Start, StartFails, IInv, TypeOK
<1>2. /\ Maybes' = Maybes
      /\ \E S \in SUBSET {f \in Files : Maybes[f] = {Missing}} : Risky' = Risky \union S
  BY <1>1, DirsUncertain
<1>3. \A p \in Procs : Calls[p] = [state |-> "idle"]
  BY <1>1 DEF IInv, NodeInv, Calls, AbstractCall
<1>4. Calls' = Calls
  BY <1>1 DEF Calls, AbstractCall
<1> QED
  BY <1>1, <1>2, <1>3, <1>4 DEF Interface!OpeningFailed, Interface!Idle, Calls, Maybes, Risky

(* The other steps are not visible through the interface. *)
LEMMA MovedIsHidden ==
    ASSUME TypeOK, NEW p \in Procs, NEW pc, Moved(p, pc), proc[p].pc # "idle", pc # "idle",
           proc[p].pc # "syncDir", pc # "syncDir"
    PROVE  Calls' = Calls
<1>1. proc[p] # NoMethod /\ proc'[p] # NoMethod
  BY DEF Moved, NoMethod
<1> QED
  BY <1>1, AbstractSame DEF Moved

LEMMA MkdirRefines ==
    ASSUME IInv, NEW p \in Procs, MkdirAllDurable(p) \/ SyncParent(p)
    PROVE  Interface!Assured
<1>a. TypeOK
  BY DEF IInv
<1>1. /\ UNCHANGED <<entry, disk>>
      /\ \A d \in Dirs : dir'[d] = "unsynced" => dir[d] = "unsynced"
      /\ proc[p].pc \in {"mkdir", "syncParent"}
      /\ (Moved(p, "syncParent") \/ Moved(p, "mkdir") \/ Moved(p, "lock"))
  BY MkdirKeeps, SyncParentKeeps
<1>2. Calls' = Calls
  BY <1>a, <1>1, MovedIsHidden
<1> QED
  BY <1>1, <1>2, DirsAssured

LEMMA InnerStepHidden ==
    ASSUME IInv, NEW p \in Procs, LockFile(p) \/ WriteTmp(p) \/ SyncTmp(p)
    PROVE  UNCHANGED <<entry, disk, dir, Calls>>
<1>a. TypeOK
  BY DEF IInv
<1>3. CASE LockFile(p)
  <2>1. proc[p].pc = "lock" /\ UNCHANGED <<entry, disk, dir>> /\ Goto(p, "load")
    BY <1>3 DEF LockFile
  <2>2. Moved(p, "load")
    BY <1>a, <2>1, GotoStep DEF Early
  <2> QED
    BY <1>a, <2>1, <2>2, MovedIsHidden
<1>4. CASE WriteTmp(p)
  <2>1. proc[p].pc = "write" /\ UNCHANGED <<entry, disk, dir>> /\ Goto(p, "sync")
    BY <1>4 DEF WriteTmp
  <2>2. Moved(p, "sync")
    BY <1>a, <2>1, GotoStep DEF Writing
  <2> QED
    BY <1>a, <2>1, <2>2, MovedIsHidden
<1>5. CASE SyncTmp(p)
  <2>1. proc[p].pc = "sync" /\ UNCHANGED <<entry, disk, dir>> /\ Goto(p, "rename")
    BY <1>5 DEF SyncTmp
  <2>2. Moved(p, "rename")
    BY <1>a, <2>1, GotoStep DEF Writing
  <2> QED
    BY <1>a, <2>1, <2>2, MovedIsHidden
<1> QED
  BY <1>3, <1>4, <1>5

LEMMA LoadRefines ==
    ASSUME IInv, NEW p \in Procs, Load(p)
    PROVE  Interface!GivenUp(p) \/ UNCHANGED <<entry, disk, dir, Calls>>
<1>1. TypeOK /\ DiskInv
  BY DEF IInv
<1>2. proc[p].pc = "load" /\ UNCHANGED <<entry, disk, dir>> /\ proc[p] # NoMethod
  BY <1>1, LoadStep DEF NoMethod
<1>3. CASE Finished(p)
  BY <1>2, <1>3, FinishedIsGivenUp
<1>4. CASE ~Finished(p)
  <2>1. /\ \A q \in Procs \ {p} : proc'[q] = proc[q]
        /\ proc'[p].pc = "write" /\ proc'[p].op = proc[p].op
        /\ proc'[p].file = proc[p].file /\ proc'[p].item = proc[p].item
    BY <1>1, <1>4, LoadStep
  <2>2. proc'[p] # NoMethod
    BY <2>1 DEF NoMethod
  <2> QED
    BY <1>2, <2>1, <2>2, AbstractSame
<1> QED
  BY <1>3, <1>4

(* The methods of the persistence interface are atomic with respect to the *)
(* others and to a crash, and a write that returned is durable, except of  *)
(* an entity a failed creation left uncertain: every step of the JSON      *)
(* store is one of the interface, or none.                                 *)
THEOREM StoreImplementsInterface == Spec => ImplementsInterface
<1>1. Init => Interface!SpecInit
  <2> SUFFICES ASSUME Init PROVE Interface!SpecInit
    OBVIOUS
  <2>1. Calls = [p \in Procs |-> [state |-> "idle"]]
    BY DEF Init, Calls, AbstractCall
  <2>2. \A f : ~AtRisk(f)
    BY ChainInDirs DEF Init, AtRisk
  <2>3. Risky = {} /\ Maybes = [f \in Files |-> {Missing}]
    BY <2>2 DEF Init, Risky, Maybes, AbstractMaybe
  <2> QED
    BY <2>1, <2>3 DEF Init, Interface!SpecInit, Interface!Idle, Calls, Maybes, Risky
<1>2. IInv /\ [Next]_vars => [Interface!SpecNext]_(Interface!specVars)
  <2> SUFFICES ASSUME IInv, [Next]_vars
               PROVE  Interface!SpecNext \/ UNCHANGED <<entry, Maybes, Risky, Calls>>
    BY DEF Interface!specVars, Calls, Maybes, Risky
  <2>1. CASE UNCHANGED <<entry, disk, dir, Calls>>
    BY <2>1, RiskSame
  <2>2. CASE UNCHANGED vars
    <3>1. UNCHANGED <<entry, disk, dir, Calls>>
      BY <2>2 DEF vars, Calls, AbstractCall
    <3> QED
      BY <2>1, <3>1
  <2>3. CASE Start \/ StartFails \/ Crash
    BY <2>3, StartRefines, CrashIsCrashed DEF Interface!SpecNext
  <2>4. ASSUME NEW p \in Procs,
               \/ Call(p) \/ MkdirAllDurable(p) \/ SyncParent(p) \/ LockFile(p) \/ Load(p)
               \/ RemoveFile(p) \/ WriteTmp(p) \/ SyncTmp(p) \/ RenameTmp(p) \/ SyncDir(p)
               \/ IOError(p) \/ MkdirError(p)
        PROVE  Interface!SpecNext \/ UNCHANGED <<entry, Maybes, Risky, Calls>>
    <3>1. CASE IOError(p)
      <4>1. proc[p].pc \in Writing /\ Finished(p) /\ UNCHANGED <<entry, disk, dir>>
        BY <3>1, IOErrorKeeps DEF IOError
      <4>2. proc[p] # NoMethod
        BY <4>1 DEF NoMethod, Writing
      <4> QED
        BY <4>1, <4>2, FinishedIsGivenUp DEF Interface!SpecNext
    <3>2. CASE ~IOError(p)
      <4>1. \/ Interface!Called(p) \/ Interface!Applied(p) \/ Interface!Returned(p) \/ Interface!GivenUp(p)
            \/ Interface!CreationFailed(p) \/ Interface!Assured
            \/ UNCHANGED <<entry, disk, dir, Calls>>
        BY <2>4, <3>2, CallIsCalled, InnerStepHidden, LoadRefines, RemoveIsApplied, RenameIsApplied,
           SyncDirIsReturned, MkdirRefines, MkdirErrorIsFailed
      <4> QED
        BY <2>1, <4>1 DEF Interface!SpecNext
    <3> QED
      BY <3>1, <3>2
  <2> QED
    BY <2>2, <2>3, <2>4 DEF Next
<1> QED
  BY <1>1, <1>2, InvariantHolds, PTL DEF Spec, ImplementsInterface, Interface!StoreSpecification
=============================================================================
