------------------------------ MODULE JsonStore ------------------------------
(***************************************************************************)
(* The JSON store: one file per queue or exchange, replaced by writing a   *)
(* temporary file, syncing it, renaming it over the file and syncing the   *)
(* directory.  Each method holds the file's lock.  Any of these steps, and *)
(* the sync of a new directory's parent, may fail.  A crash may come at    *)
(* any step; it loses what was not synced.                                 *)
(***************************************************************************)
EXTENDS Naturals, FiniteSets

CONSTANTS
    Procs, Files, Exchanges, Items, Missing,
    Torn,        \* the content of a file whose data was not synced
    Stripes,     \* the locks the files are spread over
    StripeOf,    \* the lock of each file
    NoProc,      \* the owner of a free lock
    MaxOps,      \* bound: methods called
    MaxCrashes   \* bound: crashes

ASSUME JsonStoreAssumption ==
    /\ Exchanges \subseteq Files
    /\ StripeOf \in [Files -> Stripes]
    /\ NoProc \notin Procs
    /\ Torn # Missing
    /\ MaxOps \in Nat /\ MaxCrashes \in Nat

VARIABLES
    entry,     \* what a reader of the path finds
    disk,      \* what a crash may leave there
    tmp,       \* the temporary file: absent, written or synced
    lock,      \* who holds each stripe
    mkdirMu,   \* who holds the lock of mkdirAllDurable
    dir,       \* each directory: absent, created, unsynced (its sync failed) or durable
    marker,    \* persistence.json: absent, renamed, durable, or lost in a crash
    node,      \* "down", "up", or "refused": the data directory is not read
    proc,      \* the method each goroutine is in
    kept,      \* history: <<file, item>> saved by a method that returned, not deleted
               \* since, nor lost with a directory whose sync had failed
    ops, crashes

vars == <<entry, disk, tmp, lock, mkdirMu, dir, marker, node, proc, kept, ops, crashes>>

(* The data directory, vhosts, the vhost's own and the two in it.  Above:  *)
(* the directory and the ones it is in.                                    *)
Dirs == {"data", "vhosts", "vhost", "queues", "exchanges"}
Outer == {"data", "vhosts", "vhost"}
DirOf(f) == IF f \in Exchanges THEN "exchanges" ELSE "queues"
Above(d) == CASE d = "data" -> {"data"}
              [] d = "vhosts" -> {"data", "vhosts"}
              [] OTHER -> Outer \union {d}
Chain(f) == Above(DirOf(f))
Parent(d) == CASE d = "data" -> "root" [] d = "vhosts" -> "data" [] d = "vhost" -> "vhosts"
               [] OTHER -> "vhost"
Whole == {S : S \in SUBSET Items}
ASSUME ContentAssumption == Missing \notin Whole /\ Torn \notin Whole
Content == Whole \union {Missing, Torn}
NoTmp == [state |-> "none"]
TmpFile == {NoTmp} \union [state : {"written", "synced"}, data : Content]

Writes == {"saveMeta", "add", "del"}
Methods == Writes \union {"remove", "load"}
NoMethod == [pc |-> "idle"]
(* A method that writes has what it writes. *)
Method ==
    {NoMethod}
    \union [pc : {"mkdir", "syncParent", "lock", "load"}, op : Methods, file : Files,
            item : Items, data : {Missing}]
    \union [pc : {"write", "sync", "rename", "syncDir"}, op : Writes, file : Files,
            item : Items, data : Whole]

TypeOK ==
    /\ entry \in [Files -> Content]
    /\ disk \in [Files -> (SUBSET Content) \ {{}}]
    /\ tmp \in [Files -> TmpFile]
    /\ lock \in [Stripes -> Procs \union {NoProc}]
    /\ mkdirMu \in Procs \union {NoProc}
    /\ dir \in [Dirs -> {"absent", "created", "unsynced", "durable"}]
    /\ marker \in {"absent", "renamed", "durable", "lost"}
    /\ node \in {"down", "up", "refused"}
    /\ proc \in [Procs -> Method]
    /\ kept \subseteq Files \X Items
    /\ ops \in 0..MaxOps /\ crashes \in 0..MaxCrashes

Init ==
    /\ entry = [f \in Files |-> Missing]
    /\ disk = [f \in Files |-> {Missing}]
    /\ tmp = [f \in Files |-> NoTmp]
    /\ lock = [s \in Stripes |-> NoProc]
    /\ mkdirMu = NoProc
    /\ dir = [d \in Dirs |-> "absent"]
    /\ marker = "absent"
    /\ node = "down"
    /\ proc = [p \in Procs |-> NoMethod]
    /\ kept = {}
    /\ ops = 0 /\ crashes = 0
-----------------------------------------------------------------------------
(* Starting *)

(* There is no marker, and vhosts is not empty. *)
NoLayout == marker \in {"absent", "lost"}
HasEntries == dir["vhost"] # "absent"

\* Mutant: the marker of a new data directory is not written.
NoMarker ==
    /\ node' = IF NoLayout /\ HasEntries THEN "refused" ELSE "up"
    /\ marker' = marker

(* checkLayout: a data directory with entries and no marker is refused, a  *)
(* new one gets its marker before anything else is written.                *)
CheckLayout ==
    /\ node' = IF NoLayout /\ HasEntries THEN "refused" ELSE "up"
    /\ marker' = IF NoLayout /\ node' = "up" THEN "durable" ELSE marker

(* NewJsonPersistence: Initialize makes the data directory, checks the     *)
(* layout and discards the temporary files a crash left.                   *)
Start ==
    /\ node = "down"
    /\ dir' = [dir EXCEPT !["data"] = IF @ = "absent" THEN "durable" ELSE @]
    /\ CheckLayout
    /\ tmp' = IF node' = "up" THEN [f \in Files |-> NoTmp] ELSE tmp
    /\ UNCHANGED <<entry, disk, lock, mkdirMu, proc, kept, ops, crashes>>

(* Initialize returns an error and the broker does not start: the sync of  *)
(* the new data directory failed, or the one after the marker's rename.    *)
(* The next start finds the directory, or the marker, and goes on.         *)
StartFails ==
    /\ node = "down"
    /\ \/ /\ dir["data"] = "absent"
          /\ dir' = [dir EXCEPT !["data"] = "unsynced"]
          /\ UNCHANGED marker
       \/ /\ NoLayout /\ ~HasEntries
          /\ dir' = [dir EXCEPT !["data"] = IF @ = "absent" THEN "durable" ELSE @]
          /\ marker' = "renamed"
    /\ UNCHANGED <<entry, disk, tmp, lock, mkdirMu, node, proc, kept, ops, crashes>>

(* A crash may lose a directory nobody synced, with all that is in it.     *)
AtRisk(f) == \E d \in Chain(f) : dir[d] = "unsynced"
Durable(f) == \A d \in Chain(f) : dir[d] = "durable"
Crash ==
    /\ node = "up"
    /\ crashes < MaxCrashes
    /\ crashes' = crashes + 1
    /\ node' = "down"
    /\ \E gone \in SUBSET {d \in Dirs : dir[d] \in {"created", "unsynced"}} :
        LET stays(d) == dir[d] # "absent" /\ Above(d) \intersect gone = {}
        IN /\ dir' = [d \in Dirs |-> IF stays(d) THEN "durable" ELSE "absent"]
           /\ marker' \in CASE "data" \in gone -> {"absent"}
                           [] "data" \notin gone /\ marker = "renamed" -> {"durable", "lost"}
                           [] OTHER -> {marker}
           /\ entry' \in [Files -> UNION {disk[f] : f \in Files} \union {Missing}]
           /\ \A f \in Files : entry'[f] \in IF stays(DirOf(f)) THEN disk[f] ELSE {Missing}
    /\ disk' = [f \in Files |-> {entry'[f]}]
    /\ kept' = {k \in kept : AtRisk(k[1]) => entry'[k[1]] # Missing}
    /\ lock' = [s \in Stripes |-> NoProc]
    /\ mkdirMu' = NoProc
    /\ proc' = [p \in Procs |-> NoMethod]
    /\ UNCHANGED <<tmp, ops>>
-----------------------------------------------------------------------------
(* The methods *)

(* The lock guards the whole load, modification and save.  SaveMetadata    *)
(* makes sure of the directory first, without the lock.                    *)
Call(p) ==
    /\ node = "up"
    /\ proc[p] = NoMethod
    /\ ops < MaxOps
    /\ ops' = ops + 1
    /\ \E op \in Methods, f \in Files, i \in Items :
        /\ op \in {"saveMeta", "remove", "load"} => i = CHOOSE j \in Items : TRUE
        /\ proc' = [proc EXCEPT ![p] =
             [pc |-> IF op = "saveMeta" THEN "mkdir" ELSE "lock",
              op |-> op, file |-> f, item |-> i, data |-> Missing]]
        /\ kept' = CASE op = "del" -> kept \ {<<f, i>>}
                     [] op = "remove" \/ (op = "saveMeta" /\ f \in Exchanges) ->
                            {k \in kept : k[1] # f}
                     [] OTHER -> kept
    /\ UNCHANGED <<entry, disk, tmp, lock, mkdirMu, dir, marker, node, crashes>>

Goto(p, pc) == proc' = [proc EXCEPT ![p].pc = pc]

\* Mutant: mkdirMu is not taken.
NoMkdirLock(p) == TRUE

(* mkdirAllDurable: the check, the creation and the syncs are one step for *)
(* the others, because mkdirMu is held.  ensureVHostDir makes vhosts and   *)
(* the vhost's directory first; then the method makes its own.  The other  *)
(* methods also call it, under the file's lock, and find the directory of  *)
(* the file they loaded.  vhost.json, which only keeps a long name, is     *)
(* left out.                                                               *)
MkdirGuard(p) == mkdirMu = NoProc
Wanted(p) == IF dir["vhost"] = "absent" THEN "vhost" ELSE DirOf(proc[p].file)
MkdirAllDurable(p) ==
    LET missing == {d \in Above(Wanted(p)) : dir[d] = "absent"}
    IN /\ proc[p].pc = "mkdir"
       /\ MkdirGuard(p)
       /\ IF missing # {}
          THEN /\ dir' = [d \in Dirs |-> IF d \in missing THEN "created" ELSE dir[d]]
               /\ mkdirMu' = p
               /\ Goto(p, "syncParent")
          ELSE /\ Goto(p, "lock")
               /\ UNCHANGED <<dir, mkdirMu>>
       /\ UNCHANGED <<entry, disk, tmp, lock, marker, node, kept, ops, crashes>>

(* The parents of the new directories, the innermost first.  The sync      *)
(* makes all that is in the parent durable.                                *)
Made == {d \in Dirs : dir[d] = "created"}
Innermost(d) == d \in Made /\ \A e \in Made : e \in Above(d)
SyncParent(p) ==
    /\ proc[p].pc = "syncParent"
    /\ \E d \in Dirs :
        /\ Innermost(d)
        /\ dir' = [e \in Dirs |-> IF Parent(e) = Parent(d) /\ dir[e] # "absent"
                                  THEN "durable" ELSE dir[e]]
        /\ marker' = IF d = "vhosts" THEN "durable" ELSE marker
    /\ IF \A d \in Dirs : dir'[d] # "created"
       THEN /\ mkdirMu' = IF mkdirMu = p THEN NoProc ELSE mkdirMu
            /\ Goto(p, "mkdir")
       ELSE UNCHANGED <<mkdirMu, proc>>
    /\ UNCHANGED <<entry, disk, tmp, lock, node, kept, ops, crashes>>

\* Mutant: the file is not locked.
NoFileLock(s, p) == TRUE

(* lockFile *)
Free(s, p) == lock[s] = NoProc
LockFile(p) ==
    LET s == StripeOf[proc[p].file]
    IN /\ proc[p].pc = "lock"
       /\ Free(s, p)
       /\ lock' = [lock EXCEPT ![s] = p]
       /\ Goto(p, "load")
       /\ UNCHANGED <<entry, disk, tmp, mkdirMu, dir, marker, node, kept, ops, crashes>>

(* The deferred unlock, when the method returns. *)
Return(p) ==
    /\ proc' = [proc EXCEPT ![p] = NoMethod]
    /\ lock' = [s \in Stripes |-> IF lock[s] = p THEN NoProc ELSE lock[s]]

(* What the method writes back, of what it loaded. *)
Updated(op, f, i, v) ==
    CASE op = "saveMeta" -> IF v = Missing \/ f \in Exchanges THEN {} ELSE v
      [] op = "add" -> v \union {i}
      [] op = "del" -> v \ {i}

(* A method that finds no file, or a torn one, returns the error; so does  *)
(* SaveQueueMetadata on a torn file.  SaveExchangeMetadata loads nothing.  *)
(* Deleting what is not there writes nothing.                              *)
Load(p) ==
    LET m == proc[p]
        v == entry[m.file]
        fails == IF m.op = "saveMeta" THEN v = Torn /\ m.file \notin Exchanges
                 ELSE v \in {Missing, Torn}
        nothing == m.op = "del" /\ ~fails /\ m.item \notin v /\ m.file \notin Exchanges
    IN /\ m.pc = "load"
       /\ m.op \in Writes \union {"load"}
       /\ IF m.op = "load" \/ fails \/ nothing
          THEN Return(p)
          ELSE /\ proc' = [proc EXCEPT ![p].pc = "write", ![p].data = Updated(m.op, m.file, m.item, v)]
               /\ UNCHANGED lock
       /\ UNCHANGED <<entry, disk, tmp, mkdirMu, dir, marker, node, kept, ops, crashes>>

(* DeleteQueueMetadata and DeleteExchangeMetadata: os.Remove, and no sync  *)
(* of the directory.                                                       *)
RemoveFile(p) ==
    LET f == proc[p].file
    IN /\ proc[p].pc = "load"
       /\ proc[p].op = "remove"
       /\ IF entry[f] = Missing THEN UNCHANGED <<entry, disk>>
          ELSE /\ entry' = [entry EXCEPT ![f] = Missing]
               /\ disk' = [disk EXCEPT ![f] = @ \union {Missing}]
       /\ Return(p)
       /\ UNCHANGED <<tmp, mkdirMu, dir, marker, node, kept, ops, crashes>>

(* atomicWriteFile, in the order of its steps. *)
WriteTmp(p) ==
    LET f == proc[p].file
    IN /\ proc[p].pc = "write"
       /\ tmp' = [tmp EXCEPT ![f] = [state |-> "written", data |-> proc[p].data]]
       /\ Goto(p, "sync")
       /\ UNCHANGED <<entry, disk, lock, mkdirMu, dir, marker, node, kept, ops, crashes>>

SyncTmp(p) ==
    LET f == proc[p].file
    IN /\ proc[p].pc = "sync"
       /\ tmp' = [tmp EXCEPT ![f].state = "synced"]
       /\ Goto(p, "rename")
       /\ UNCHANGED <<entry, disk, lock, mkdirMu, dir, marker, node, kept, ops, crashes>>

RenameTmp(p) ==
    LET f == proc[p].file
    IN /\ proc[p].pc = "rename"
       /\ tmp[f] # NoTmp
       /\ entry' = [entry EXCEPT ![f] = tmp[f].data]
       /\ disk' = [disk EXCEPT ![f] = @ \union {tmp[f].data} \union
                       IF tmp[f].state = "synced" THEN {} ELSE {Torn}]
       /\ tmp' = [tmp EXCEPT ![f] = NoTmp]
       /\ Goto(p, "syncDir")
       /\ UNCHANGED <<lock, mkdirMu, dir, marker, node, kept, ops, crashes>>

(* A method called to delete the item has not returned yet. *)
BeingDeleted(f, i) ==
    \E q \in Procs :
        /\ proc[q] # NoMethod
        /\ proc[q].file = f
        /\ \/ proc[q].op = "del" /\ proc[q].item = i
           \/ proc[q].op = "remove"
           \/ proc[q].op = "saveMeta" /\ f \in Exchanges

(* syncDir makes every rename and removal in the directory durable, those  *)
(* of other methods too.  The method returns.                              *)
SyncDir(p) ==
    LET m == proc[p]
        same(g) == DirOf(g) = DirOf(m.file)
    IN /\ m.pc = "syncDir"
       /\ disk' = [g \in Files |-> IF same(g) THEN {entry[g]} \union (disk[g] \intersect {Torn})
                                   ELSE disk[g]]
       /\ kept' = IF m.op = "add" /\ ~BeingDeleted(m.file, m.item)
                   THEN kept \union {<<m.file, m.item>>} ELSE kept
       /\ Return(p)
       /\ UNCHANGED <<entry, tmp, mkdirMu, dir, marker, node, ops, crashes>>

(* A write, a sync or a rename that fails removes the temporary file; a    *)
(* sync of the directory that fails leaves the new content in place.       *)
IOError(p) ==
    /\ proc[p].pc \in {"write", "sync", "rename", "syncDir"}
    /\ tmp' = [tmp EXCEPT ![proc[p].file] = NoTmp]
    /\ Return(p)
    /\ UNCHANGED <<entry, disk, mkdirMu, dir, marker, node, kept, ops, crashes>>

(* mkdirAllDurable fails: some of the directories are there, but not       *)
(* synced.  The next os.Stat finds them, and nobody syncs their parents.   *)
MkdirError(p) ==
    /\ proc[p].pc \in {"mkdir", "syncParent"}
    /\ dir' = IF proc[p].pc = "mkdir" THEN dir
              ELSE [d \in Dirs |-> IF d \in Made THEN "unsynced" ELSE dir[d]]
    /\ mkdirMu' = IF mkdirMu = p THEN NoProc ELSE mkdirMu
    /\ Return(p)
    /\ UNCHANGED <<entry, disk, tmp, marker, node, kept, ops, crashes>>

Next ==
    \/ Start \/ StartFails
    \/ Crash
    \/ \E p \in Procs :
        \/ Call(p) \/ MkdirAllDurable(p) \/ SyncParent(p) \/ LockFile(p) \/ Load(p)
        \/ RemoveFile(p) \/ WriteTmp(p) \/ SyncTmp(p) \/ RenameTmp(p) \/ SyncDir(p)
        \/ IOError(p) \/ MkdirError(p)

Spec == Init /\ [][Next]_vars
-----------------------------------------------------------------------------
(* What is saved stays: an item whose save returned, and whose deletion    *)
(* nobody asked for, is in the file whatever a crash leaves of it, and no  *)
(* file is left torn.  A concurrent method on the same file cannot lose it.*)
(* The exception: mkdirAllDurable returned an error after it created the   *)
(* file's directory, or one above it, and nothing has synced it since.     *)
KeptSurvives ==
    /\ \A f \in Files : Torn \notin disk[f]
    /\ \A k \in kept :
        /\ Durable(k[1]) \/ AtRisk(k[1])
        /\ \A v \in disk[k[1]] : v # Missing /\ k[2] \in v

(* The broker can start on the data directory it wrote itself: the layout  *)
(* marker is durable before anything the layout check counts as an older   *)
(* version's data, unless a crash lost a marker whose own sync had failed. *)
NeverRefused == node = "refused" => marker = "lost"

(* The store does what the persistence interface asks: a method takes      *)
(* effect at its rename or its removal, and returns when it is durable. An *)
(* entity is uncertain while a directory above it is unsynced.             *)
AbstractCall(p) ==
    IF proc[p] = NoMethod THEN [state |-> "idle"]
    ELSE [state |-> IF proc[p].pc = "syncDir" THEN "applied" ELSE "called",
          op |-> proc[p].op, file |-> proc[p].file, item |-> proc[p].item]
AbstractMaybe(f) == disk[f] \union IF AtRisk(f) THEN {Missing} ELSE {}
Interface == INSTANCE StoreSpec WITH
    value <- entry, maybe <- [f \in Files |-> AbstractMaybe(f)],
    uncertain <- {f \in Files : AtRisk(f)},
    call <- [p \in Procs |-> AbstractCall(p)]
ImplementsInterface == Interface!StoreSpecification
=============================================================================
