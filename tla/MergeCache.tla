----------------------------- MODULE MergeCache -----------------------------
(***************************************************************************)
(* The BPE merge cache of tokenizer/disk_merge_index.cpp (POSIX build):    *)
(* from_gguf, create_cache, unique_temp_path, durable_close,               *)
(* atomic_replace and open_validated, run by the threads of several        *)
(* processes that load the same tokenizer over one cache directory.        *)
(*                                                                         *)
(* The cache is one content-addressed file, so all loaders want the same   *)
(* bytes under the same name.  A loader that finds no valid file writes a  *)
(* temporary one, syncs it and renames it into place; whatever goes wrong  *)
(* it removes the temporary and accepts a file another loader completed.   *)
(*                                                                         *)
(* Directory entries name inodes; a loader that has opened an inode keeps  *)
(* it when the entry changes.                                              *)
(***************************************************************************)
EXTENDS Integers, Sequences

CONSTANTS
  Proc,        \* processes
  Loader,      \* threads that call from_gguf
  ProcessOf,   \* loader -> its process
  Pid,         \* process ids
  MaxLoads,    \* bound: loads per loader
  MaxStops     \* bound: crashes and power failures, where pids are not shared

ASSUME ProcessAssumption == ProcessOf \in [Loader -> Proc]

Target   == "target"
Temps    == Pid \X Nat
NoTemp   == <<0, 0>>
Original == 1          \* the inode the target names to begin with, if it exists

VARIABLES
  shared,   \* processes of separate pid namespaces share the directory
  content,  \* inode -> "partial", "written" (not yet synced), "durable", "damaged"
  target,   \* the inode the cache file name leads to, 0 if there is none
  temps,    \* the directory's temporary names -> inodes
  older,    \* targets a power failure may bring back
  stuck,    \* history: the inodes whose temporary name could not be removed
  pid,      \* of each process
  serial,   \* unique_temp_path's static counter, per process
  pc,       \* where each loader is
  temp,     \* the temporary name it chose
  file,     \* the inode it writes
  fd,       \* the inode it opened to validate or to read rules from
  fault,    \* history: it met an I/O error or a temporary nobody works on
  loads,    \* loads begun
  stops     \* crashes and power failures so far

disk == <<content, target, temps, older, stuck>>
vars == <<shared, disk, pid, serial, pc, temp, file, fd, fault, loads, stops>>

Complete(i) == i # 0 /\ content[i] \in {"written", "durable"}

Goto(l, s) == pc' = [pc EXCEPT ![l] = s]

Entry(n) == n \in DOMAIN temps

Enter(n, i) == temps' = [m \in DOMAIN temps \cup {n} |-> IF m = n THEN i ELSE temps[m]]

Remove(n) == temps' = [m \in DOMAIN temps \ {n} |-> temps[m]]

Creating == {"write", "sync", "replace", "cleanup"}

DistinctPids(ids) == \A p, q \in Proc : ids[p] = ids[q] => p = q

Init ==
  /\ shared \in BOOLEAN
  /\ \/ target = 0 /\ content = <<"damaged">>
     \/ target = Original /\ content \in {<<"damaged">>, <<"durable">>}
  /\ temps  = <<>>
  /\ older  = {}
  /\ stuck  = {}
  /\ pid    \in [Proc -> Pid] /\ (shared \/ DistinctPids(pid))
  /\ serial = [p \in Proc |-> 0]
  /\ pc     = [l \in Loader |-> "idle"]
  /\ temp   = [l \in Loader |-> NoTemp]
  /\ file   = [l \in Loader |-> 0]
  /\ fd     = [l \in Loader |-> 0]
  /\ fault  = [l \in Loader |-> FALSE]
  /\ loads  = [l \in Loader |-> 0]
  /\ stops  = 0

-----------------------------------------------------------------------------
(* from_gguf: a load begins, and a previous index of the loader is closed. *)
BeginLoad(l) ==
  /\ pc[l] \in {"idle", "loaded", "failed"} /\ loads[l] < MaxLoads
  /\ loads' = [loads EXCEPT ![l] = @ + 1]
  /\ temp'  = [temp EXCEPT ![l] = NoTemp]
  /\ file'  = [file EXCEPT ![l] = 0]
  /\ fd'    = [fd EXCEPT ![l] = 0]
  /\ \/ Goto(l, "lookup") /\ fault' = [fault EXCEPT ![l] = FALSE]
     \/ Goto(l, "failed") /\ fault' = [fault EXCEPT ![l] = TRUE]  \* no directory
  /\ UNCHANGED <<disk, pid, serial, stops>>

(* open_validated opens the target under its name ...                      *)
Open(l) ==
  /\ pc[l] \in {"lookup", "winner", "final"} /\ fd[l] = 0
  /\ fd' = [fd EXCEPT ![l] = target]
  /\ IF target # 0
     THEN UNCHANGED pc
     ELSE Goto(l, IF pc[l] = "lookup" THEN "create" ELSE "failed")
  /\ UNCHANGED <<disk, pid, serial, temp, file, fault, loads, stops>>

\* Slip: a file is accepted because its name exists.
AcceptedUnseen(l) == fd[l] # 0

Accepted(l) == Complete(fd[l])

(* ... and accepts what it opened only if every check of it passes.        *)
Validate(l) ==
  /\ pc[l] \in {"lookup", "winner", "final"} /\ fd[l] # 0
  /\ \/ /\ Accepted(l)
        /\ Goto(l, "loaded")
        /\ UNCHANGED <<fd, fault>>
     \/ /\ \/ ~Accepted(l) /\ UNCHANGED fault
           \/ fault' = [fault EXCEPT ![l] = TRUE]    \* a read fails
        /\ fd' = [fd EXCEPT ![l] = 0]
        /\ Goto(l, IF pc[l] = "lookup" THEN "create" ELSE "failed")
  /\ UNCHANGED <<disk, pid, serial, temp, file, loads, stops>>

\* Slip: the temporary name has no serial number.
TempNameOfPid(l) == <<pid[ProcessOf[l]], 0>>

TempName(l) == <<pid[ProcessOf[l]], serial[ProcessOf[l]]>>

OwnedByCreator(n) == \E m \in Loader : pc[m] \in Creating /\ temp[m] = n

(* Building the records fails before there is a temporary name.            *)
BuildFails(l) ==
  /\ pc[l] = "create"
  /\ fault' = [fault EXCEPT ![l] = TRUE]
  /\ Goto(l, "winner")
  /\ UNCHANGED <<disk, pid, serial, temp, file, fd, loads, stops>>

(* Create the temporary exclusively (fopen with "x").                      *)
CreateTemp(l) ==
  /\ pc[l] = "create"
  /\ temp'   = [temp EXCEPT ![l] = TempName(l)]
  /\ serial' = [serial EXCEPT ![ProcessOf[l]] = @ + 1]
  /\ \/ /\ ~Entry(TempName(l))
        /\ content' = Append(content, "partial")
        /\ Enter(TempName(l), Len(content'))
        /\ file'    = [file EXCEPT ![l] = Len(content')]
        /\ Goto(l, "write")
        /\ UNCHANGED fault
     \/ /\ \/ Entry(TempName(l)) /\ fault' = [fault EXCEPT ![l] = ~OwnedByCreator(TempName(l))]
           \/ fault' = [fault EXCEPT ![l] = TRUE]
        /\ Goto(l, "cleanup")
        /\ UNCHANGED <<content, temps, file>>
  /\ UNCHANGED <<target, older, stuck, pid, fd, loads, stops>>

(* An I/O error leads to the catch block. *)
IOError(l) ==
  /\ pc[l] \in {"write", "sync", "replace"}
  /\ fault' = [fault EXCEPT ![l] = TRUE]
  /\ Goto(l, "cleanup")
  /\ UNCHANGED <<disk, pid, serial, temp, file, fd, loads, stops>>

WriteAll(l) ==
  /\ pc[l] = "write"
  /\ content' = [content EXCEPT ![file[l]] = "written"]
  /\ Goto(l, "sync")
  /\ UNCHANGED <<target, temps, older, stuck, pid, serial, temp, file, fd, fault, loads, stops>>

\* Slip: the file is closed without a sync.
CloseWithoutSync(l) ==
  /\ pc[l] = "sync"
  /\ Goto(l, "replace")
  /\ UNCHANGED <<disk, pid, serial, temp, file, fd, fault, loads, stops>>

DurableClose(l) ==
  /\ pc[l] = "sync"
  /\ content' = [content EXCEPT ![file[l]] = "durable"]
  /\ Goto(l, "replace")
  /\ UNCHANGED <<target, temps, older, stuck, pid, serial, temp, file, fd, fault, loads, stops>>

(* rename moves whatever the temporary name leads to.                      *)
AtomicReplace(l) ==
  /\ pc[l] = "replace"
  /\ IF Entry(temp[l])
     THEN /\ target' = temps[temp[l]]
          /\ older'  = older \cup {target}
          /\ Remove(temp[l])
          /\ Goto(l, "final")
     ELSE /\ Goto(l, "cleanup")
          /\ UNCHANGED <<target, temps, older>>
  /\ UNCHANGED <<content, stuck, pid, serial, temp, file, fd, fault, loads, stops>>

\* Slip: the catch block leaves the temporary behind.
CleanupNothing(l) ==
  /\ pc[l] = "cleanup"
  /\ Goto(l, "winner")
  /\ UNCHANGED <<disk, pid, serial, temp, file, fd, fault, loads, stops>>

(* The catch block removes the temporary name, whoever created it; that    *)
(* the removal fails is ignored.                                           *)
Cleanup(l) ==
  /\ pc[l] = "cleanup"
  /\ \/ Remove(temp[l]) /\ UNCHANGED stuck
     \/ /\ Entry(temp[l])
        /\ stuck' = stuck \cup {temps[temp[l]]}
        /\ UNCHANGED temps
  /\ Goto(l, "winner")
  /\ UNCHANGED <<content, target, older, pid, serial, temp, file, fd, fault, loads, stops>>

-----------------------------------------------------------------------------
Died(dead) ==
  /\ pc'   = [l \in Loader |-> IF l \in dead THEN "idle" ELSE pc[l]]
  /\ temp' = [l \in Loader |-> IF l \in dead THEN NoTemp ELSE temp[l]]
  /\ file' = [l \in Loader |-> IF l \in dead THEN 0 ELSE file[l]]
  /\ fd'   = [l \in Loader |-> IF l \in dead THEN 0 ELSE fd[l]]
  /\ UNCHANGED <<fault, loads>>

(* A process dies and another starts, with any free process id.            *)
Crash(p) ==
  /\ ~shared /\ stops < MaxStops /\ stops' = stops + 1
  /\ Died({l \in Loader : ProcessOf[l] = p})
  /\ \E q \in Pid : pid' = [pid EXCEPT ![p] = q]
  /\ DistinctPids(pid')
  /\ serial' = [serial EXCEPT ![p] = 0]
  /\ UNCHANGED disk

(* A power failure: what was not synced may be torn, and as the directory  *)
(* is never synced the target may be an earlier one.                       *)
PowerFailure ==
  /\ ~shared /\ stops < MaxStops /\ stops' = stops + 1
  /\ Died(Loader)
  /\ pid' \in [Proc -> Pid] /\ DistinctPids(pid')
  /\ serial' = [p \in Proc |-> 0]
  /\ target' \in older \cup {target}
  /\ older' = {}
  /\ content' = [i \in DOMAIN content |->
                   IF content[i] \in {"partial", "written"} THEN "damaged" ELSE content[i]]
  /\ UNCHANGED <<temps, stuck>>

Next ==
  /\ \/ \E l \in Loader :
          \/ BeginLoad(l) \/ Open(l) \/ Validate(l) \/ BuildFails(l) \/ CreateTemp(l)
          \/ IOError(l) \/ WriteAll(l) \/ DurableClose(l) \/ AtomicReplace(l) \/ Cleanup(l)
     \/ \E p \in Proc : Crash(p)
     \/ PowerFailure
  /\ UNCHANGED shared

Spec == Init /\ [][Next]_vars

-----------------------------------------------------------------------------
(* "Accept only a fully validated winner": whatever raced, crashed or      *)
(* collided, a loader that returns an index reads a complete file.         *)
LoadedIndexIsComplete ==
  \A l \in Loader : pc[l] = "loaded" => Complete(fd[l])

(* The cache name never leads to a torn file: not while loaders race, and  *)
(* not after a crash or a power failure.  Only a file that was damaged     *)
(* from the start may still be there.                                      *)
TargetNeverTorn ==
  ~shared /\ target \notin {0, Original} => Complete(target)

(* Racing creators do not fail one another: a load fails only if it met an *)
(* I/O error of its own or a temporary that nobody works on any more.      *)
LoadFailsOnlyOnFault ==
  ~shared => \A l \in Loader : pc[l] = "failed" => fault[l]

(* Unless a process died, no temporary outlives the load that made it but  *)
(* one the file system refused to remove.                                  *)
TemporariesAreTemporary ==
  stops = 0 => \A n \in DOMAIN temps : OwnedByCreator(n) \/ temps[n] \in stuck
=============================================================================
