-------------------------- MODULE MergeCacheProofs --------------------------
(***************************************************************************)
(* Proofs about MergeCache, for any processes, threads, process ids and    *)
(* numbers of loads, crashes and power failures.                           *)
(***************************************************************************)
EXTENDS MergeCache, TLAPS

State   == {"partial", "written", "durable", "damaged"}
Inode   == 1 .. Len(content)
Writing == {"write", "sync", "replace"}

Types ==
  /\ shared  \in BOOLEAN
  /\ content \in Seq(State) /\ Original \in Inode
  /\ target  \in Inode \cup {0}
  /\ \A n \in DOMAIN temps : temps[n] \in Inode
  /\ older   \in SUBSET (Inode \cup {0})
  /\ pid     \in [Proc -> Pid]
  /\ serial  \in [Proc -> Nat]
  /\ pc      \in [Loader -> Creating \cup {"idle", "lookup", "create", "winner", "final",
                                           "loaded", "failed"}]
  /\ temp    \in [Loader -> (Pid \X Nat) \cup {NoTemp}]
  /\ file    \in [Loader -> Inode \cup {0}]
  /\ fd      \in [Loader -> Inode \cup {0}]
  /\ fault   \in [Loader -> BOOLEAN]
  /\ stops   \in Nat

CreatorsHaveFiles == \A l \in Loader : pc[l] \in Writing => file[l] # 0

(* Where process ids are not shared, two creators never use one name.      *)
NamesAreUnique ==
  /\ DistinctPids(pid)
  /\ \A l \in Loader : pc[l] \in Creating =>
       /\ temp[l] \in Pid \X Nat
       /\ temp[l][1] = pid[ProcessOf[l]]
       /\ temp[l][2] < serial[ProcessOf[l]]
  /\ \A l, m \in Loader : pc[l] \in Creating /\ pc[m] \in Creating /\ l # m =>
       temp[l] # temp[m]

\* The content of the file a creator is about to write, to sync or to rename.
Stage(s) == CASE s = "write" -> "partial" [] s = "sync" -> "written" [] OTHER -> "durable"

(* So the temporary name of a creator leads to the file it writes, which   *)
(* no other creator writes, until it renames or removes it.                *)
CreatorsOwnFiles ==
  /\ \A l \in Loader : pc[l] \in Writing =>
       /\ Entry(temp[l]) /\ temps[temp[l]] = file[l]
       /\ file[l] \in Inode \ {Original}
       /\ content[file[l]] = Stage(pc[l])
  /\ \A l, m \in Loader : pc[l] \in Writing /\ pc[m] \in Writing /\ l # m =>
       file[l] # file[m]

(* What the target names, now or again after a power failure, was synced.  *)
TargetsAreDurable ==
  \A i \in older \cup {target} : i \in {0, Original} \/ content[i] = "durable"

(* A loader that renamed finds a complete file; one that gave up met a     *)
(* fault.                                                                  *)
LoadersSucceed ==
  \A l \in Loader :
    /\ pc[l] \in Creating \cup {"create"} => fd[l] = 0
    /\ pc[l] = "final" => IF fd[l] = 0 THEN target \notin {0, Original} ELSE Complete(fd[l])
    /\ pc[l] \in {"cleanup", "winner", "failed"} => fault[l]

Exclusive == NamesAreUnique /\ CreatorsOwnFiles /\ TargetsAreDurable /\ LoadersSucceed

(* The inductive invariant. *)
IInv ==
  /\ Types
  /\ CreatorsHaveFiles
  /\ LoadedIndexIsComplete
  /\ TemporariesAreTemporary
  /\ ~shared => Exclusive

-----------------------------------------------------------------------------
(* A first inode; writing to one, adding one, and tearing them all. *)
LEMMA InodeFirst ==
  ASSUME NEW v \in State
  PROVE  <<v>> \in Seq(State) /\ Len(<<v>>) = 1
OBVIOUS

LEMMA InodeWrite ==
  ASSUME NEW c \in Seq(State), NEW i \in 1 .. Len(c), NEW v \in State
  PROVE  /\ [c EXCEPT ![i] = v] \in Seq(State)
         /\ Len([c EXCEPT ![i] = v]) = Len(c)
         /\ [c EXCEPT ![i] = v][i] = v
         /\ \A j \in 1 .. Len(c) : j # i => [c EXCEPT ![i] = v][j] = c[j]
OBVIOUS

LEMMA InodeCreate ==
  ASSUME NEW c \in Seq(State), NEW v \in State
  PROVE  /\ Append(c, v) \in Seq(State)
         /\ Len(Append(c, v)) = Len(c) + 1
         /\ Append(c, v)[Len(c) + 1] = v
         /\ \A j \in 1 .. Len(c) : Append(c, v)[j] = c[j]
OBVIOUS

LEMMA InodesMapped ==
  ASSUME NEW c \in Seq(State), NEW f \in [DOMAIN c -> State]
  PROVE  f \in Seq(State) /\ Len(f) = Len(c)
OBVIOUS

(* The first state. *)
LEMMA InitIInv == Init => IInv
<1> SUFFICES ASSUME Init PROVE IInv
  OBVIOUS
<1> USE DEF Init, Creating
<1>1. content \in Seq(State) /\ Len(content) = 1 /\ DOMAIN temps = {}
  <2>1. content = <<"damaged">> \/ content = <<"durable">>
    OBVIOUS
  <2>2. content \in Seq(State) /\ Len(content) = 1
    BY <2>1, InodeFirst DEF State
  <2>3. temps = <<>>
    OBVIOUS
  <2>4. DOMAIN temps = {}
    BY <2>3
  <2> QED
    BY <2>2, <2>4
<1>2. Types
  <2>1. Inode = {1}
    BY <1>1 DEF Inode
  <2>2. target \in Inode \cup {0} /\ older \in SUBSET (Inode \cup {0})
    BY <2>1 DEF Original
  <2>3. \A n \in DOMAIN temps : temps[n] \in Inode
    BY <1>1
  <2>4. Original \in Inode
    BY <2>1 DEF Original
  <2> QED
    BY <1>1, <2>2, <2>3, <2>4 DEF Types
<1>3. LoadedIndexIsComplete /\ TemporariesAreTemporary /\ CreatorsHaveFiles
  BY <1>1 DEF LoadedIndexIsComplete, TemporariesAreTemporary, CreatorsHaveFiles, Writing
<1>4. ~shared => Exclusive
  BY DEF Exclusive, NamesAreUnique, CreatorsOwnFiles, TargetsAreDurable, LoadersSucceed, Writing
<1> QED
  BY <1>2, <1>3, <1>4 DEF IInv

(* The variables keep their types.  A loader has a file while it writes.   *)
LEMMA StepTypes ==
  ASSUME Types, [Next]_vars,
         \A l \in Loader : pc[l] \in {"write", "sync"} => file[l] # 0
  PROVE  Types'
<1> USE DEF Types, Goto, Creating, disk
<1>1. CASE UNCHANGED vars
  BY <1>1 DEF vars, Inode
<1>2. ASSUME NEW l \in Loader, UNCHANGED shared,
             \/ BeginLoad(l) \/ Open(l) \/ Validate(l) \/ BuildFails(l)
             \/ IOError(l)
      PROVE Types'
  <2>1. UNCHANGED <<content, target, temps, older, pid, serial, stops, shared>>
    BY <1>2 DEF BeginLoad, Open, Validate, BuildFails, IOError
  <2>2. /\ fd' \in [Loader -> Inode \cup {0}] /\ file' \in [Loader -> Inode \cup {0}]
        /\ fault' \in [Loader -> BOOLEAN] /\ temp' \in [Loader -> (Pid \X Nat) \cup {NoTemp}]
    BY <1>2 DEF BeginLoad, Open, Validate, BuildFails, IOError
  <2>3. pc' \in [Loader -> Creating \cup {"idle", "lookup", "create", "winner", "final",
                                          "loaded", "failed"}]
    BY <1>2 DEF BeginLoad, Open, Validate, BuildFails, IOError
  <2> QED
    BY <2>1, <2>2, <2>3 DEF Inode
<1>3. ASSUME NEW l \in Loader, UNCHANGED shared, CreateTemp(l)
      PROVE  Types'
  <2> DEFINE n == TempName(l)
  <2>1. ProcessOf[l] \in Proc
    BY ProcessAssumption
  <2>2. n \in Pid \X Nat
    BY <2>1 DEF TempName
  <2>3. temp' \in [Loader -> (Pid \X Nat) \cup {NoTemp}] /\ serial' \in [Proc -> Nat]
    BY <1>3, <2>1, <2>2 DEF CreateTemp
  <2>4. UNCHANGED <<target, older, pid, fd, stops, shared>>
    BY <1>3 DEF CreateTemp
  <2>5. CASE ~Entry(n) /\ content' = Append(content, "partial")
    <3>1. /\ content' \in Seq(State) /\ Len(content') = Len(content) + 1
      BY <2>5, InodeCreate DEF State
    <3>2. Inode \subseteq Inode' /\ Len(content') \in Inode'
      BY <3>1 DEF Inode
    <3>3. CASE Enter(n, Len(content')) /\ file' = [file EXCEPT ![l] = Len(content')]
      <4>1. \A m \in DOMAIN temps' : temps'[m] \in Inode'
        BY <3>2, <3>3 DEF Enter
      <4>2. file' \in [Loader -> Inode' \cup {0}] /\ fd \in [Loader -> Inode' \cup {0}]
        BY <3>2, <3>3
      <4>3. pc' = [pc EXCEPT ![l] = "write"] \/ pc' = [pc EXCEPT ![l] = "cleanup"]
        BY <1>3 DEF CreateTemp
      <4>4. fault' \in [Loader -> BOOLEAN]
        BY <1>3, <2>5 DEF CreateTemp
      <4> QED
        BY <2>3, <2>4, <3>1, <3>2, <4>1, <4>2, <4>3, <4>4
    <3>4. CASE content' = content
      BY <2>5, <3>1, <3>4
    <3> QED
      BY <1>3, <3>3, <3>4 DEF CreateTemp
  <2>6. CASE UNCHANGED <<content, temps, file>>
    <3>1. fault' \in [Loader -> BOOLEAN]
      BY <1>3 DEF CreateTemp
    <3>2. pc' = [pc EXCEPT ![l] = "write"] \/ pc' = [pc EXCEPT ![l] = "cleanup"]
      BY <1>3 DEF CreateTemp
    <3> QED
      BY <2>3, <2>4, <2>6, <3>1, <3>2 DEF Inode
  <2> QED
    BY <1>3, <2>5, <2>6 DEF CreateTemp
<1>4. ASSUME NEW l \in Loader, UNCHANGED shared, WriteAll(l) \/ DurableClose(l)
      PROVE  Types'
  <2>1. file[l] \in Inode
    BY <1>4 DEF WriteAll, DurableClose
  <2>2. PICK v \in State : content' = [content EXCEPT ![file[l]] = v]
    BY <1>4 DEF WriteAll, DurableClose, State
  <2>3. content' \in Seq(State) /\ Len(content') = Len(content)
    BY <2>1, <2>2, InodeWrite DEF Inode
  <2>4. pc' = [pc EXCEPT ![l] = "sync"] \/ pc' = [pc EXCEPT ![l] = "replace"]
    BY <1>4 DEF WriteAll, DurableClose
  <2> QED
    BY <1>4, <2>3, <2>4 DEF WriteAll, DurableClose, Inode
<1>5. ASSUME NEW l \in Loader, UNCHANGED shared, AtomicReplace(l) \/ Cleanup(l)
      PROVE  Types'
  <2>1. UNCHANGED <<content, pid, serial, temp, file, fd, fault, stops, shared>>
    BY <1>5 DEF AtomicReplace, Cleanup
  <2>2. \A m \in DOMAIN temps' : temps'[m] \in Inode
    BY <1>5 DEF AtomicReplace, Cleanup, Remove
  <2>3. target' \in Inode \cup {0} /\ older' \in SUBSET (Inode \cup {0})
    BY <1>5 DEF AtomicReplace, Cleanup, Entry
  <2>4. pc' \in [Loader -> Creating \cup {"idle", "lookup", "create", "winner", "final",
                                          "loaded", "failed"}]
    BY <1>5 DEF AtomicReplace, Cleanup
  <2> QED
    BY <2>1, <2>2, <2>3, <2>4 DEF Inode
<1>6. ASSUME NEW dead \in SUBSET Loader, Died(dead)
      PROVE  /\ pc' \in [Loader -> Creating \cup {"idle", "lookup", "create", "winner", "final",
                                                  "loaded", "failed"}]
             /\ temp' \in [Loader -> (Pid \X Nat) \cup {NoTemp}]
             /\ file' \in [Loader -> Inode \cup {0}] /\ fd' \in [Loader -> Inode \cup {0}]
             /\ fault' \in [Loader -> BOOLEAN]
  BY <1>6 DEF Died
<1>7. ASSUME NEW p \in Proc, UNCHANGED shared, Crash(p)
      PROVE  Types'
  <2>1. Died({l \in Loader : ProcessOf[l] = p})
    BY <1>7 DEF Crash
  <2>2. pid' \in [Proc -> Pid] /\ serial' \in [Proc -> Nat] /\ stops' \in Nat
    BY <1>7 DEF Crash
  <2>3. UNCHANGED <<content, target, temps, older>>
    BY <1>7 DEF Crash
  <2> QED
    BY <1>6, <1>7, <2>1, <2>2, <2>3 DEF Inode
<1>8. CASE PowerFailure /\ UNCHANGED shared
  <2>1. Died(Loader)
    BY <1>8 DEF PowerFailure
  <2>2. content' \in Seq(State) /\ Len(content') = Len(content)
    <3>1. content' \in [DOMAIN content -> State]
      BY <1>8 DEF PowerFailure, State
    <3> QED
      BY <3>1, InodesMapped
  <2>3. pid' \in [Proc -> Pid] /\ serial' \in [Proc -> Nat] /\ stops' \in Nat
    BY <1>8 DEF PowerFailure
  <2>4. target' \in Inode \cup {0} /\ older' = {} /\ temps' = temps
    BY <1>8 DEF PowerFailure
  <2> QED
    BY <1>6, <1>8, <2>1, <2>2, <2>3, <2>4 DEF Inode
<1> QED
  BY <1>1, <1>2, <1>3, <1>4, <1>5, <1>7, <1>8 DEF Next

-----------------------------------------------------------------------------
\* A step of loader l, and a stop of some processes.
Load(l) ==
  \/ BeginLoad(l) \/ Open(l) \/ Validate(l) \/ BuildFails(l) \/ CreateTemp(l)
  \/ IOError(l) \/ WriteAll(l) \/ DurableClose(l) \/ AtomicReplace(l) \/ Cleanup(l)

(* A loader changes nothing of another one. *)
LEMMA OthersUnchanged ==
  ASSUME Types, NEW l \in Loader, Load(l), NEW m \in Loader, m # l
  PROVE  /\ pc'[m] = pc[m] /\ temp'[m] = temp[m] /\ file'[m] = file[m]
         /\ fd'[m] = fd[m] /\ fault'[m] = fault[m]
<1> USE DEF Types, Goto
<1>1. CASE BeginLoad(l) \/ Open(l) \/ Validate(l) \/ BuildFails(l) \/ IOError(l)
  BY <1>1 DEF BeginLoad, Open, Validate, BuildFails, IOError
<1>2. CASE CreateTemp(l)
  BY <1>2 DEF CreateTemp
<1>3. CASE WriteAll(l) \/ DurableClose(l) \/ AtomicReplace(l) \/ Cleanup(l)
  BY <1>3 DEF WriteAll, DurableClose, AtomicReplace, Cleanup
<1> QED
  BY <1>1, <1>2, <1>3 DEF Load

(* Loaders only add inodes, and write only to the one they are creating.   *)
LEMMA ContentGrows ==
  ASSUME Types, NEW l \in Loader, Load(l), file[l] = 0 => pc[l] \notin {"write", "sync"}
  PROVE  /\ Inode \subseteq Inode'
         /\ \A i \in Inode : \/ content'[i] = content[i]
                             \/ /\ i = file[l]
                                /\ \/ pc[l] = "write" /\ content'[i] = "written"
                                   \/ pc[l] = "sync" /\ content'[i] = "durable"
<1> USE DEF Types, disk
<1>1. CASE content' = content
  BY <1>1 DEF Inode
<1>2. CASE CreateTemp(l) /\ content' = Append(content, "partial")
  BY <1>2, InodeCreate DEF State, Inode
<1>3. CASE WriteAll(l) \/ DurableClose(l)
  <2>1. file[l] \in Inode
    BY <1>3 DEF WriteAll, DurableClose
  <2> QED
    BY <1>3, <2>1, InodeWrite DEF State, Inode, WriteAll, DurableClose
<1> QED
  BY <1>1, <1>2, <1>3 DEF Load, BeginLoad, Open, Validate, BuildFails, CreateTemp, IOError,
                          AtomicReplace, Cleanup

(* So what was complete stays complete, short of a power failure. *)
LEMMA CompleteStays ==
  ASSUME Types, Types', NEW l \in Loader, Load(l),
         file[l] = 0 => pc[l] \notin {"write", "sync"},
         NEW i \in Inode \cup {0}, Complete(i)
  PROVE  Complete(i)'
BY ContentGrows DEF Complete

(* Racing loaders: an accepted file stays complete. *)
LEMMA StepLoaded ==
  ASSUME Types, Types', CreatorsHaveFiles, LoadedIndexIsComplete, [Next]_vars
  PROVE  LoadedIndexIsComplete'
<1> USE DEF LoadedIndexIsComplete
<1>1. ASSUME NEW l \in Loader, Load(l) PROVE LoadedIndexIsComplete'
  <2>1. file[l] = 0 => pc[l] \notin {"write", "sync"}
    BY DEF CreatorsHaveFiles, Writing
  <2>2. ASSUME NEW m \in Loader, m # l, pc'[m] = "loaded" PROVE Complete(fd[m])'
    <3>1. pc[m] = "loaded" /\ fd'[m] = fd[m] /\ fd[m] \in Inode \cup {0}
      BY <1>1, <2>2, OthersUnchanged DEF Types
    <3>2. Complete(fd[m])
      BY <3>1
    <3> DEFINE i == fd[m]
    <3>3. ASSUME NEW j \in Inode \cup {0}, Complete(j) PROVE Complete(j)'
      BY <1>1, <2>1, <3>3, CompleteStays
    <3> QED
      BY <1>1, <2>1, <3>1, <3>2, <3>3 DEF Complete
  <2>3. ASSUME pc'[l] = "loaded" PROVE Validate(l) /\ Accepted(l) /\ fd' = fd
    <3> USE DEF Types, Goto
    <3>1. ~BeginLoad(l) /\ ~BuildFails(l) /\ ~CreateTemp(l) /\ ~IOError(l)
      BY <2>3 DEF BeginLoad, BuildFails, CreateTemp, IOError
    <3>2. ~Open(l) /\ ~WriteAll(l) /\ ~DurableClose(l) /\ ~AtomicReplace(l) /\ ~Cleanup(l)
      BY <2>3 DEF Open, WriteAll, DurableClose, AtomicReplace, Cleanup
    <3> QED
      BY <1>1, <2>3, <3>1, <3>2 DEF Load, Validate
  <2>4. ASSUME pc'[l] = "loaded" PROVE Complete(fd[l])'
    BY <2>3, <2>4 DEF Validate, Accepted, Complete, disk
  <2> QED
    BY <2>2, <2>4
<1>2. ASSUME NEW p \in Proc, Crash(p) PROVE LoadedIndexIsComplete'
  <2>1. content' = content
    BY <1>2 DEF Crash, disk
  <2>2. \A m \in Loader : pc'[m] = "loaded" => pc[m] = "loaded" /\ fd'[m] = fd[m]
    BY <1>2 DEF Crash, Died
  <2> QED
    BY <2>1, <2>2 DEF Complete
<1>3. CASE PowerFailure
  BY <1>3 DEF PowerFailure, Died
<1>4. CASE UNCHANGED vars
  BY <1>4 DEF vars, disk, Complete
<1> QED
  BY <1>1, <1>2, <1>3, <1>4 DEF Next, Load

(* A creator that stops creating has removed or renamed its temporary, or  *)
(* the file system kept its name.  A name leads to one inode while it is   *)
(* there.                                                                  *)
LEMMA StepTemporaries ==
  ASSUME Types, Types', TemporariesAreTemporary, [Next]_vars
  PROVE  TemporariesAreTemporary'
<1> USE DEF TemporariesAreTemporary
<1>1. ASSUME NEW l \in Loader, Load(l), stops = 0, stops' = 0
      PROVE  TemporariesAreTemporary'
  <2>0. /\ stuck \subseteq stuck'
        /\ \A n \in DOMAIN temps \cap DOMAIN temps' : temps'[n] = temps[n]
    <3>1. CASE CreateTemp(l)
      BY <3>1 DEF CreateTemp, Enter, Entry
    <3>2. CASE AtomicReplace(l) \/ Cleanup(l)
      BY <3>2 DEF AtomicReplace, Cleanup, Remove
    <3>3. CASE ~CreateTemp(l) /\ ~AtomicReplace(l) /\ ~Cleanup(l)
      BY <1>1, <3>3 DEF Load, BeginLoad, Open, Validate, BuildFails, IOError, WriteAll,
                        DurableClose, disk
    <3> QED
      BY <3>1, <3>2, <3>3
  <2> SUFFICES ASSUME NEW n \in DOMAIN temps'
               PROVE  OwnedByCreator(n)' \/ temps'[n] \in stuck'
    BY Zenon
  <2>1. CASE n \in DOMAIN temps /\ temps[n] \in stuck
    BY <2>0, <2>1
  <2>2. CASE n \in DOMAIN temps /\ OwnedByCreator(n)
    <3>1. PICK m \in Loader : pc[m] \in Creating /\ temp[m] = n
      BY <2>2 DEF OwnedByCreator
    <3>2. CASE m # l
      BY <1>1, <3>1, <3>2, OthersUnchanged DEF OwnedByCreator
    <3>3. CASE m = l
      <4> USE DEF Types, Goto
      <4>1. ~BeginLoad(l) /\ ~Open(l) /\ ~Validate(l) /\ ~BuildFails(l) /\ ~CreateTemp(l)
        BY <3>1, <3>3 DEF BeginLoad, Open, Validate, BuildFails, CreateTemp, Creating
      <4>2. CASE Cleanup(l)
        <5>1. ~Remove(temp[l])
          BY <3>1, <3>3 DEF Remove
        <5>2. stuck' = stuck \cup {temps[n]} /\ temps' = temps
          BY <3>1, <3>3, <4>2, <5>1 DEF Cleanup
        <5> QED
          BY <5>2
      <4>3. CASE IOError(l) \/ WriteAll(l) \/ DurableClose(l)
        BY <3>1, <3>3, <4>3 DEF IOError, WriteAll, DurableClose, Creating, OwnedByCreator
      <4>4. CASE AtomicReplace(l)
        BY <3>1, <3>3, <4>4 DEF AtomicReplace, Remove, Creating, OwnedByCreator
      <4> QED
        BY <1>1, <4>1, <4>2, <4>3, <4>4 DEF Load
    <3> QED
      BY <3>2, <3>3
  <2>3. CASE n \notin DOMAIN temps
    <3>1. temps' # temps /\ CreateTemp(l)
      BY <1>1, <2>3 DEF Load, BeginLoad, Open, Validate, BuildFails, IOError, WriteAll,
                        DurableClose, AtomicReplace, Cleanup, Remove, disk
    <3>2. n = TempName(l) /\ pc'[l] = "write" /\ temp'[l] = TempName(l)
      BY <2>3, <3>1 DEF CreateTemp, Enter, Goto, Types
    <3> QED
      BY <3>2 DEF OwnedByCreator, Creating
  <2> QED
    BY <1>1, <2>1, <2>2, <2>3
<1>2. ASSUME NEW l \in Loader, Load(l) PROVE stops' = stops
  BY <1>2 DEF Load, BeginLoad, Open, Validate, BuildFails, CreateTemp, IOError, WriteAll,
              DurableClose, AtomicReplace, Cleanup
<1>3. CASE PowerFailure \/ \E p \in Proc : Crash(p)
  <2>1. stops' = stops + 1 /\ stops \in Nat
    BY <1>3 DEF PowerFailure, Crash, Types
  <2> QED
    BY <2>1
<1>4. CASE UNCHANGED vars
  BY <1>4 DEF vars, disk, OwnedByCreator
<1> QED
  BY <1>1, <1>2, <1>3, <1>4 DEF Next, Load

(* A loader that writes, syncs or renames has an inode to do it to. *)
LEMMA StepCreatorsHaveFiles ==
  ASSUME Types, CreatorsHaveFiles, [Next]_vars
  PROVE  CreatorsHaveFiles'
<1> USE DEF CreatorsHaveFiles, Writing, Types, Goto
<1>1. ASSUME NEW l \in Loader, Load(l) PROVE CreatorsHaveFiles'
  <2>1. ASSUME NEW m \in Loader, m # l, pc'[m] \in Writing PROVE file'[m] # 0
    BY <1>1, <2>1, OthersUnchanged
  <2>2. ASSUME pc'[l] \in Writing PROVE file'[l] # 0
    <3>1. CASE CreateTemp(l)
      <4>1. file'[l] = Len(content') /\ content' = Append(content, "partial")
        BY <2>2, <3>1 DEF CreateTemp
      <4> QED
        BY <4>1, InodeCreate DEF State
    <3>2. CASE ~CreateTemp(l)
      BY <1>1, <2>2, <3>2 DEF Load, BeginLoad, Open, Validate, BuildFails, IOError, WriteAll,
                              DurableClose, AtomicReplace, Cleanup
    <3> QED
      BY <3>1, <3>2
  <2> QED
    BY <2>1, <2>2
<1>2. CASE PowerFailure \/ \E p \in Proc : Crash(p)
  BY <1>2 DEF PowerFailure, Crash, Died
<1>3. CASE UNCHANGED vars
  BY <1>3 DEF vars
<1> QED
  BY <1>1, <1>2, <1>3 DEF Next, Load

-----------------------------------------------------------------------------
(* From here on process ids are not shared. *)

(* A new name is nobody's: of this process by its serial, of another by    *)
(* its process id.                                                         *)
LEMMA FreshName ==
  ASSUME Types, NamesAreUnique, NEW l \in Loader, NEW m \in Loader, pc[m] \in Creating
  PROVE  temp[m] # TempName(l)
<1> USE DEF Types, NamesAreUnique
<1> DEFINE n == TempName(l)
<1>0. ProcessOf[l] \in Proc /\ ProcessOf[m] \in Proc
  BY ProcessAssumption
<1>1. n[1] = pid[ProcessOf[l]] /\ n[2] = serial[ProcessOf[l]] /\ n[2] \in Nat
  BY <1>0 DEF TempName
<1>2. /\ temp[m] \in Pid \X Nat
      /\ temp[m][1] = pid[ProcessOf[m]] /\ temp[m][2] < serial[ProcessOf[m]]
  OBVIOUS
<1>3. CASE ProcessOf[m] = ProcessOf[l]
  <2>1. temp[m][2] < n[2] /\ temp[m][2] \in Nat
    BY <1>1, <1>2, <1>3
  <2> QED
    BY <1>1, <2>1
<1>4. CASE ProcessOf[m] # ProcessOf[l]
  <2>1. temp[m][1] # n[1]
    BY <1>0, <1>1, <1>2, <1>4 DEF DistinctPids
  <2> QED
    BY <2>1
<1> QED
  BY <1>3, <1>4

(* So creators keep distinct names. *)
LEMMA StepNames ==
  ASSUME Types, Types', NamesAreUnique, NEW l \in Loader, Load(l)
  PROVE  NamesAreUnique'
<1> USE DEF Types, NamesAreUnique
<1>0. /\ pid' = pid /\ \A m \in Loader : ProcessOf[m] \in Proc
      /\ \A m \in Loader : serial[ProcessOf[m]] \in Nat /\ serial[ProcessOf[m]] <= serial'[ProcessOf[m]]
  <2>1. pid' = pid
    BY DEF Load, BeginLoad, Open, Validate, BuildFails, CreateTemp, IOError, WriteAll,
           DurableClose, AtomicReplace, Cleanup
  <2>2. serial' = serial \/ serial' = [serial EXCEPT ![ProcessOf[l]] = @ + 1]
    BY DEF Load, BeginLoad, Open, Validate, BuildFails, CreateTemp, IOError, WriteAll,
           DurableClose, AtomicReplace, Cleanup
  <2> QED
    BY <2>1, <2>2, ProcessAssumption
<1>1. \A m \in Loader \ {l} : pc'[m] = pc[m] /\ temp'[m] = temp[m]
  BY OthersUnchanged
<1>2. DistinctPids(pid')
  BY <1>0
<1>3. CASE CreateTemp(l)
  <2> DEFINE n == TempName(l)
  <2>1. /\ n \in Pid \X Nat /\ n[1] = pid[ProcessOf[l]] /\ n[2] = serial[ProcessOf[l]]
    BY <1>0 DEF TempName
  <2>2. temp'[l] = n /\ serial'[ProcessOf[l]] = serial[ProcessOf[l]] + 1
    BY <1>0, <1>3 DEF CreateTemp
  <2>3. ASSUME NEW m \in Loader \ {l}, pc[m] \in Creating PROVE temp[m] # n
    BY <2>3, FreshName
  <2> HIDE DEF n
  <2>4. ASSUME NEW m \in Loader, pc'[m] \in Creating
        PROVE  /\ temp'[m] \in Pid \X Nat
               /\ temp'[m][1] = pid'[ProcessOf[m]]
               /\ temp'[m][2] < serial'[ProcessOf[m]]
    <3>1. CASE m = l
      BY <1>0, <2>1, <2>2, <3>1
    <3>2. CASE m # l
      <4>1. /\ temp'[m] = temp[m] /\ temp[m] \in Pid \X Nat
            /\ temp[m][1] = pid[ProcessOf[m]] /\ temp[m][2] < serial[ProcessOf[m]]
        BY <1>1, <2>4, <3>2
      <4>2. temp[m][2] \in Nat
        BY <4>1
      <4>3. serial'[ProcessOf[m]] \in Nat
        BY <1>0
      <4> QED
        BY <1>0, <4>1, <4>2, <4>3
    <3> QED
      BY <3>1, <3>2
  <2>5. ASSUME NEW m \in Loader, NEW k \in Loader, pc'[m] \in Creating, pc'[k] \in Creating, m # k
        PROVE  temp'[m] # temp'[k]
    <3>1. CASE m = l
      BY <1>1, <2>2, <2>3, <2>5, <3>1
    <3>2. CASE k = l
      BY <1>1, <2>2, <2>3, <2>5, <3>2
    <3>3. CASE m # l /\ k # l
      BY <1>1, <2>5, <3>3
    <3> QED
      BY <3>1, <3>2, <3>3
  <2> QED
    BY <1>2, <2>4, <2>5
<1>4. CASE ~CreateTemp(l)
  <2>1. serial' = serial /\ (pc'[l] \in Creating => pc[l] \in Creating /\ temp'[l] = temp[l])
    BY <1>4 DEF Load, BeginLoad, Open, Validate, BuildFails, IOError, WriteAll, DurableClose,
                AtomicReplace, Cleanup, Goto, Creating
  <2>2. \A m \in Loader : pc'[m] \in Creating => pc[m] \in Creating /\ temp'[m] = temp[m]
    BY <1>1, <2>1
  <2> QED
    BY <1>0, <1>2, <2>1, <2>2
<1> QED
  BY <1>3, <1>4

(* What a loader does with its temporary name and its file does not touch  *)
(* those of another creator.                                               *)
LEMMA StepFiles ==
  ASSUME Types, Types', CreatorsHaveFiles, NamesAreUnique, CreatorsOwnFiles, NEW l \in Loader, Load(l)
  PROVE  CreatorsOwnFiles'
<1> USE DEF Types, CreatorsOwnFiles
<1>0. /\ file[l] = 0 => pc[l] \notin {"write", "sync"}
      /\ Inode \subseteq Inode'
  BY ContentGrows DEF CreatorsHaveFiles, Writing
<1>1. \A m \in Loader \ {l} : pc'[m] = pc[m] /\ temp'[m] = temp[m] /\ file'[m] = file[m]
  BY OthersUnchanged
<1>2. ASSUME NEW m \in Loader \ {l}, pc[m] \in Writing
      PROVE  content'[file[m]] = content[file[m]]
  <2>1. file[m] \in Inode
    BY <1>2
  <2>2. pc[l] \in {"write", "sync"} => file[m] # file[l]
    BY <1>2 DEF Writing
  <2> QED
    BY <1>0, <2>1, <2>2, ContentGrows
<1>3. ASSUME NEW m \in Loader \ {l}, pc[m] \in Writing
      PROVE  temp[m] \in DOMAIN temps' /\ temps'[temp[m]] = file[m]
  <2>1. temp[m] \in DOMAIN temps /\ temps[temp[m]] = file[m]
    BY <1>3 DEF Entry
  <2>2. pc[l] \in Creating => temp[l] # temp[m]
    BY <1>3 DEF NamesAreUnique, Writing, Creating
  <2>3. CASE CreateTemp(l) /\ temps' # temps
    <3>1. Enter(TempName(l), Len(content')) /\ ~Entry(TempName(l))
      BY <2>3 DEF CreateTemp
    <3> QED
      BY <2>1, <3>1 DEF Enter, Entry
  <2>4. CASE (AtomicReplace(l) \/ Cleanup(l)) /\ temps' # temps
    <3>1. Remove(temp[l]) /\ pc[l] \in Creating
      BY <2>4 DEF AtomicReplace, Cleanup, Creating
    <3> QED
      BY <2>1, <2>2, <3>1 DEF Remove
  <2>5. CASE temps' = temps
    BY <2>1, <2>5
  <2> QED
    BY <2>3, <2>4, <2>5 DEF Load, BeginLoad, Open, Validate, BuildFails, IOError, WriteAll,
                            DurableClose, disk
<1>4. ASSUME NEW m \in Loader \ {l}, pc'[m] \in Writing
      PROVE  /\ Entry(temp[m])' /\ temps'[temp'[m]] = file'[m]
             /\ file'[m] \in Inode' \ {Original}
             /\ content'[file'[m]] = Stage(pc[m])
  BY <1>0, <1>1, <1>2, <1>3, <1>4 DEF Entry
<1>5. ASSUME pc'[l] \in Writing
      PROVE  /\ temp'[l] \in DOMAIN temps' /\ temps'[temp'[l]] = file'[l]
             /\ file'[l] \in Inode' \ {Original}
             /\ content'[file'[l]] = Stage(pc'[l])
             /\ \A m \in Loader \ {l} : pc'[m] \in Writing => file'[l] # file'[m]
  <2> USE DEF Goto, Writing
  <2>1. CASE CreateTemp(l)
    <3>1. /\ content' = Append(content, "partial") /\ pc'[l] = "write"
          /\ Enter(TempName(l), Len(content')) /\ file'[l] = Len(content')
          /\ temp'[l] = TempName(l)
      BY <1>5, <2>1 DEF CreateTemp
    <3>2. Len(content') = Len(content) + 1 /\ content'[Len(content')] = "partial"
      BY <3>1, InodeCreate DEF State
    <3>3. file'[l] \in Inode' \ {Original} /\ file'[l] \notin Inode
      BY <3>1, <3>2 DEF Inode, Original
    <3>4. temp'[l] \in DOMAIN temps' /\ temps'[temp'[l]] = file'[l]
      BY <3>1 DEF Enter
    <3>5. \A m \in Loader \ {l} : pc'[m] \in Writing => file'[l] # file'[m]
      BY <1>1, <3>3
    <3> QED
      BY <3>1, <3>2, <3>3, <3>4, <3>5 DEF Stage
  <2>2. CASE WriteAll(l) \/ DurableClose(l)
    <3>1. /\ pc[l] \in Writing /\ UNCHANGED <<temps, temp, file>>
          /\ file[l] \in Inode \ {Original}
      BY <2>2 DEF WriteAll, DurableClose
    <3>2. \/ content' = [content EXCEPT ![file[l]] = "written"] /\ pc'[l] = "sync"
          \/ content' = [content EXCEPT ![file[l]] = "durable"] /\ pc'[l] = "replace"
      BY <2>2 DEF WriteAll, DurableClose
    <3>3. content'[file[l]] = Stage(pc'[l])
      BY <3>1, <3>2, InodeWrite DEF State, Inode, Stage
    <3>4. /\ temp[l] \in DOMAIN temps /\ temps[temp[l]] = file[l]
          /\ \A m \in Loader \ {l} : pc[m] \in Writing => file[l] # file[m]
      BY <3>1 DEF Entry
    <3> QED
      BY <1>0, <1>1, <3>1, <3>3, <3>4
  <2>3. CASE ~CreateTemp(l) /\ ~WriteAll(l) /\ ~DurableClose(l)
    BY <1>5, <2>3 DEF Load, BeginLoad, Open, Validate, BuildFails, IOError, AtomicReplace, Cleanup
  <2> QED
    BY <2>1, <2>2, <2>3
<1>6. ASSUME NEW m \in Loader, pc'[m] \in Writing
      PROVE  /\ Entry(temp[m])' /\ temps'[temp'[m]] = file'[m]
             /\ file'[m] \in Inode' \ {Original}
             /\ content'[file'[m]] = Stage(pc'[m])
  <2>1. CASE m = l
    BY <1>5, <1>6, <2>1 DEF Entry
  <2>2. CASE m # l
    BY <1>1, <1>4, <1>6, <2>2
  <2> QED
    BY <2>1, <2>2
<1>7. ASSUME NEW m \in Loader, NEW k \in Loader, m # k, pc'[m] \in Writing, pc'[k] \in Writing
      PROVE  file'[m] # file'[k]
  <2>1. CASE m = l
    BY <1>5, <1>7, <2>1
  <2>2. CASE k = l
    BY <1>5, <1>7, <2>2
  <2>3. CASE m # l /\ k # l
    BY <1>1, <1>7, <2>3
  <2> QED
    BY <2>1, <2>2, <2>3
<1> QED
  BY <1>6, <1>7

(* Only a synced file is renamed to the target, and nobody writes to it    *)
(* any more.                                                               *)
LEMMA StepTargets ==
  ASSUME Types, Types', CreatorsHaveFiles, CreatorsOwnFiles, TargetsAreDurable,
         NEW l \in Loader, Load(l)
  PROVE  /\ TargetsAreDurable'
         /\ target' \in {target, file[l]}
         /\ target' # target => target' \notin {0, Original}
<1> USE DEF Types
<1>1. /\ file[l] = 0 => pc[l] \notin {"write", "sync"}
      /\ pc[l] \in Writing => file[l] \in Inode \ {0, Original} /\ content[file[l]] = Stage(pc[l])
      /\ pc[l] \in Writing => Entry(temp[l]) /\ temps[temp[l]] = file[l]
  BY DEF CreatorsHaveFiles, CreatorsOwnFiles, Writing
<1>2. ASSUME NEW i \in Inode, content[i] = "durable" PROVE content'[i] = "durable"
  BY <1>1, <1>2, ContentGrows DEF Writing, Stage
<1>3. CASE AtomicReplace(l)
  <2>1. /\ target' = file[l] /\ older' = older \cup {target} /\ content' = content
        /\ file[l] \in Inode \ {0, Original} /\ content[file[l]] = "durable"
    BY <1>1, <1>3 DEF AtomicReplace, Writing, Stage
  <2> QED
    BY <2>1 DEF TargetsAreDurable
<1>4. CASE ~AtomicReplace(l)
  <2>1. target' = target /\ older' = older
    BY <1>4 DEF Load, BeginLoad, Open, Validate, BuildFails, CreateTemp, IOError, WriteAll,
                DurableClose, Cleanup, disk
  <2>2. \A i \in older \cup {target} : i \in Inode \cup {0}
    OBVIOUS
  <2> QED
    BY <1>2, <2>1, <2>2 DEF TargetsAreDurable, Original
<1> QED
  BY <1>3, <1>4

(* Nobody fails because of the others: a loader gives up only after a      *)
(* fault of its own.                                                       *)
LEMMA StepLoaders ==
  ASSUME Types, Types', CreatorsHaveFiles, Exclusive, NEW l \in Loader, Load(l)
  PROVE  LoadersSucceed'
<1> USE DEF Types, Goto
<1>1. /\ file[l] = 0 => pc[l] \notin {"write", "sync"}
      /\ pc[l] \in Writing => Entry(temp[l]) /\ temps[temp[l]] = file[l]
      /\ NamesAreUnique /\ CreatorsOwnFiles /\ TargetsAreDurable /\ LoadersSucceed
  BY DEF CreatorsHaveFiles, CreatorsOwnFiles, Writing, Exclusive
<1>2. target' # target => target' \notin {0, Original}
  BY <1>1, StepTargets
<1>3. ASSUME NEW i \in Inode \cup {0}, Complete(i) PROVE Complete(i)'
  BY <1>1, <1>3, CompleteStays
<1> DEFINE Fine(m) ==
      /\ pc[m] \in Creating \cup {"create"} => fd[m] = 0
      /\ pc[m] = "final" => IF fd[m] = 0 THEN target \notin {0, Original} ELSE Complete(fd[m])
      /\ pc[m] \in {"cleanup", "winner", "failed"} => fault[m]
<1>4. \A m \in Loader : Fine(m)
  BY <1>1 DEF LoadersSucceed
<1>5. ASSUME NEW m \in Loader, m # l PROVE Fine(m)'
  <2>1. pc'[m] = pc[m] /\ fd'[m] = fd[m] /\ fault'[m] = fault[m]
    BY <1>5, OthersUnchanged
  <2>2. fd[m] \in Inode \cup {0}
    OBVIOUS
  <2> QED
    BY <1>2, <1>3, <1>4, <2>1, <2>2 DEF Complete
<1>6. Fine(l)'
  <2>1. CASE BeginLoad(l) \/ BuildFails(l) \/ IOError(l)
    BY <1>4, <2>1 DEF BeginLoad, BuildFails, IOError, Creating
  <2>2. CASE Open(l)
    <3>1. target \in Inode \cup {0} /\ fd'[l] = target /\ UNCHANGED <<content, target, fault>>
      BY <2>2 DEF Open, disk
    <3>2. pc[l] = "final" => target \notin {0, Original} /\ Complete(target)
      BY <1>1, <1>4, <2>2 DEF Open, TargetsAreDurable, Complete
    <3>3. CASE target # 0
      BY <1>4, <2>2, <3>1, <3>2, <3>3 DEF Open, Creating, Complete
    <3>4. CASE target = 0
      BY <1>4, <2>2, <3>1, <3>2, <3>4 DEF Open, Creating
    <3> QED
      BY <3>3, <3>4
  <2>3. CASE Validate(l)
    <3>1. pc[l] = "final" => Accepted(l)
      BY <1>4, <2>3 DEF Validate, Accepted
    <3>2. pc[l] \in {"winner", "final"} /\ pc'[l] = "failed" => fault'[l]
      BY <1>4, <2>3, <3>1 DEF Validate
    <3>3. /\ pc'[l] \in {"loaded", "create", "failed"}
          /\ pc'[l] = "create" => fd'[l] = 0
          /\ pc'[l] = "failed" => pc[l] \in {"winner", "final"}
      BY <2>3 DEF Validate
    <3> QED
      BY <3>2, <3>3 DEF Creating
  <2>4. CASE CreateTemp(l)
    <3>1. ~OwnedByCreator(TempName(l))
      BY <1>1, FreshName DEF OwnedByCreator
    <3>2. /\ pc[l] = "create" /\ fd' = fd
          /\ \/ pc'[l] = "write"
             \/ pc'[l] = "cleanup" /\ (fault'[l] = ~OwnedByCreator(TempName(l)) \/ fault'[l] = TRUE)
      BY <2>4 DEF CreateTemp
    <3>3. fd[l] = 0
      BY <1>4, <3>2
    <3> QED
      BY <3>1, <3>2, <3>3 DEF Creating
  <2>5. CASE WriteAll(l) \/ DurableClose(l)
    BY <1>4, <2>5 DEF WriteAll, DurableClose, Creating
  <2>6. CASE AtomicReplace(l)
    <3>1. Entry(temp[l]) /\ temps[temp[l]] = file[l] /\ file[l] \notin {0, Original}
      <4>1. pc[l] \in Writing
        BY <2>6 DEF AtomicReplace, Writing
      <4> QED
        BY <1>1, <4>1 DEF CreatorsOwnFiles, Inode
    <3>2. pc[l] = "replace" /\ pc'[l] = "final" /\ fd'[l] = fd[l] /\ target' = file[l]
      BY <2>6, <3>1 DEF AtomicReplace
    <3>3. fd[l] = 0
      BY <1>4, <3>2 DEF Creating
    <3> QED
      BY <3>1, <3>2, <3>3 DEF Creating
  <2>7. CASE Cleanup(l)
    BY <1>4, <2>7 DEF Cleanup, Creating
  <2> QED
    BY <2>1, <2>2, <2>3, <2>4, <2>5, <2>6, <2>7 DEF Load
<1> QED
  BY <1>5, <1>6 DEF LoadersSucceed

(* A process that dies takes its loaders with it; the others' names stay   *)
(* unique because the new process id is a free one.                        *)
LEMMA CrashKeepsExclusive ==
  ASSUME Types, Types', Exclusive, NEW p \in Proc, Crash(p)
  PROVE  Exclusive'
<1> USE DEF Types, Exclusive
<1>1. \A l \in Loader :
        \/ /\ ProcessOf[l] = p /\ pc'[l] = "idle"
        \/ /\ ProcessOf[l] # p /\ ProcessOf[l] \in Proc
           /\ pc'[l] = pc[l] /\ temp'[l] = temp[l] /\ file'[l] = file[l] /\ fd'[l] = fd[l]
           /\ fault'[l] = fault[l]
           /\ pid'[ProcessOf[l]] = pid[ProcessOf[l]] /\ serial'[ProcessOf[l]] = serial[ProcessOf[l]]
  BY ProcessAssumption DEF Crash, Died
<1>2. DistinctPids(pid') /\ UNCHANGED <<content, target, temps, older>>
  BY DEF Crash, disk
<1>3. NamesAreUnique'
  <2>1. ASSUME NEW l \in Loader, (pc[l] \in Creating)'
        PROVE  /\ pc[l] \in Creating /\ temp'[l] = temp[l]
               /\ temp'[l] \in Pid \X Nat
               /\ temp'[l][1] = pid'[ProcessOf[l]]
               /\ temp'[l][2] < serial'[ProcessOf[l]]
    BY <1>1, <2>1 DEF NamesAreUnique, Creating
  <2> QED
    BY <1>2, <2>1 DEF NamesAreUnique
<1>4. CreatorsOwnFiles'
  <2>1. ASSUME NEW l \in Loader, (pc[l] \in Writing)'
        PROVE  /\ pc[l] \in Writing /\ pc'[l] = pc[l]
               /\ temp'[l] = temp[l] /\ file'[l] = file[l]
    BY <1>1, <2>1 DEF Writing
  <2> QED
    BY <1>2, <2>1 DEF CreatorsOwnFiles, Entry, Inode
<1>5. TargetsAreDurable'
  BY <1>2 DEF TargetsAreDurable
<1>6. LoadersSucceed'
  BY <1>1, <1>2 DEF LoadersSucceed, Complete, Creating
<1> QED
  BY <1>3, <1>4, <1>5, <1>6

(* A power failure tears what was not synced, and leaves or brings back a  *)
(* target that was.                                                        *)
LEMMA PowerFailureKeepsExclusive ==
  ASSUME Types, Types', Exclusive, PowerFailure
  PROVE  Exclusive'
<1> USE DEF Types, Exclusive
<1>1. DistinctPids(pid') /\ \A l \in Loader : pc'[l] = "idle"
  BY DEF PowerFailure, Died
<1>2. NamesAreUnique' /\ CreatorsOwnFiles' /\ LoadersSucceed'
  BY <1>1 DEF NamesAreUnique, CreatorsOwnFiles, LoadersSucceed, Creating, Writing
<1>3. TargetsAreDurable'
  <2>1. target' \in older \cup {target} /\ older' = {}
    BY DEF PowerFailure
  <2>2. ASSUME NEW i \in Inode, content[i] = "durable" PROVE content'[i] = "durable"
    BY <2>2 DEF PowerFailure, Inode
  <2>3. target' \in Inode \cup {0}
    BY <2>1
  <2> QED
    BY <2>1, <2>2, <2>3 DEF TargetsAreDurable, Original
<1> QED
  BY <1>2, <1>3

(* Every step of a loader, every crash and every power failure keeps the   *)
(* invariant.                                                              *)
LEMMA StepIInv == IInv /\ [Next]_vars => IInv'
<1> SUFFICES ASSUME IInv, [Next]_vars PROVE IInv'
  OBVIOUS
<1>1. Types'
  BY StepTypes DEF IInv, CreatorsHaveFiles, Writing
<1>2. LoadedIndexIsComplete' /\ TemporariesAreTemporary' /\ CreatorsHaveFiles'
  BY <1>1, StepLoaded, StepTemporaries, StepCreatorsHaveFiles DEF IInv
<1>3. ASSUME ~shared' PROVE Exclusive'
  <2>1. ~shared /\ Exclusive
    BY <1>3 DEF Next, vars, IInv
  <2>2. ASSUME NEW l \in Loader, Load(l) PROVE Exclusive'
    BY <1>1, <2>1, <2>2, StepNames, StepFiles, StepTargets, StepLoaders DEF IInv, Exclusive
  <2>3. CASE UNCHANGED vars
    BY <2>1, <2>3 DEF vars, disk, Exclusive, NamesAreUnique, CreatorsOwnFiles, TargetsAreDurable,
                      LoadersSucceed, Entry, Inode, Stage, Complete
  <2> QED
    BY <1>1, <2>1, <2>2, <2>3, CrashKeepsExclusive, PowerFailureKeepsExclusive
    DEF Next, Load, IInv
<1> QED
  BY <1>1, <1>2, <1>3 DEF IInv

(* Hence it holds in every state of the directory. *)
LEMMA Inductive == Spec => []IInv
BY InitIInv, StepIInv, PTL DEF Spec

-----------------------------------------------------------------------------
(* A loader that returns an index reads a complete file, whatever raced,   *)
(* crashed or collided, also when process ids are shared.                  *)
THEOREM LoadedIndexesAreComplete == Spec => []LoadedIndexIsComplete
<1>1. IInv => LoadedIndexIsComplete
  BY DEF IInv
<1> QED
  BY <1>1, Inductive, PTL

(* The cache name leads to a torn file only if it did from the start.      *)
THEOREM TargetIsNeverTorn == Spec => []TargetNeverTorn
<1>1. IInv => TargetNeverTorn
  BY DEF IInv, Exclusive, TargetsAreDurable, TargetNeverTorn, Complete
<1> QED
  BY <1>1, Inductive, PTL

(* Racing creators do not make one another fail.                           *)
THEOREM LoadersFailOnlyOnFaults == Spec => []LoadFailsOnlyOnFault
<1>1. IInv => LoadFailsOnlyOnFault
  BY DEF IInv, Exclusive, LoadersSucceed, LoadFailsOnlyOnFault
<1> QED
  BY <1>1, Inductive, PTL

(* Short of a crash, every temporary belongs to a load in progress or      *)
(* could not be removed.                                                   *)
THEOREM NoTemporaryIsLeftBehind == Spec => []TemporariesAreTemporary
<1>1. IInv => TemporariesAreTemporary
  BY DEF IInv
<1> QED
  BY <1>1, Inductive, PTL
=============================================================================
