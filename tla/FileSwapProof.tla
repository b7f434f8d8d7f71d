---------------------------- MODULE FileSwapProof ----------------------------
(***************************************************************************)
(* Proofs about FileSwap for any number of processes, readers, writes,     *)
(* inodes and faults.  The invariant holds until an open overlaps another  *)
(* process's creation or swap (crossed).  That an fsync of a file carries  *)
(* the renames before it is assumed of the file system (Journalled); the   *)
(* model breaks the properties without either.                             *)
(***************************************************************************)
EXTENDS FileSwap, FiniteSetTheorems, TLAPS

Journalled == DirSynced = TRUE

Creating == {"create", "createNew", "createFill", "createCheck", "createRename",
             "openNew", "lockNew"}
Swapping == {"vacRename", "vacReopen", "vacTruncate", "noFile"}
Holding == {"ready", "vacNew", "vacFill", "vacClose", "vacTruncate"}
Labels == {"off", "open", "lock"} \cup Creating \cup Serving

Names == {{}} \cup {{f} : f \in Inodes}
Modes == {"shared", "exclusive"}

(* Every variable has its type; a name is bound to one inode or none.       *)
Typed ==
    /\ dir \in [Paths -> Names] /\ ddir \in [Paths -> Names]
    /\ files \in [Inodes -> [complete : BOOLEAN, uuid : Nat, data : SUBSET Nat]]
    /\ wal \in [uuid : Nat, entries : SUBSET Nat]
    /\ pc \in [Procs -> Labels]
    /\ fd \in [Procs -> Names]
    /\ mem \in [Procs -> SUBSET Nat]
    /\ locked \in [Inodes -> SUBSET (Procs \X Modes)]
    /\ acked \subseteq 1..MaxWrites
    /\ faults \in 0..MaxFaults

(* The three names never lead to one inode, and the temporary ones not to   *)
(* the one a power loss would bring back under the live name.               *)
Apart(d) ==
    /\ d["db"] \cap d["new"] = {} /\ d["db"] \cap d["vac"] = {} /\ d["new"] \cap d["vac"] = {}

NamesApart ==
    /\ Apart(dir) /\ Apart(ddir)
    /\ (dir["new"] \cup dir["vac"]) \cap ddir["db"] = {}
    /\ dir["db"] = {} => ddir["db"] = {}

(* Who creates or swaps is alone; there is no database while one creates    *)
(* it, and there is one for everybody else.                                 *)
Alone == \A p, q \in Procs : p # q /\ pc[p] \in Creating \cup Swapping => pc[q] = "off"

Before == Creating \ {"openNew", "lockNew"}

DbThere ==
    /\ dir["db"] = {} => \A p \in Procs : pc[p] \in {"off"} \cup Before
    /\ \A p \in Procs : pc[p] \in Before => dir["db"] = {}

(* A handle is on the file the path names, and holds its lock.              *)
Handles ==
    \A p \in Procs :
       /\ pc[p] \in Holding \cup {"lock", "lockNew"} => fd[p] = dir["db"]
       /\ pc[p] \in Holding => \A f \in dir["db"] :
             \/ <<p, "exclusive">> \in locked[f]
             \/ p \in Readers /\ <<p, "shared">> \in locked[f]
       /\ pc[p] \in Serving \ {"ready"} => p \notin Readers

LockHolders ==
    \A f \in Inodes, q \in Procs, m \in Modes : <<q, m>> \in locked[f] =>
       \/ pc[q] \in Holding /\ f \in dir["db"]
       \/ pc[q] = "createFill" /\ f \in dir["new"]
       \/ pc[q] = "vacFill" /\ f \in dir["vac"]

LocksCompatible ==
    \A f \in Inodes, q, r \in Procs, m, n \in Modes :
       <<q, m>> \in locked[f] /\ <<r, n>> \in locked[f] /\ q # r => m = "shared" /\ n = "shared"

(* What is renamed onto the live path has been written to its end.          *)
Complete ==
    /\ \A f \in dir["db"] \cup ddir["db"] : files[f].complete
    /\ \A p \in Procs :
          /\ pc[p] \in {"createCheck", "createRename"} => \A f \in dir["new"] : files[f].complete
          /\ pc[p] \in {"vacClose", "vacRename"} =>
                \A f \in dir["vac"] : files[f].complete /\ files[f].data = mem[p]
          /\ pc[p] \in {"vacReopen", "vacTruncate"} => \A f \in dir["db"] : files[f].data = mem[p]

(* The sidecar belongs to the database of the path, if to any.              *)
Identity ==
    /\ \A path \in Paths : \A f \in dir[path] \cup ddir[path] : files[f].uuid # 0
    /\ \A f, g \in dir["db"] \cup ddir["db"] : files[f].uuid = files[g].uuid
    /\ \A p \in Procs : pc[p] \in {"vacFill", "vacClose", "vacRename"} =>
          \A f \in dir["vac"], g \in dir["db"] : files[f].uuid = files[g].uuid
    /\ wal.uuid = 0 => wal.entries = {}
    /\ wal.uuid # 0 => dir["db"] # {} /\ \A f \in dir["db"] : files[f].uuid = wal.uuid
    /\ (\E p \in Procs : pc[p] \in Serving) => wal.uuid # 0

(* What opening a file would serve; both files the path may lead to hold    *)
(* every acknowledged write, and the live one what the processes serve.     *)
Held(f) == files[f].data \cup Entries(f)

Safe ==
    /\ \A f \in dir["db"] \cup ddir["db"] : acked \subseteq Held(f)
    /\ ddir["db"] = {} => acked = {}

Served ==
    \A p \in Procs : pc[p] \in Serving => \A f \in dir["db"] : mem[p] = Held(f)

IInv ==
    /\ Typed /\ NamesApart /\ Alone /\ DbThere /\ Handles /\ LockHolders /\ LocksCompatible
    /\ Complete /\ Identity /\ Safe /\ Served

-----------------------------------------------------------------------------
(* What the helpers of the actions do.                                      *)

(* At most MaxFiles + 1 uuids are in use, and MaxFiles + 2 to choose from.  *)
LEMMA FreshUuidIsThere == ASSUME Typed PROVE FreshUuid \in Nat \ {0}
<1> DEFINE OfInode == [f \in Inodes |-> files[f].uuid]
           Used == {files[f].uuid : f \in Inodes}
<1>1. IsFiniteSet(Inodes) /\ Cardinality(Inodes) = MaxFiles
  BY FileSwapAssumption, FS_Interval DEF Inodes
<1>2. OfInode \in Surjection(Inodes, Used)
  BY DEF Surjection
<1>3. IsFiniteSet(Used) /\ Cardinality(Used) \in Nat /\ Cardinality(Used) <= MaxFiles
  BY <1>1, <1>2, FS_Surjection, FS_CardinalityType
<1>4. /\ IsFiniteSet(Used \cup {wal.uuid})
      /\ Cardinality(Used \cup {wal.uuid}) <= MaxFiles + 1
  <2> HIDE DEF Used
  <2>1. /\ IsFiniteSet(Used \cup {wal.uuid})
        /\ \/ Cardinality(Used \cup {wal.uuid}) = Cardinality(Used)
           \/ Cardinality(Used \cup {wal.uuid}) = Cardinality(Used) + 1
    BY <1>3, FS_AddElement, Zenon
  <2> QED
    BY <1>3, <2>1, FileSwapAssumption
<1>5. Cardinality(1..(MaxFiles + 2)) = MaxFiles + 2
  BY FS_Interval, FileSwapAssumption
<1>6. ~(1..(MaxFiles + 2) \subseteq Used \cup {wal.uuid})
  <2> SUFFICES ASSUME 1..(MaxFiles + 2) \subseteq Used \cup {wal.uuid} PROVE FALSE
    OBVIOUS
  <2>1. Cardinality(1..(MaxFiles + 2)) <= Cardinality(Used \cup {wal.uuid})
    BY <1>4, FS_Subset
  <2> QED
    BY <2>1, <1>4, <1>5, FS_CardinalityType, FileSwapAssumption
<1>7. PICK u \in 1..(MaxFiles + 2) : u # wal.uuid /\ \A f \in Inodes : files[f].uuid # u
  BY <1>6
<1>8. FreshUuid \in 1..(MaxFiles + 2)
  BY <1>7 DEF FreshUuid
<1> QED
  BY <1>8

(* A new file is nobody's yet: no name in either directory and no handle.   *)
NewAt(f, p, path, u) ==
    /\ \A o \in Paths : f \notin dir[o] \cup ddir[o]
    /\ locked[f] = {}
    /\ dir[path] = {} /\ dir'[path] = {f}
    /\ \A o \in Paths \ {path} : dir'[o] = dir[o]
    /\ ~files'[f].complete /\ files'[f].uuid = u
    /\ locked'[f] = {<<p, "exclusive">>}
    /\ \A g \in Inodes \ {f} : files'[g] = files[g] /\ locked'[g] = locked[g]
    /\ dir' \in [Paths -> Names]
    /\ files' \in [Inodes -> [complete : BOOLEAN, uuid : Nat, data : SUBSET Nat]]
    /\ locked' \in [Inodes -> SUBSET (Procs \X Modes)]

(* A file created under a name leads to a fresh inode that no name, lock or *)
(* handle had, and leaves every other file as it was.                       *)
LEMMA NewFile ==
    ASSUME Typed, NEW p \in Procs, NEW path \in Paths, NEW u \in Nat, Created(p, path, u)
    PROVE  \E f \in Inodes : NewAt(f, p, path, u)
<1>1. PICK f \in Inodes :
         /\ ~InUse(f)
         /\ files' = [files EXCEPT ![f] = [complete |-> FALSE, uuid |-> u, data |-> {}]]
         /\ dir' = Bound(path, f)
         /\ locked' = [locked EXCEPT ![f] = {<<p, "exclusive">>}]
  BY DEF Created
<1>2. /\ \A o \in Paths : f \notin dir[o] \cup ddir[o]
      /\ locked[f] = {}
  BY <1>1 DEF InUse
<1>3. /\ dir'[path] = {f} /\ \A o \in Paths \ {path} : dir'[o] = dir[o]
      /\ dir' \in [Paths -> Names]
  BY <1>1 DEF Bound, Typed, Names
<1>4. /\ ~files'[f].complete /\ files'[f].uuid = u
      /\ \A g \in Inodes \ {f} : files'[g] = files[g]
      /\ files' \in [Inodes -> [complete : BOOLEAN, uuid : Nat, data : SUBSET Nat]]
  BY <1>1 DEF Typed
<1>5. /\ locked'[f] = {<<p, "exclusive">>}
      /\ \A g \in Inodes \ {f} : locked'[g] = locked[g]
      /\ locked' \in [Inodes -> SUBSET (Procs \X Modes)]
  BY <1>1 DEF Typed, Modes
<1>6. dir[path] = {}
  BY DEF Created
<1> QED
  BY <1>2, <1>3, <1>4, <1>5, <1>6 DEF NewAt

(* The first checkpoint completes the file its process has locked.          *)
FilledAt(f, p, data) ==
    /\ ~files[f].complete /\ <<p, "exclusive">> \in locked[f]
    /\ files'[f].complete /\ files'[f].data = data /\ files'[f].uuid = files[f].uuid
    /\ locked'[f] = {}
    /\ \A g \in Inodes \ {f} : files'[g] = files[g] /\ locked'[g] = locked[g]
    /\ files' \in [Inodes -> [complete : BOOLEAN, uuid : Nat, data : SUBSET Nat]]
    /\ locked' \in [Inodes -> SUBSET (Procs \X Modes)]
    /\ ddir' = dir

(* Filling a file and letting go of it changes the contents and the lock of *)
(* that file only.                                                          *)
LEMMA FilledFile ==
    ASSUME Journalled, Typed, NEW p \in Procs, NEW data \in SUBSET Nat, Filled(p, data)
    PROVE  \E f \in Inodes : FilledAt(f, p, data)
<1>1. PICK f \in Inodes :
         /\ ~files[f].complete /\ <<p, "exclusive">> \in locked[f]
         /\ files' = [files EXCEPT ![f].complete = TRUE, ![f].data = data]
         /\ locked' = [locked EXCEPT ![f] = {}]
         /\ ddir' = Synced(dir)
  BY DEF Filled
<1>2. files[f] \in [complete : BOOLEAN, uuid : Nat, data : SUBSET Nat]
  BY DEF Typed
<1>3. /\ files'[f].complete /\ files'[f].data = data /\ files'[f].uuid = files[f].uuid
      /\ \A g \in Inodes \ {f} : files'[g] = files[g]
      /\ files' \in [Inodes -> [complete : BOOLEAN, uuid : Nat, data : SUBSET Nat]]
  BY <1>1, <1>2 DEF Typed
<1>4. /\ locked'[f] = {}
      /\ \A g \in Inodes \ {f} : locked'[g] = locked[g]
      /\ locked' \in [Inodes -> SUBSET (Procs \X Modes)]
  BY <1>1 DEF Typed
<1>5. ddir' = dir
  BY <1>1 DEF Journalled, Synced
<1> QED
  BY <1>1, <1>3, <1>4, <1>5 DEF FilledAt

-----------------------------------------------------------------------------
(* Opening and creating.                                                    *)

(* StartOpen: who finds no database creates it, and is alone by then.       *)
LEMMA StartOpenKeeps ==
    ASSUME IInv, NEW p \in Procs, StartOpen(p), ~crossed'
    PROVE  IInv'
<1> USE DEF IInv
<1>1. Typed'
  BY DEF Typed, StartOpen, Goto, Labels, Creating
<1>2. Quiet(p)
  BY DEF StartOpen, Noted
<1>3. Alone'
  <2>1. dir["db"] = {} => \A q \in Procs \ {p} : pc[q] = "off"
    BY <1>2 DEF DbThere, Quiet, Before, Creating
  <2> QED
    BY <1>2, <2>1 DEF Alone, StartOpen, Goto, Quiet, Creating, Swapping, Typed
<1>4. DbThere'
  BY DEF DbThere, Before, StartOpen, Goto, Creating, Typed
<1>5. NamesApart' /\ LocksCompatible' /\ Safe'
  BY DEF NamesApart, Apart, LocksCompatible, Safe, Held, Entries, StartOpen
<1>6. Handles' /\ LockHolders'
  BY DEF Handles, LockHolders, StartOpen, Goto, Holding, Serving, Typed
<1>7. Complete' /\ Identity' /\ Served'
  BY DEF Complete, Identity, Served, Held, Entries, StartOpen, Goto, Serving, Typed
<1> QED
  BY <1>1, <1>3, <1>4, <1>5, <1>6, <1>7

(* RemoveLeftover: only a temporary name is unbound.                        *)
LEMMA RemoveLeftoverKeeps ==
    ASSUME IInv, NEW p \in Procs, RemoveLeftover(p),
           UNCHANGED <<ddir, files, wal, fd, mem, locked, acked, faults>>
    PROVE  IInv'
<1> USE DEF IInv
<1>1. Typed' /\ NamesApart'
  BY DEF Typed, NamesApart, Apart, RemoveLeftover, Unbound, Goto, Labels, Creating, Names, Paths
<1>2. Alone' /\ DbThere'
  BY DEF Alone, DbThere, Before, Creating, Swapping, RemoveLeftover, Unbound, Goto, Typed, Paths
<1>3. Handles' /\ LocksCompatible'
  BY DEF Handles, LocksCompatible, Holding, Serving, RemoveLeftover, Unbound, Goto, Typed, Paths
<1>4. LockHolders'
  BY DEF LockHolders, Alone, Creating, Holding, RemoveLeftover, Unbound, Goto, Typed, Paths
<1>5. Complete'
  BY DEF Complete, RemoveLeftover, Unbound, Goto, Typed, Paths
<1>6. Identity'
  BY DEF Identity, Serving, RemoveLeftover, Unbound, Goto, Typed, Paths
<1>7. Safe' /\ Served'
  BY DEF Safe, Served, Held, Entries, Serving, RemoveLeftover, Unbound, Goto, Typed, Paths
<1> QED
  BY <1>1, <1>2, <1>3, <1>4, <1>5, <1>6, <1>7

(* CreateTemp: the new file is under the temporary name, with a uuid that   *)
(* no sidecar carries.                                                      *)
LEMMA CreateTempKeeps ==
    ASSUME IInv, NEW p \in Procs, CreateTemp(p), UNCHANGED <<ddir, wal, fd, mem, acked, faults>>
    PROVE  IInv'
<1> USE DEF IInv
<1>1. CASE UNCHANGED <<dir, files, locked>> /\ Goto(p, "off")
  <2>1. Typed' /\ NamesApart' /\ Alone' /\ DbThere'
    BY <1>1 DEF Typed, NamesApart, Apart, Alone, DbThere, Before, Creating, Swapping, Goto, Labels
  <2>2. Handles' /\ LockHolders' /\ LocksCompatible'
    BY <1>1 DEF Handles, LockHolders, LocksCompatible, Holding, Serving, Goto, Typed, CreateTemp
  <2>3. Complete' /\ Identity' /\ Safe' /\ Served'
    BY <1>1 DEF Complete, Identity, Safe, Served, Held, Entries, Serving, Goto, Typed
  <2> QED
    BY <2>1, <2>2, <2>3
<1>2. CASE Created(p, "new", FreshUuid) /\ Goto(p, "createFill")
  <2>0. PICK u \in Nat \ {0} : u = FreshUuid
    BY FreshUuidIsThere
  <2>1. PICK f \in Inodes : NewAt(f, p, "new", u)
    <3>1. Created(p, "new", u) /\ "new" \in Paths /\ u \in Nat
      BY <1>2, <2>0 DEF Paths
    <3> QED
      BY <3>1, NewFile
  <2> USE DEF NewAt
  <2>2. pc[p] = "createNew" /\ pc' = [pc EXCEPT ![p] = "createFill"]
    BY <1>2 DEF CreateTemp, Goto
  <2>3. Typed'
    BY <2>1, <2>2 DEF Typed, Labels, Creating
  <2>4. NamesApart'
    BY <2>1 DEF NamesApart, Apart, Paths
  <2>5. Alone' /\ DbThere'
    BY <2>1, <2>2 DEF Alone, DbThere, Before, Creating, Swapping, Typed, Paths
  <2>6. \A g \in Inodes : g \in dir["db"] \cup ddir["db"] => files'[g] = files[g] /\ locked'[g] = locked[g]
    BY <2>1 DEF Paths
  <2>7. dir["db"] \subseteq Inodes /\ ddir["db"] \subseteq Inodes /\ dir'["db"] = dir["db"]
    BY <2>1 DEF Typed, Names, Paths
  <2>8. \A q \in Procs \ {p} : pc[q] = "off" /\ pc'[q] = "off"
    BY <2>2 DEF Alone, Creating, Typed
  <2>9. pc'[p] = "createFill"
    BY <2>2 DEF Typed
  <2>10. Handles'
    BY <2>8, <2>9 DEF Handles, Holding, Serving
  <2>11. LockHolders'
    <3>1. \A g \in Inodes, q \in Procs, m \in Modes : <<q, m>> \notin locked[g]
      BY <2>2, <2>8 DEF LockHolders, Holding
    <3>2. \A g \in Inodes, q \in Procs, m \in Modes : <<q, m>> \in locked'[g] => g = f /\ q = p
      BY <2>1, <3>1
    <3> QED
      BY <2>1, <2>9, <3>2 DEF LockHolders
  <2>12. LocksCompatible'
    BY <2>1 DEF LocksCompatible
  <2>13. Complete'
    BY <2>6, <2>7, <2>8, <2>9 DEF Complete
  <2>14. Identity'
    <3>1. \A o \in Paths : \A g \in dir'[o] \cup ddir'[o] : files'[g].uuid # 0
      <4>1. \A o \in Paths : \A g \in dir[o] \cup ddir[o] : g \in Inodes \ {f}
        BY <2>1 DEF Typed, Names
      <4> QED
        BY <2>1, <2>0, <4>1 DEF Identity
    <3> QED
      BY <2>6, <2>7, <2>8, <2>9, <3>1 DEF Identity, Serving
  <2>15. Safe' /\ Served'
    BY <2>6, <2>7, <2>8, <2>9 DEF Safe, Served, Held, Entries, Serving
  <2> QED
    BY <2>3, <2>4, <2>5, <2>10, <2>11, <2>12, <2>13, <2>14, <2>15
<1> QED
  BY <1>1, <1>2 DEF CreateTemp

(* FillTemp: the first checkpoint completes the file under the temporary    *)
(* name.                                                                    *)
LEMMA FillTempKeeps ==
    ASSUME Journalled, IInv, NEW p \in Procs, FillTemp(p), UNCHANGED <<dir, wal, fd, mem, acked, faults>>
    PROVE  IInv'
<1> USE DEF IInv
<1>1. PICK f \in Inodes : FilledAt(f, p, {})
  BY FilledFile DEF FillTemp
<1> USE DEF FilledAt
<1>2. pc[p] = "createFill" /\ pc' = [pc EXCEPT ![p] = "createCheck"]
  BY DEF FillTemp, Goto
<1>3. pc'[p] = "createCheck" /\ \A q \in Procs \ {p} : pc[q] = "off" /\ pc'[q] = "off"
  BY <1>2 DEF Alone, Creating, Typed
<1>4. f \in dir["new"]
  BY <1>1, <1>2 DEF LockHolders, Holding, Modes, Complete
<1>5. dir["new"] = {f} /\ f \notin dir["db"] /\ dir["db"] \subseteq Inodes
  BY <1>4 DEF NamesApart, Apart, Typed, Names, Paths
<1>6. Typed'
  BY <1>1, <1>2 DEF Typed, Labels, Creating
<1>7. NamesApart' /\ Alone' /\ DbThere'
  BY <1>1, <1>2, <1>3 DEF NamesApart, Apart, Alone, DbThere, Before, Creating, Swapping
<1>8. Handles' /\ LocksCompatible'
  BY <1>1, <1>3 DEF Handles, LocksCompatible, Holding, Serving
<1>9. LockHolders'
  <2>1. \A g \in Inodes \ {f}, q \in Procs, m \in Modes : <<q, m>> \notin locked[g]
    BY <1>2, <1>3, <1>5 DEF LockHolders, Holding
  <2> QED
    BY <1>1, <2>1 DEF LockHolders
<1>10. Complete'
  BY <1>1, <1>3, <1>5 DEF Complete
<1>11. \A g \in Inodes : files'[g].uuid = files[g].uuid
  BY <1>1
<1>12. Identity'
  <2>1. \A o \in Paths : dir[o] \subseteq Inodes
    BY DEF Typed, Names
  <2> QED
    BY <1>1, <1>3, <1>11, <2>1 DEF Identity, Serving, Paths
<1>13. Safe' /\ Served'
  BY <1>1, <1>3, <1>5 DEF Safe, Served, Held, Entries, Serving, NamesApart
<1> QED
  BY <1>6, <1>7, <1>8, <1>9, <1>10, <1>12, <1>13

(* CheckAbsent: the path is still unbound, as its creator is alone.         *)
LEMMA CheckAbsentKeeps ==
    ASSUME IInv, NEW p \in Procs, CheckAbsent(p),
           UNCHANGED <<ddir, files, wal, fd, mem, locked, acked, faults>>
    PROVE  IInv'
<1> USE DEF IInv
<1>1. pc[p] = "createCheck" /\ \A q \in Procs \ {p} : pc[q] = "off"
  BY DEF CheckAbsent, Alone, Creating
<1>2. /\ pc' \in [Procs -> Labels]
      /\ pc'[p] \in {"off", "createRename"} /\ (pc'[p] # "off" => dir["db"] = {})
      /\ \A q \in Procs \ {p} : pc'[q] = "off"
  <2>1. pc' = [pc EXCEPT ![p] = IF dir["db"] # {} THEN "off" ELSE "createRename"]
    BY DEF CheckAbsent, Goto
  <2> QED
    BY <1>1, <2>1 DEF Typed, Labels, Creating
<1>3. /\ dir' \in [Paths -> Names] /\ dir'["new"] \subseteq dir["new"]
      /\ dir'["db"] = dir["db"] /\ dir'["vac"] = dir["vac"]
  BY DEF CheckAbsent, Unbound, Typed, Paths, Names
<1>4. Typed'
  BY <1>2, <1>3 DEF Typed
<1>5. NamesApart' /\ LocksCompatible' /\ Safe'
  BY <1>3 DEF NamesApart, Apart, LocksCompatible, Safe, Held, Entries
<1>6. Alone' /\ DbThere'
  BY <1>2, <1>3 DEF Alone, DbThere, Before, Creating, Swapping
<1>7. Handles' /\ Served'
  BY <1>2, <1>3 DEF Handles, Served, Holding, Serving
<1>8. LockHolders'
  BY <1>1 DEF LockHolders, Holding
<1>9. Complete'
  BY <1>1, <1>2, <1>3 DEF Complete
<1>10. Identity'
  BY <1>2, <1>3 DEF Identity, Serving, Paths
<1> QED
  BY <1>4, <1>5, <1>6, <1>7, <1>8, <1>9, <1>10

(* InstallTemp: what takes the path is complete and empty, and nothing was  *)
(* acknowledged before it.                                                  *)
LEMMA InstallTempKeeps ==
    ASSUME IInv, NEW p \in Procs, InstallTemp(p),
           UNCHANGED <<ddir, files, wal, fd, mem, locked, acked, faults>>
    PROVE  IInv'
<1> USE DEF IInv
<1>1. pc[p] = "createRename" /\ \A q \in Procs \ {p} : pc[q] = "off"
  BY DEF InstallTemp, Alone, Creating
<1>2. CASE dir["new"] = {}
  <2>1. dir' = dir /\ pc' = [pc EXCEPT ![p] = "off"]
    BY <1>2 DEF InstallTemp, Goto
  <2>2. \A q \in Procs : pc'[q] = "off"
    BY <1>1, <2>1 DEF Typed
  <2>3. Typed' /\ NamesApart' /\ Alone' /\ DbThere'
    BY <2>1, <2>2 DEF Typed, Labels, NamesApart, Apart, Alone, DbThere, Before, Creating, Swapping
  <2>4. Handles' /\ LocksCompatible' /\ LockHolders'
    BY <1>1, <2>1, <2>2 DEF Handles, LocksCompatible, LockHolders, Holding, Serving
  <2>5. Complete' /\ Identity' /\ Safe' /\ Served'
    BY <2>1, <2>2 DEF Complete, Identity, Safe, Served, Held, Entries, Serving
  <2> QED
    BY <2>3, <2>4, <2>5
<1>3. CASE dir["new"] # {}
  <2>1. /\ dir' \in [Paths -> Names] /\ dir'["db"] = dir["new"] /\ dir'["new"] = {}
        /\ dir'["vac"] = dir["vac"]
        /\ pc' = [pc EXCEPT ![p] = "openNew"]
    BY <1>3 DEF InstallTemp, Renamed, Goto, Typed, Paths, Names
  <2>2. pc'[p] = "openNew" /\ \A q \in Procs \ {p} : pc'[q] = "off"
    BY <1>1, <2>1 DEF Typed
  <2>3. dir["db"] = {} /\ ddir["db"] = {}
    BY <1>1 DEF DbThere, Before, Creating, NamesApart
  <2>4. acked = {} /\ wal.uuid = 0 /\ wal.entries = {}
    BY <2>3 DEF Safe, Identity
  <2>5. Typed' /\ NamesApart' /\ Alone' /\ DbThere'
    BY <1>1, <1>3, <2>1, <2>2, <2>3
    DEF Typed, Labels, NamesApart, Apart, Alone, DbThere, Before, Creating, Swapping
  <2>6. Handles' /\ LocksCompatible'
    BY <2>2 DEF Handles, LocksCompatible, Holding, Serving
  <2>7. LockHolders'
    BY <1>1 DEF LockHolders, Holding
  <2>8. Complete'
    BY <1>1, <2>1, <2>2, <2>3 DEF Complete
  <2>9. Identity'
    BY <2>1, <2>2, <2>3, <2>4 DEF Identity, Serving, Paths, Typed, Names
  <2>10. Safe' /\ Served'
    BY <2>2, <2>3, <2>4 DEF Safe, Served, Serving
  <2> QED
    BY <2>5, <2>6, <2>7, <2>8, <2>9, <2>10
<1> QED
  BY <1>2, <1>3

(* OpenFile: the handle is on the file the path names now.                  *)
LEMMA OpenFileKeeps ==
    ASSUME IInv, NEW p \in Procs, OpenFile(p),
           UNCHANGED <<dir, ddir, files, wal, mem, locked, acked, faults>>
    PROVE  IInv'
<1> USE DEF IInv
<1>1. /\ pc[p] \in {"open", "openNew"} /\ dir["db"] # {}
      /\ pc' = [pc EXCEPT ![p] = IF pc[p] = "open" THEN "lock" ELSE "lockNew"]
      /\ fd' = [fd EXCEPT ![p] = dir["db"]]
  BY DEF OpenFile, Goto, DbThere, Before, Creating
<1>2. Typed'
  BY <1>1 DEF Typed, Labels, Creating, Paths
<1>3. NamesApart' /\ LocksCompatible' /\ Safe'
  BY DEF NamesApart, Apart, LocksCompatible, Safe, Held, Entries
<1>4. Alone' /\ DbThere'
  BY <1>1 DEF Alone, DbThere, Before, Creating, Swapping, Typed
<1>5. Handles' /\ LockHolders'
  BY <1>1 DEF Handles, LockHolders, Holding, Serving, Typed
<1>6. Complete' /\ Identity' /\ Served'
  BY <1>1 DEF Complete, Identity, Served, Held, Entries, Serving, Typed
<1> QED
  BY <1>2, <1>3, <1>4, <1>5, <1>6

(* LockAndLoad: the lock is compatible with those held, and the memory is   *)
(* what the file and its sidecar hold.                                      *)
LEMMA LockAndLoadKeeps ==
    ASSUME IInv, NEW p \in Procs, NEW f \in fd[p], pc[p] \in {"lock", "lockNew"},
           LockAndLoad(p, f), UNCHANGED <<dir, ddir, files, acked, faults>>
    PROVE  IInv'
<1> USE DEF IInv
<1>1. f \in Inodes /\ dir["db"] = {f} /\ fd[p] = {f}
  <2>1. fd[p] = dir["db"]
    BY DEF Handles
  <2> QED
    BY <2>1 DEF Typed, Names
<1>2. CASE UNCHANGED <<locked, wal, mem>> /\ Goto(p, "off") /\ fd' = [fd EXCEPT ![p] = {}]
  <2>1. Typed' /\ NamesApart' /\ Alone' /\ DbThere'
    BY <1>2 DEF Typed, Names, NamesApart, Apart, Alone, DbThere, Before, Creating, Swapping, Goto, Labels
  <2>2. Handles' /\ LockHolders' /\ LocksCompatible'
    BY <1>2 DEF Handles, LockHolders, LocksCompatible, Holding, Serving, Goto, Typed
  <2>3. Complete' /\ Identity' /\ Safe' /\ Served'
    BY <1>2 DEF Complete, Identity, Safe, Served, Held, Entries, Serving, Goto, Typed
  <2> QED
    BY <2>1, <2>2, <2>3
<1>3. CASE /\ Lockable(p, f) /\ UNCHANGED fd /\ Goto(p, "ready")
           /\ locked' = [locked EXCEPT ![f] = @ \cup {<<p, Mode(p)>>}]
           /\ mem' = [mem EXCEPT ![p] = files[f].data \cup Entries(f)]
           /\ wal' = IF wal.uuid = 0 THEN [uuid |-> files[f].uuid, entries |-> {}] ELSE wal
  <2>1. /\ Mode(p) \in Modes /\ (Mode(p) = "shared" => p \in Readers)
        /\ \A q \in Procs, m \in Modes : <<q, m>> \in locked[f] => m = "shared" /\ Mode(p) = "shared"
    BY <1>3 DEF Mode, Modes, Lockable
  <2>2. /\ locked' \in [Inodes -> SUBSET (Procs \X Modes)]
        /\ locked'[f] = locked[f] \cup {<<p, Mode(p)>>}
        /\ \A g \in Inodes \ {f} : locked'[g] = locked[g]
    BY <1>1, <1>3, <2>1 DEF Typed
  <2>3. files[f].uuid \in Nat \ {0} /\ files[f].data \in SUBSET Nat
    BY <1>1 DEF Identity, Typed, Paths
  <2>4. /\ wal' \in [uuid : Nat, entries : SUBSET Nat]
        /\ wal'.uuid = files[f].uuid /\ wal'.entries = wal.entries
        /\ wal.entries # {} => wal.uuid = files[f].uuid
    BY <1>1, <1>3, <2>3 DEF Identity, Typed
  <2>5. mem' \in [Procs -> SUBSET Nat] /\ mem'[p] = Held(f) /\ \A q \in Procs \ {p} : mem'[q] = mem[q]
    BY <1>3, <2>3 DEF Typed, Held, Entries
  <2>6. pc' = [pc EXCEPT ![p] = "ready"] /\ pc' \in [Procs -> Labels]
    BY <1>3 DEF Goto, Typed, Labels, Serving
  <2>7. \A g \in dir["db"] \cup ddir["db"] : g \in Inodes /\ files[g].uuid = files[f].uuid
    BY <1>1 DEF Identity, Typed, Names, Paths
  <2>8. \A g \in dir["db"] \cup ddir["db"] : Held(g)' = Held(g)
    BY <2>4, <2>7 DEF Held, Entries
  <2>9. Typed'
    BY <1>3, <2>2, <2>4, <2>5, <2>6 DEF Typed
  <2>10. NamesApart' /\ Alone' /\ DbThere'
    BY <1>1, <2>6 DEF NamesApart, Apart, Alone, DbThere, Before, Creating, Swapping, Typed
  <2>11. Handles'
    BY <1>1, <1>3, <2>1, <2>2, <2>6 DEF Handles, Holding, Serving, Modes, Typed
  <2>12. LockHolders'
    BY <1>1, <2>2, <2>6 DEF LockHolders, Holding, Typed
  <2>13. LocksCompatible'
    BY <2>1, <2>2 DEF LocksCompatible
  <2>14. Complete'
    BY <2>5, <2>6 DEF Complete, Typed
  <2>15. Identity'
    BY <1>1, <2>3, <2>4, <2>6 DEF Identity, Typed
  <2>16. Safe'
    BY <2>8 DEF Safe
  <2>17. Served'
    BY <1>1, <2>5, <2>6, <2>8 DEF Served, Typed
  <2> QED
    BY <2>9, <2>10, <2>11, <2>12, <2>13, <2>14, <2>15, <2>16, <2>17
<1> QED
  BY <1>2, <1>3 DEF LockAndLoad

-----------------------------------------------------------------------------
(* The life of a handle.                                                    *)

(* A process that serves the database for writing is the only one that does.*)
LEMMA OneWriter ==
    ASSUME IInv, NEW p \in Procs, pc[p] \in Serving, p \notin Readers, NEW q \in Procs \ {p}
    PROVE  pc[q] \notin Serving
<1> USE DEF IInv
<1>1. CASE pc[p] \in Swapping \/ pc[q] \in Swapping
  BY <1>1 DEF Alone, Serving
<1>2. CASE pc[p] \in Holding /\ pc[q] \in Holding
  <2>1. PICK f \in Inodes : f \in dir["db"]
    BY <1>2 DEF DbThere, Before, Creating, Holding, Typed, Names, Paths
  <2> QED
    BY <1>2, <2>1 DEF Handles, LocksCompatible, Modes
<1> QED
  BY <1>1, <1>2 DEF Serving, Holding, Swapping

(* Write: the entry is in the sidecar before it is acknowledged, under the  *)
(* uuid of the live file.                                                   *)
LEMMA WriteKeeps ==
    ASSUME Journalled, IInv, NEW p \in Procs, Write(p)
    PROVE  IInv'
<1> USE DEF IInv
<1> DEFINE w == Cardinality(acked) + 1
<1>1. w \in Nat /\ w \in 1..MaxWrites
  <2>1. IsFiniteSet(1..MaxWrites) /\ acked \in SUBSET (1..MaxWrites)
    BY FS_Interval, FileSwapAssumption DEF Typed
  <2>2. IsFiniteSet(acked)
    BY <2>1, FS_Subset
  <2> QED
    BY <2>2, FS_CardinalityType, FileSwapAssumption DEF Write
<1>2. /\ wal' = [wal EXCEPT !.entries = @ \cup {w}]
      /\ mem' = [mem EXCEPT ![p] = @ \cup {w}]
      /\ acked' = acked \cup {w}
      /\ ddir' = dir /\ UNCHANGED <<dir, files, pc, fd, locked, faults>>
      /\ pc[p] \in {"ready", "noFile"} /\ p \notin Readers
  BY DEF Journalled, Write, Synced
<1> HIDE DEF w
<1>3. wal'.uuid = wal.uuid /\ wal'.entries = wal.entries \cup {w}
  BY <1>2 DEF Typed
<1>4. Typed'
  BY <1>1, <1>2, FileSwapAssumption DEF Typed
<1>5. dir["db"] # {} /\ wal.uuid # 0
  BY <1>2 DEF DbThere, Before, Creating, Identity, Serving
<1>6. \A f \in dir["db"] : Held(f)' = Held(f) \cup {w}
  BY <1>2, <1>3, <1>5 DEF Held, Entries, Identity
<1>7. NamesApart' /\ Alone' /\ DbThere' /\ Handles' /\ LockHolders' /\ LocksCompatible'
  BY <1>2 DEF NamesApart, Apart, Alone, DbThere, Handles, LockHolders, LocksCompatible
<1>8. Complete'
  BY <1>2 DEF Complete, Alone, Swapping, Typed
<1>9. Identity'
  BY <1>2, <1>3, <1>5 DEF Identity
<1>10. Safe'
  BY <1>2, <1>5, <1>6 DEF Safe
<1>11. Served'
  BY <1>2, <1>6, OneWriter DEF Served, Serving, Typed
<1> QED
  BY <1>4, <1>7, <1>8, <1>9, <1>10, <1>11

(* Checkpoint: the live file holds the memory before the sidecar is         *)
(* emptied.                                                                 *)
LEMMA CheckpointKeeps ==
    ASSUME Journalled, IInv, NEW p \in Procs, Checkpoint(p)
    PROVE  IInv'
<1> USE DEF IInv
<1>1. PICK f \in fd[p] : files' = [files EXCEPT ![f].data = mem[p]] /\ wal' = Emptied(f)
  BY DEF Checkpoint
<1>2. /\ ddir' = dir /\ UNCHANGED <<dir, pc, fd, mem, locked, acked, faults>>
      /\ pc[p] = "ready" /\ p \notin Readers
  BY DEF Journalled, Checkpoint, Synced
<1>3. f \in Inodes /\ dir["db"] = {f}
  <2>1. fd[p] = dir["db"]
    BY <1>2 DEF Handles, Holding
  <2> QED
    BY <2>1 DEF Typed, Names
<1>4. files[f] \in [complete : BOOLEAN, uuid : Nat, data : SUBSET Nat] /\ mem[p] \in SUBSET Nat
  BY <1>3 DEF Typed
<1>5. /\ files' \in [Inodes -> [complete : BOOLEAN, uuid : Nat, data : SUBSET Nat]]
      /\ files'[f].data = mem[p]
      /\ \A g \in Inodes : files'[g].complete = files[g].complete /\ files'[g].uuid = files[g].uuid
      /\ \A g \in Inodes \ {f} : files'[g] = files[g]
  BY <1>1, <1>3, <1>4 DEF Typed
<1>6. wal' \in [uuid : Nat, entries : SUBSET Nat] /\ wal'.uuid = files[f].uuid /\ wal'.entries = {}
  BY <1>1, <1>4 DEF Emptied
<1>7. files[f].uuid # 0 /\ dir["vac"] \subseteq Inodes \ {f}
  BY <1>3 DEF Identity, NamesApart, Apart, Typed, Names, Paths
<1>8. Typed'
  BY <1>2, <1>5, <1>6 DEF Typed
<1>9. NamesApart' /\ Alone' /\ DbThere' /\ Handles' /\ LockHolders' /\ LocksCompatible'
  BY <1>2 DEF NamesApart, Apart, Alone, DbThere, Handles, LockHolders, LocksCompatible
<1>10. Complete'
  <2>1. \A g \in dir["db"] \cup dir["new"] \cup dir["vac"] : g \in Inodes
    BY DEF Typed, Names, Paths
  <2>2. \A q \in Procs : pc[q] \notin {"vacReopen", "vacTruncate"}
    BY <1>2 DEF Alone, Swapping
  <2> QED
    BY <1>2, <1>5, <1>7, <2>1, <2>2 DEF Complete
<1>11. Identity'
  <2>1. \A path \in Paths : \A g \in dir[path] : g \in Inodes
    BY DEF Typed, Names
  <2> QED
    BY <1>2, <1>3, <1>5, <1>6, <1>7, <2>1 DEF Identity, Paths
<1>12. Held(f)' = mem[p] /\ Held(f) = mem[p]
  BY <1>2, <1>3, <1>5, <1>6 DEF Held, Entries, Served, Serving
<1>13. Safe'
  BY <1>2, <1>3, <1>12 DEF Safe
<1>14. Served'
  BY <1>2, <1>3, <1>12, OneWriter DEF Served, Serving
<1> QED
  BY <1>8, <1>9, <1>10, <1>11, <1>13, <1>14

(* A process that ends takes its handle, its memory and its locks along,    *)
(* and nothing on disk.                                                     *)
LEMMA GoneKeeps ==
    ASSUME IInv, NEW p \in Procs, Gone(p), UNCHANGED <<dir, ddir, files, wal, acked>>,
           faults' \in 0..MaxFaults, pc[p] # "off"
    PROVE  IInv'
<1> USE DEF IInv
<1>1. /\ pc' = [pc EXCEPT ![p] = "off"] /\ pc' \in [Procs -> Labels]
      /\ fd' = [fd EXCEPT ![p] = {}] /\ fd' \in [Procs -> Names]
      /\ mem' = [mem EXCEPT ![p] = {}] /\ mem' \in [Procs -> SUBSET Nat]
  BY DEF Gone, Goto, Typed, Labels, Names
<1>2. /\ locked' \in [Inodes -> SUBSET (Procs \X Modes)]
      /\ \A g \in Inodes, q \in Procs, m \in Modes :
            <<q, m>> \in locked'[g] <=> <<q, m>> \in locked[g] /\ q # p
  BY DEF Gone, Unlocked, Typed, Modes
<1>3. Typed'
  BY <1>1, <1>2 DEF Typed
<1>4. NamesApart' /\ Safe'
  BY DEF NamesApart, Apart, Safe, Held, Entries
<1>5. Alone' /\ DbThere'
  BY <1>1 DEF Alone, DbThere, Before, Creating, Swapping, Typed
<1>6. Handles'
  <2>1. dir["db"] \subseteq Inodes
    BY DEF Typed, Names, Paths
  <2>2. \A q \in Procs : pc'[q] # "off" => q # p /\ pc'[q] = pc[q] /\ fd'[q] = fd[q]
    BY <1>1 DEF Typed
  <2> QED
    BY <1>2, <2>1, <2>2 DEF Handles, Holding, Serving, Modes
<1>7. LockHolders' /\ LocksCompatible'
  BY <1>1, <1>2 DEF LockHolders, LocksCompatible, Holding, Typed
<1>8. Complete' /\ Identity'
  BY <1>1 DEF Complete, Identity, Serving, Typed
<1>9. Served'
  BY <1>1 DEF Served, Serving, Held, Entries, Typed
<1> QED
  BY <1>3, <1>4, <1>5, <1>6, <1>7, <1>8, <1>9

-----------------------------------------------------------------------------
(* Vacuum.                                                                  *)

(* StartVacuum: the swap begins with the leftover of an earlier one         *)
(* removed.                                                                 *)
LEMMA StartVacuumKeeps ==
    ASSUME IInv, NEW p \in Procs, StartVacuum(p)
    PROVE  IInv'
<1> USE DEF IInv
<1>1. /\ pc[p] = "ready" /\ p \notin Readers
      /\ dir' = [dir EXCEPT !["vac"] = {}] /\ pc' = [pc EXCEPT ![p] = "vacNew"]
      /\ UNCHANGED <<ddir, files, wal, fd, mem, locked, acked, faults>>
  BY DEF StartVacuum, Unbound, Goto
<1>2. Typed'
  BY <1>1 DEF Typed, Labels, Serving, Names
<1>3. /\ dir'["db"] = dir["db"] /\ dir'["new"] = dir["new"] /\ dir'["vac"] = {}
      /\ pc'[p] = "vacNew" /\ \A q \in Procs \ {p} : pc'[q] = pc[q]
  BY <1>1 DEF Typed, Paths
<1>4. NamesApart' /\ LocksCompatible' /\ Safe'
  BY <1>1, <1>3 DEF NamesApart, Apart, LocksCompatible, Safe, Held, Entries
<1>5. Alone' /\ DbThere'
  BY <1>1, <1>3 DEF Alone, DbThere, Before, Creating, Swapping
<1>6. Handles' /\ Served'
  BY <1>1, <1>3 DEF Handles, Served, Held, Entries, Holding, Serving
<1>7. LockHolders'
  BY <1>1, <1>3, OneWriter DEF LockHolders, Holding, Serving
<1>8. Complete'
  BY <1>1, <1>3 DEF Complete
<1>9. Identity'
  BY <1>1, <1>3 DEF Identity, Serving, Paths
<1> QED
  BY <1>2, <1>4, <1>5, <1>6, <1>7, <1>8, <1>9

(* CreateVac: the compacted file has an inode of its own and the database's *)
(* uuid.                                                                    *)
LEMMA CreateVacKeeps ==
    ASSUME IInv, NEW p \in Procs, CreateVac(p)
    PROVE  IInv'
<1> USE DEF IInv
<1>1. pc[p] = "vacNew" /\ p \notin Readers /\ UNCHANGED <<ddir, wal, fd, mem, acked, faults>>
  BY DEF CreateVac, Handles, Serving
<1>2. CASE UNCHANGED <<dir, files, locked>> /\ Goto(p, "ready")
  <2>1. pc' = [pc EXCEPT ![p] = "ready"]
    BY <1>2 DEF Goto
  <2>2. Typed' /\ NamesApart' /\ Alone' /\ DbThere'
    BY <1>1, <1>2, <2>1
    DEF Typed, Labels, Serving, NamesApart, Apart, Alone, DbThere, Before, Creating, Swapping
  <2>3. Handles' /\ LockHolders' /\ LocksCompatible'
    BY <1>1, <1>2, <2>1 DEF Handles, LockHolders, LocksCompatible, Holding, Serving, Typed
  <2>4. Complete' /\ Identity' /\ Safe' /\ Served'
    BY <1>1, <1>2, <2>1 DEF Complete, Identity, Safe, Served, Held, Entries, Serving, Typed
  <2> QED
    BY <2>2, <2>3, <2>4
<1>3. CASE \E f \in fd[p] : Created(p, "vac", files[f].uuid) /\ Goto(p, "vacFill")
  <2>1. PICK d \in fd[p] : Created(p, "vac", files[d].uuid) /\ Goto(p, "vacFill")
    BY <1>3
  <2>2. d \in Inodes /\ dir["db"] = {d} /\ files[d].uuid \in Nat \ {0}
    <3>1. fd[p] = dir["db"]
      BY <1>1 DEF Handles, Holding
    <3> QED
      BY <3>1 DEF Typed, Names, Identity, Paths
  <2>0. PICK u \in Nat \ {0} : u = files[d].uuid
    BY <2>2
  <2>3. PICK f \in Inodes : NewAt(f, p, "vac", u)
    <3>1. Created(p, "vac", u) /\ "vac" \in Paths /\ u \in Nat
      BY <2>0, <2>1 DEF Paths
    <3> QED
      BY <3>1, NewFile
  <2> USE DEF NewAt
  <2>4. pc' = [pc EXCEPT ![p] = "vacFill"]
    BY <2>1 DEF Goto
  <2>5. pc'[p] = "vacFill" /\ \A q \in Procs \ {p} : pc'[q] = pc[q]
    BY <2>4 DEF Typed
  <2>6. \A q \in Procs \ {p} : pc[q] \notin Serving
    BY <1>1, OneWriter DEF Serving
  <2>7. \A o \in Paths : \A g \in dir[o] \cup ddir[o] :
           g \in Inodes \ {f} /\ files'[g] = files[g] /\ locked'[g] = locked[g]
    BY <2>3 DEF Typed, Names
  <2>8. dir'["db"] = dir["db"] /\ dir'["new"] = dir["new"]
    BY <2>3 DEF Paths
  <2>9. Typed'
    BY <1>1, <2>3, <2>4 DEF Typed, Labels, Serving
  <2>10. NamesApart'
    BY <1>1, <2>3, <2>8 DEF NamesApart, Apart, Paths
  <2>11. Alone' /\ DbThere'
    BY <1>1, <2>5, <2>8 DEF Alone, DbThere, Before, Creating, Swapping
  <2>12. Handles'
    BY <1>1, <2>5, <2>6, <2>7, <2>8 DEF Handles, Holding, Serving, Paths
  <2>13. LockHolders'
    <3>1. \A q \in Procs, m \in Modes : <<q, m>> \in locked'[f] => q = p
      BY <2>3
    <3> QED
      BY <1>1, <2>3, <2>5, <2>8, <3>1 DEF LockHolders, Holding
  <2>14. LocksCompatible'
    BY <2>3 DEF LocksCompatible
  <2>15. Complete'
    BY <1>1, <2>5, <2>6, <2>7, <2>8 DEF Complete, Serving, Paths
  <2>16. Identity'
    <3>1. \A o \in Paths : \A g \in dir'[o] \cup ddir'[o] : files'[g].uuid # 0
      BY <1>1, <2>3, <2>7 DEF Identity
    <3>2. \A g \in dir["db"] \cup ddir["db"] : files'[g] = files[g]
      BY <2>7 DEF Paths
    <3> QED
      BY <1>1, <2>0, <2>2, <2>3, <2>5, <2>6, <2>8, <3>1, <3>2 DEF Identity, Serving
  <2>17. Safe' /\ Served'
    BY <1>1, <2>5, <2>7, <2>8 DEF Safe, Served, Held, Entries, Serving, Paths
  <2> QED
    BY <2>9, <2>10, <2>11, <2>12, <2>13, <2>14, <2>15, <2>16, <2>17
<1> QED
  BY <1>2, <1>3 DEF CreateVac

(* FillVac: the compacted file is complete and holds the memory.            *)
LEMMA FillVacKeeps ==
    ASSUME Journalled, IInv, NEW p \in Procs, FillVac(p)
    PROVE  IInv'
<1> USE DEF IInv
<1>1. /\ pc[p] = "vacFill" /\ p \notin Readers
      /\ UNCHANGED <<dir, wal, fd, mem, acked>> /\ mem[p] \in SUBSET Nat
  BY DEF FillVac, Handles, Serving, Typed
<1>2. \A q \in Procs \ {p} : pc[q] \notin Serving /\ pc[q] \notin Creating
  BY <1>1, OneWriter DEF Serving, Alone
<1>3. CASE Filled(p, mem[p]) /\ Goto(p, "vacClose") /\ UNCHANGED faults
  <2>0. PICK m \in SUBSET Nat : m = mem[p]
    BY <1>1
  <2>1. PICK f \in Inodes : FilledAt(f, p, m) /\ m = mem[p]
    <3>1. Filled(p, m)
      BY <1>3, <2>0
    <3> QED
      BY <2>0, <3>1, FilledFile
  <2> USE DEF FilledAt
  <2>2. pc' = [pc EXCEPT ![p] = "vacClose"]
    BY <1>3 DEF Goto
  <2>3. pc'[p] = "vacClose" /\ \A q \in Procs \ {p} : pc'[q] = pc[q]
    BY <2>2 DEF Typed
  <2>4. f \in dir["vac"]
    BY <1>1, <2>1 DEF LockHolders, Modes, Complete
  <2>5. dir["vac"] = {f} /\ f \notin dir["db"] /\ f \notin dir["new"] /\ dir["db"] \subseteq Inodes
    BY <2>4 DEF NamesApart, Apart, Typed, Names, Paths
  <2>6. Typed'
    BY <1>1, <1>3, <2>1, <2>2 DEF Typed, Labels, Serving
  <2>7. NamesApart'
    BY <1>1, <2>1 DEF NamesApart, Apart
  <2>8. Alone' /\ DbThere'
    BY <1>1, <2>3 DEF Alone, DbThere, Before, Creating, Swapping
  <2>9. Handles'
    BY <1>1, <2>1, <2>3, <2>5 DEF Handles, Holding, Serving
  <2>10. LockHolders'
    BY <1>1, <1>2, <2>1, <2>3, <2>5 DEF LockHolders, Holding, Creating, Serving
  <2>11. LocksCompatible'
    BY <2>1 DEF LocksCompatible
  <2>12. Complete'
    BY <1>1, <1>2, <2>1, <2>3, <2>5 DEF Complete, Serving, Creating
  <2>13. \A g \in Inodes : files'[g].uuid = files[g].uuid
    BY <2>1
  <2>14. \A o \in Paths : dir[o] \subseteq Inodes
    BY DEF Typed, Names
  <2>15. Identity'
    BY <1>1, <1>2, <2>1, <2>3, <2>13, <2>14 DEF Identity, Serving, Paths
  <2>16. Safe' /\ Served'
    BY <1>1, <2>1, <2>3, <2>5 DEF Safe, Served, Held, Entries, Serving, NamesApart
  <2> QED
    BY <2>6, <2>7, <2>8, <2>9, <2>10, <2>11, <2>12, <2>15, <2>16
<1>4. CASE /\ faults < MaxFaults /\ faults' = faults + 1 /\ UNCHANGED <<ddir, files>>
           /\ locked' = [f \in Inodes |-> IF f \in dir["vac"] THEN {} ELSE locked[f]]
           /\ Goto(p, "ready")
  <2>1. pc' = [pc EXCEPT ![p] = "ready"]
    BY <1>4 DEF Goto
  <2>2. pc'[p] = "ready" /\ \A q \in Procs \ {p} : pc'[q] = pc[q]
    BY <2>1 DEF Typed
  <2>3. locked' \in [Inodes -> SUBSET (Procs \X Modes)]
    BY <1>4 DEF Typed
  <2>4. /\ \A g \in Inodes : locked'[g] \subseteq locked[g] /\ (g \in dir["vac"] => locked'[g] = {})
        /\ \A g \in dir["db"] : g \in Inodes /\ locked'[g] = locked[g]
    BY <1>4 DEF NamesApart, Apart, Typed, Names, Paths
  <2>5. Typed'
    BY <1>1, <1>4, <2>1, <2>3, FileSwapAssumption DEF Typed, Labels, Serving
  <2>6. NamesApart' /\ Alone' /\ DbThere'
    BY <1>1, <1>4, <2>2 DEF NamesApart, Apart, Alone, DbThere, Before, Creating, Swapping
  <2>7. Handles'
    BY <1>1, <2>2, <2>4 DEF Handles, Holding, Serving
  <2>8. LockHolders' /\ LocksCompatible'
    BY <1>1, <2>2, <2>4 DEF LockHolders, LocksCompatible, Holding
  <2>9. Complete' /\ Identity' /\ Safe' /\ Served'
    BY <1>1, <1>4, <2>2 DEF Complete, Identity, Safe, Served, Held, Entries, Serving
  <2> QED
    BY <2>5, <2>6, <2>7, <2>8, <2>9
<1> QED
  BY <1>3, <1>4 DEF FillVac

(* CloseFile: the handle and the lock are gone, and nobody else may take it *)
(* up.                                                                      *)
LEMMA CloseFileKeeps ==
    ASSUME IInv, NEW p \in Procs, CloseFile(p), ~crossed'
    PROVE  IInv'
<1> USE DEF IInv
<1>1. /\ pc[p] = "vacClose" /\ p \notin Readers /\ Settled(p)
      /\ UNCHANGED <<dir, ddir, files, wal, mem, acked, faults>>
  BY DEF CloseFile, Noted, Handles, Serving
<1>2. \A q \in Procs \ {p} : pc[q] = "off"
  BY <1>1, OneWriter DEF Settled, Serving
<1>3. pc' = [pc EXCEPT ![p] = "vacRename"] /\ fd' = [fd EXCEPT ![p] = {}]
  BY DEF CloseFile, Goto
<1>4. pc'[p] = "vacRename" /\ \A q \in Procs \ {p} : pc'[q] = "off"
  BY <1>2, <1>3 DEF Typed
<1>5. /\ locked' \in [Inodes -> SUBSET (Procs \X Modes)]
      /\ \A g \in Inodes, q \in Procs, m \in Modes : <<q, m>> \notin locked'[g]
  <2>1. \A g \in Inodes, q \in Procs, m \in Modes : <<q, m>> \in locked[g] => q = p
    BY <1>2 DEF LockHolders, Holding
  <2> QED
    BY <2>1 DEF CloseFile, Unlocked, Typed, Modes
<1>6. Typed'
  BY <1>1, <1>3, <1>5 DEF Typed, Labels, Serving, Names
<1>7. NamesApart' /\ Alone' /\ DbThere'
  BY <1>1, <1>4 DEF NamesApart, Apart, Alone, DbThere, Before, Creating, Swapping
<1>8. Handles' /\ LockHolders' /\ LocksCompatible'
  BY <1>1, <1>4, <1>5 DEF Handles, LockHolders, LocksCompatible, Holding, Serving
<1>9. Complete' /\ Identity' /\ Safe' /\ Served'
  BY <1>1, <1>4 DEF Complete, Identity, Safe, Served, Held, Entries, Serving
<1> QED
  BY <1>6, <1>7, <1>8, <1>9

(* SwapFile: the path leads to the compacted file, or the rename failed and *)
(* the old one is left.                                                     *)
LEMMA SwapFileKeeps ==
    ASSUME IInv, NEW p \in Procs, SwapFile(p)
    PROVE  IInv'
<1> USE DEF IInv
<1>1. /\ pc[p] = "vacRename" /\ p \notin Readers
      /\ UNCHANGED <<ddir, files, wal, fd, mem, locked, acked>>
      /\ \A q \in Procs \ {p} : pc[q] = "off"
  BY DEF SwapFile, Handles, Serving, Alone, Swapping
<1>2. \A g \in Inodes, q \in Procs, m \in Modes : <<q, m>> \notin locked[g]
  BY <1>1 DEF LockHolders, Holding
<1>3. CASE UNCHANGED dir /\ Goto(p, "noFile") /\ faults' \in 0..MaxFaults
  <2>1. pc' = [pc EXCEPT ![p] = "noFile"]
    BY <1>3 DEF Goto
  <2>2. pc'[p] = "noFile" /\ \A q \in Procs \ {p} : pc'[q] = "off"
    BY <1>1, <2>1 DEF Typed
  <2>3. Typed' /\ NamesApart' /\ Alone' /\ DbThere'
    BY <1>1, <1>3, <2>1, <2>2
    DEF Typed, Labels, Serving, NamesApart, Apart, Alone, DbThere, Before, Creating, Swapping
  <2>4. Handles' /\ LockHolders' /\ LocksCompatible'
    BY <1>1, <1>2, <2>2 DEF Handles, LockHolders, LocksCompatible, Holding, Serving
  <2>5. Complete' /\ Identity' /\ Safe' /\ Served'
    BY <1>1, <1>3, <2>2 DEF Complete, Identity, Safe, Served, Held, Entries, Serving
  <2> QED
    BY <2>3, <2>4, <2>5
<1>4. CASE dir["vac"] # {} /\ dir' = Renamed("vac") /\ Goto(p, "vacReopen") /\ UNCHANGED faults
  <2>1. /\ dir' \in [Paths -> Names] /\ dir'["db"] = dir["vac"] /\ dir'["vac"] = {}
        /\ dir'["new"] = dir["new"]
    BY <1>4 DEF Renamed, Typed, Paths, Names
  <2>2. PICK v \in Inodes : dir["vac"] = {v}
    BY <1>4 DEF Typed, Names, Paths
  <2>3. pc' = [pc EXCEPT ![p] = "vacReopen"]
    BY <1>4 DEF Goto
  <2>4. pc'[p] = "vacReopen" /\ \A q \in Procs \ {p} : pc'[q] = "off"
    BY <1>1, <2>3 DEF Typed
  <2>5. PICK d \in Inodes : dir["db"] = {d}
    BY <1>1 DEF DbThere, Before, Creating, Typed, Names, Paths
  <2>6. /\ files[v].complete /\ files[v].data = mem[p] /\ files[v].uuid = files[d].uuid
        /\ wal.uuid = files[d].uuid /\ mem[p] = Held(d)
    BY <1>1, <2>2, <2>5 DEF Complete, Identity, Served, Serving
  <2>7. Held(v) = mem[p]
    BY <2>6 DEF Held, Entries
  <2>8. Typed'
    BY <1>1, <1>4, <2>1, <2>3 DEF Typed, Labels, Serving
  <2>9. NamesApart'
    BY <1>1, <1>4, <2>1 DEF NamesApart, Apart
  <2>10. Alone' /\ DbThere'
    BY <2>1, <2>2, <2>4 DEF Alone, DbThere, Before, Creating, Swapping
  <2>11. Handles' /\ LockHolders' /\ LocksCompatible'
    BY <1>1, <1>2, <2>4 DEF Handles, LockHolders, LocksCompatible, Holding, Serving
  <2>12. Complete'
    BY <1>1, <2>1, <2>2, <2>4, <2>6 DEF Complete
  <2>13. Identity'
    BY <1>1, <2>1, <2>2, <2>4, <2>5, <2>6 DEF Identity, Serving, Paths
  <2>14. Safe' /\ Served'
    BY <1>1, <2>1, <2>2, <2>4, <2>5, <2>6, <2>7 DEF Safe, Served, Held, Entries, Serving
  <2> QED
    BY <2>8, <2>9, <2>10, <2>11, <2>12, <2>13, <2>14
<1>5. faults + 1 \in 0..MaxFaults \/ ~(faults < MaxFaults)
  BY FileSwapAssumption DEF Typed
<1> QED
  BY <1>3, <1>4, <1>5 DEF SwapFile, Typed

(* ReopenFile: the new file is locked before anybody else may open it.      *)
LEMMA ReopenFileKeeps ==
    ASSUME IInv, NEW p \in Procs, ReopenFile(p)
    PROVE  IInv'
<1> USE DEF IInv
<1>1. /\ pc[p] = "vacReopen" /\ p \notin Readers
      /\ UNCHANGED <<dir, ddir, files, wal, mem, acked>>
      /\ \A q \in Procs \ {p} : pc[q] = "off"
  BY DEF ReopenFile, Handles, Serving, Alone, Swapping
<1>10. faults' \in 0..MaxFaults
  BY FileSwapAssumption DEF ReopenFile, Typed
<1>2. \A g \in Inodes, q \in Procs, m \in Modes : <<q, m>> \notin locked[g]
  BY <1>1 DEF LockHolders, Holding
<1>2a. PICK f \in Inodes : dir["db"] = {f}
  BY <1>1 DEF DbThere, Before, Creating, Typed, Names, Paths
<1>3. \/ /\ fd' = [fd EXCEPT ![p] = {f}]
         /\ locked' = [locked EXCEPT ![f] = {<<p, "exclusive">>}] /\ Goto(p, "vacTruncate")
      \/ Goto(p, "noFile") /\ UNCHANGED <<fd, locked>>
  BY <1>2a DEF ReopenFile
<1>4. f \in Inodes /\ dir["db"] = {f}
  BY <1>2a
<1>5. /\ pc' \in [Procs -> Labels] /\ pc'[p] \in {"vacTruncate", "noFile"}
      /\ \A q \in Procs \ {p} : pc'[q] = "off"
  BY <1>1, <1>3 DEF Goto, Typed, Labels, Serving
<1>6. NamesApart' /\ Alone' /\ DbThere'
  BY <1>1, <1>4, <1>5 DEF NamesApart, Apart, Alone, DbThere, Before, Creating, Swapping
<1>7. Complete' /\ Identity' /\ Safe' /\ Served'
  BY <1>1, <1>5 DEF Complete, Identity, Safe, Served, Held, Entries, Serving
<1>8. CASE pc'[p] = "noFile" /\ UNCHANGED <<fd, locked>>
  BY <1>1, <1>2, <1>5, <1>6, <1>7, <1>8, <1>10
  DEF Typed, Handles, LockHolders, LocksCompatible, Holding, Serving
<1>9. CASE /\ pc'[p] = "vacTruncate" /\ fd' = [fd EXCEPT ![p] = {f}]
           /\ locked' = [locked EXCEPT ![f] = {<<p, "exclusive">>}]
  <2>1. /\ locked' \in [Inodes -> SUBSET (Procs \X Modes)]
        /\ locked'[f] = {<<p, "exclusive">>}
        /\ \A g \in Inodes \ {f} : locked'[g] = locked[g]
    BY <1>4, <1>9 DEF Typed, Modes
  <2>2. fd' \in [Procs -> Names] /\ fd'[p] = {f}
    BY <1>4, <1>9 DEF Typed, Names
  <2>3. Typed'
    BY <1>1, <1>5, <1>10, <2>1, <2>2 DEF Typed
  <2>4. Handles'
    BY <1>1, <1>4, <1>5, <1>9, <2>1, <2>2 DEF Handles, Holding, Serving
  <2>5. LockHolders' /\ LocksCompatible'
    <3>1. \A g \in Inodes, q \in Procs, m \in Modes : <<q, m>> \in locked'[g] => g = f /\ q = p
      BY <1>2, <2>1
    <3> QED
      BY <1>1, <1>4, <1>9, <3>1 DEF LockHolders, LocksCompatible, Holding
  <2> QED
    BY <1>6, <1>7, <2>3, <2>4, <2>5
<1> QED
  BY <1>3, <1>8, <1>9 DEF Goto, Typed

(* TruncateWal: what the sidecar loses, both directories' files hold.       *)
LEMMA TruncateWalKeeps ==
    ASSUME Journalled, IInv, NEW p \in Procs, TruncateWal(p)
    PROVE  IInv'
<1> USE DEF IInv
<1>1. /\ pc[p] = "vacTruncate" /\ p \notin Readers /\ ddir' = dir
      /\ UNCHANGED <<dir, files, fd, mem, locked, acked, faults>>
      /\ \A q \in Procs \ {p} : pc[q] = "off"
  BY DEF Journalled, TruncateWal, Synced, Handles, Serving, Alone, Swapping
<1>2. PICK f \in fd[p] : wal' = Emptied(f)
  BY DEF TruncateWal
<1>3. f \in Inodes /\ dir["db"] = {f}
  <2>1. fd[p] = dir["db"]
    BY <1>1 DEF Handles, Holding
  <2> QED
    BY <2>1 DEF Typed, Names
<1>4. files[f].uuid \in Nat \ {0} /\ files[f].data = mem[p]
  BY <1>1, <1>3 DEF Typed, Identity, Complete, Paths
<1>5. wal' \in [uuid : Nat, entries : SUBSET Nat] /\ wal'.uuid = files[f].uuid /\ wal'.entries = {}
  BY <1>2, <1>4 DEF Emptied
<1>6. /\ pc' \in [Procs -> Labels] /\ pc'[p] = "ready"
      /\ \A q \in Procs \ {p} : pc'[q] = "off"
  BY <1>1 DEF TruncateWal, Goto, Typed, Labels, Serving
<1>7. Held(f)' = mem[p] /\ Held(f) = mem[p]
  BY <1>1, <1>3, <1>4, <1>5 DEF Held, Entries, Served, Serving
<1>8. Typed'
  BY <1>1, <1>5, <1>6 DEF Typed
<1>9. NamesApart' /\ Alone' /\ DbThere'
  BY <1>1, <1>3, <1>6 DEF NamesApart, Apart, Alone, DbThere, Before, Creating, Swapping
<1>10. Handles' /\ LocksCompatible'
  BY <1>1, <1>6 DEF Handles, LocksCompatible, Holding, Serving
<1>11. LockHolders'
  BY <1>1, <1>6 DEF LockHolders, Holding
<1>12. Complete'
  BY <1>1, <1>6 DEF Complete
<1>13. Identity'
  BY <1>1, <1>3, <1>4, <1>5, <1>6 DEF Identity
<1>14. Safe' /\ Served'
  BY <1>1, <1>3, <1>6, <1>7 DEF Safe, Served, Serving
<1> QED
  BY <1>8, <1>9, <1>10, <1>11, <1>12, <1>13, <1>14

-----------------------------------------------------------------------------
(* Faults.                                                                  *)

(* PowerLoss: either directory leads to a complete file with every          *)
(* acknowledged write.                                                      *)
LEMMA PowerLossKeeps ==
    ASSUME Journalled, IInv, PowerLoss
    PROVE  IInv'
<1> USE DEF IInv
<1>1. /\ dir' \in {dir, ddir} /\ ddir' = dir' /\ UNCHANGED <<files, acked>>
      /\ wal' = IF dir'["db"] = {} THEN [uuid |-> 0, entries |-> {}] ELSE wal
      /\ faults' \in 0..MaxFaults
  BY FileSwapAssumption DEF Journalled, PowerLoss, Typed
<1>2. /\ pc' = [p \in Procs |-> "off"] /\ fd' = [p \in Procs |-> {}]
      /\ mem' = [p \in Procs |-> {}] /\ locked' = [f \in Inodes |-> {}]
  BY DEF PowerLoss
<1>3. Typed'
  BY <1>1, <1>2 DEF Typed, Labels, Names
<1>4. NamesApart' /\ Alone' /\ DbThere'
  BY <1>1, <1>2 DEF NamesApart, Apart, Alone, DbThere, Before, Creating, Swapping
<1>5. Handles' /\ LockHolders' /\ LocksCompatible'
  BY <1>2 DEF Handles, LockHolders, LocksCompatible, Holding, Serving
<1>6. Complete'
  BY <1>1, <1>2 DEF Complete
<1>7. Identity'
  BY <1>1, <1>2 DEF Identity, Serving, Typed, Names, Paths
<1>8. Safe'
  BY <1>1 DEF Safe, Held, Entries, NamesApart
<1>9. Served'
  BY <1>2 DEF Served, Serving
<1> QED
  BY <1>3, <1>4, <1>5, <1>6, <1>7, <1>8, <1>9

-----------------------------------------------------------------------------
(* The invariant, and what follows from it.                                 *)

(* There is no file yet, no process and no acknowledged write.              *)
LEMMA InitHolds == Init => IInv
<1> SUFFICES ASSUME Init PROVE IInv
  OBVIOUS
<1>1. Typed
  BY FileSwapAssumption DEF Init, Typed, Names, Labels
<1>2. NamesApart /\ Alone /\ DbThere /\ Handles /\ LockHolders /\ LocksCompatible
  BY DEF Init, NamesApart, Apart, Alone, DbThere, Before, Creating, Swapping, Handles,
         LockHolders, LocksCompatible, Holding, Serving, Paths
<1>3. Complete /\ Identity /\ Safe /\ Served
  BY DEF Init, Complete, Identity, Safe, Served, Serving, Paths
<1> QED
  BY <1>1, <1>2, <1>3 DEF IInv

(* Every step that no open overlaps keeps the invariant.                    *)
LEMMA StepKeeps ==
    ASSUME Journalled, IInv, [Next]_vars, ~crossed'
    PROVE  IInv'
<1>1. ASSUME NEW p \in Procs, OpenStep(p) PROVE IInv'
  BY <1>1, RemoveLeftoverKeeps, CheckAbsentKeeps, InstallTempKeeps, CreateTempKeeps,
     FillTempKeeps, OpenFileKeeps, LockAndLoadKeeps DEF OpenStep
<1>2. ASSUME NEW p \in Procs, VacuumStep(p) PROVE IInv'
  BY <1>2, CreateVacKeeps, FillVacKeeps, CloseFileKeeps, SwapFileKeeps, ReopenFileKeeps,
     TruncateWalKeeps DEF VacuumStep
<1>3. ASSUME NEW p \in Procs, Close(p) \/ Kill(p) PROVE IInv'
  <2>1. faults' \in 0..MaxFaults /\ pc[p] # "off"
    BY <1>3, FileSwapAssumption DEF Close, Kill, IInv, Typed
  <2> QED
    BY <1>3, <2>1, GoneKeeps DEF Close, Kill
<1>4. ASSUME NEW p \in Procs, StartOpen(p) \/ Write(p) \/ Checkpoint(p) \/ StartVacuum(p)
      PROVE  IInv'
  BY <1>4, StartOpenKeeps, WriteKeeps, CheckpointKeeps, StartVacuumKeeps
<1>5. CASE UNCHANGED vars
  BY <1>5 DEF vars, IInv, Typed, NamesApart, Apart, Alone, DbThere, Handles, LockHolders,
              LocksCompatible, Complete, Identity, Safe, Served, Held, Entries
<1> QED
  BY <1>1, <1>2, <1>3, <1>4, <1>5, PowerLossKeeps DEF Next

(* What was crossed stays so.                                               *)
LEMMA CrossedStays == crossed /\ [Next]_vars => crossed'
BY DEF Next, vars, StartOpen, OpenStep, Write, Checkpoint, Close, StartVacuum, VacuumStep,
       CreateVac, FillVac, CloseFile, SwapFile, ReopenFile, TruncateWal, Kill, PowerLoss, Noted

(* The inductive invariant holds until an open crosses: names, handles,     *)
(* locks, the sidecar's identity and what the files hold, at every step of  *)
(* creation, swap and crash.                                                *)
THEOREM Invariance ==
    ASSUME Journalled PROVE Spec => [](~crossed => IInv)
<1>1. Init => (~crossed => IInv)
  BY InitHolds
<1>2. (~crossed => IInv) /\ [Next]_vars => (~crossed => IInv)'
  BY StepKeeps, CrossedStays
<1> QED
  BY <1>1, <1>2, PTL DEF Spec

(* OneOwner (STG-060): no process serves the database beside one that       *)
(* serves it for writing.                                                   *)
THEOREM OneProcessServes ==
    ASSUME Journalled PROVE Spec => []OneOwner
<1>1. (~crossed => IInv) => OneOwner
  <2> SUFFICES ASSUME IInv PROVE TypeOK /\ ExclusiveOwner
    BY DEF OneOwner
  <2>1. \A path \in Paths : dir[path] \subseteq Inodes /\ Cardinality(dir[path]) <= 1
    <3>1. \A path \in Paths : dir[path] = {} \/ \E f \in Inodes : dir[path] = {f}
      BY DEF IInv, Typed, Names
    <3>2. Cardinality({}) = 0 /\ \A f \in Inodes : Cardinality({f}) = 1
      BY FS_EmptySet, FS_Singleton
    <3> QED
      BY <3>1, <3>2
  <2>2. \A f \in Inodes : \A l \in locked[f] : pc[l[1]] # "off"
    BY DEF IInv, Typed, LockHolders, Holding
  <2>3. ASSUME NEW p \in Procs, pc[p] = "ready"
        PROVE  \E f \in fd[p] : \E l \in locked[f] : l[1] = p
    <3>1. PICK f \in Inodes : dir["db"] = {f} /\ fd[p] = {f}
      <4>1. fd[p] = dir["db"] /\ dir["db"] # {}
        BY <2>3 DEF IInv, Handles, Holding, DbThere, Before, Creating
      <4> QED
        BY <4>1 DEF IInv, Typed, Names, Paths
    <3>2. PICK m \in Modes : <<p, m>> \in locked[f]
      BY <2>3, <3>1 DEF IInv, Handles, Holding, Modes
    <3> QED
      BY <3>1, <3>2
  <2>4. TypeOK
    BY <2>1, <2>2, <2>3 DEF TypeOK, IInv, Typed
  <2> QED
    BY <2>4, OneWriter DEF ExclusiveOwner
<1> QED
  BY <1>1, Invariance, PTL

(* NeverHalfCreated (STG-003): the path never names a file without a        *)
(* complete first checkpoint, in either directory.                          *)
THEOREM CreationIsAtomic ==
    ASSUME Journalled PROVE Spec => []NeverHalfCreated
<1>1. (~crossed => IInv) => NeverHalfCreated
  BY DEF IInv, Complete, NeverHalfCreated, WholeAtPath
<1> QED
  BY <1>1, Invariance, PTL

(* Recovery from a directory is what the file it names and the sidecar      *)
(* hold.                                                                    *)
LEMMA RecoveredIsHeld ==
    ASSUME NEW d, d["db"] \in Names
    PROVE  /\ d["db"] = {} => RecoveredFrom(d) = {}
           /\ \A f \in d["db"] : RecoveredFrom(d) = Held(f)
<1>1. ASSUME NEW f \in d["db"] PROVE RecoveredFrom(d) = Held(f)
  <2>1. d["db"] = {f}
    BY <1>1 DEF Names
  <2> QED
    BY <2>1 DEF RecoveredFrom, Held, Entries
<1> QED
  BY <1>1 DEF RecoveredFrom

(* AckedRecoverable: every acknowledged write is behind the path, whichever *)
(* of the two directories the next boot finds.                              *)
THEOREM SwapLosesNothing ==
    ASSUME Journalled PROVE Spec => []AckedRecoverable
<1>1. (~crossed => IInv) => AckedRecoverable
  <2> SUFFICES ASSUME IInv PROVE AckedDurable
    BY DEF AckedRecoverable
  <2>1. dir["db"] \in Names /\ ddir["db"] \in Names
    BY DEF IInv, Typed, Paths
  <2>2. acked \subseteq RecoveredFrom(dir)
    BY <2>1, RecoveredIsHeld DEF IInv, Safe, NamesApart
  <2>3. acked \subseteq RecoveredFrom(ddir)
    BY <2>1, RecoveredIsHeld DEF IInv, Safe
  <2> QED
    BY <2>2, <2>3 DEF AckedDurable
<1> QED
  BY <1>1, Invariance, PTL

(* ServedIsOnDisk: whoever serves the database has in memory what the next  *)
(* open would recover.                                                      *)
THEOREM MemoryIsOnDisk ==
    ASSUME Journalled PROVE Spec => []ServedIsOnDisk
<1>1. (~crossed => IInv) => ServedIsOnDisk
  <2> SUFFICES ASSUME IInv, NEW p \in Procs, pc[p] \in Serving PROVE mem[p] = RecoveredFrom(dir)
    BY DEF ServedIsOnDisk
  <2>1. dir["db"] \in Names /\ dir["db"] # {}
    BY DEF IInv, Typed, Paths, DbThere, Before, Creating, Serving
  <2> QED
    BY <2>1, RecoveredIsHeld DEF IInv, Served
<1> QED
  BY <1>1, Invariance, PTL

=============================================================================
