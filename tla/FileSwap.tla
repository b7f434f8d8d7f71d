------------------------------ MODULE FileSwap ------------------------------
(***************************************************************************)
(* The names of a database on disk and who holds them: creation through    *)
(* `<db>-new`, vacuum through `<db>-vac`, the rename onto the live path,   *)
(* the advisory lock on the file behind a handle (pager.rs, persist/mod.rs)*)
(* and the WAL sidecar, which has no lock of its own.  Several processes   *)
(* open the same path; any of them may be killed, and the power may fail.  *)
(*                                                                         *)
(* A file is what Pager makes of one inode, seen from outside: incomplete  *)
(* until its first checkpoint ended, then a set of writes.  Pager models   *)
(* the inside.  A name is bound to a set of at most one inode.             *)
(***************************************************************************)
EXTENDS Naturals, FiniteSets, Sequences, Functions

CONSTANTS
    Procs,        \* processes that open the path
    Readers,      \* of those, the ones that open it read-only
    DirSynced,    \* the fsync of any file makes earlier renames durable too
    DiskFails,    \* a rename or the writing of a file may return an error
    MaxWrites, MaxFiles, MaxFaults   \* bounds on writes, inodes in use and faults

ASSUME FileSwapAssumption ==
    /\ Readers \subseteq Procs
    /\ {DirSynced, DiskFails} \subseteq BOOLEAN
    /\ {MaxWrites, MaxFiles, MaxFaults} \subseteq Nat

VARIABLES
    dir,     \* the name each path is bound to
    ddir,    \* the directory as a power loss would leave it
    files,   \* inode -> its file, linked or not
    wal,     \* the sidecar: the file it belongs to, and its entries
    pc,      \* process -> where in open, create or vacuum it is
    fd,      \* process -> the inode behind its pager's handle
    mem,     \* process -> the writes its collections hold
    locked,  \* inode -> the processes holding its lock, and the kind of it
    acked,   \* history: the writes that returned Ok
    faults,  \* history: kills, power losses and failed calls
    crossed  \* history: an open overlapped another process's creation or swap

vars == <<dir, ddir, files, wal, pc, fd, mem, locked, acked, faults, crossed>>

Paths == {"db", "new", "vac"}
Inodes == 1..MaxFiles

(* The states of a process in which it serves a database handle.            *)
Serving == {"ready", "vacNew", "vacFill", "vacClose", "vacRename", "vacReopen",
            "vacTruncate", "noFile"}

(* What reopening makes of a directory: the file's writes, and those of a   *)
(* sidecar with the same uuid (Wal::scan).                                  *)
RecoveredFrom(d) ==
    UNION {files[f].data \cup (IF wal.uuid = files[f].uuid THEN wal.entries ELSE {}) :
              f \in d["db"]}

Bound(path, f) == [dir EXCEPT ![path] = {f}]
Unbound(path)  == [dir EXCEPT ![path] = {}]
Renamed(from)  == [dir EXCEPT !["db"] = dir[from], ![from] = {}]

(* fsync of a file: on a journalled directory the renames before it too.    *)
Synced(d) == IF DirSynced THEN d ELSE ddir

Goto(p, label) == pc' = [pc EXCEPT ![p] = label]

Unlocked(p) == [f \in Inodes |-> locked[f] \ ({p} \X {"shared", "exclusive"})]

(* Inodes without a name and a handle are free for reuse.                   *)
InUse(f) ==
    \/ \E path \in Paths : f \in dir[path] \cup ddir[path]
    \/ \E p \in Procs : f \in fd[p]
    \/ locked[f] # {}

FreshUuid == CHOOSE u \in 1..MaxFiles + 2 :
                u # wal.uuid /\ \A f \in Inodes : InUse(f) => files[f].uuid # u

(* A new inode, empty, open and locked by p (create_compacted).             *)
Created(p, path, uuid) ==
    /\ dir[path] = {}
    /\ \E f \in Inodes :
          /\ ~InUse(f) /\ \A g \in 1..(f - 1) : InUse(g)
          /\ files' = [files EXCEPT ![f] = [complete |-> FALSE, uuid |-> uuid, data |-> {}]]
          /\ dir' = Bound(path, f)
          /\ locked' = [locked EXCEPT ![f] = {<<p, "exclusive">>}]

(* The first checkpoint of the file create_compacted holds, which it then   *)
(* closes.                                                                  *)
Filled(p, data) ==
    \E f \in {g \in Inodes : ~files[g].complete /\ <<p, "exclusive">> \in locked[g]} :
        /\ files' = [files EXCEPT ![f].complete = TRUE, ![f].data = data]
        /\ locked' = [locked EXCEPT ![f] = {}]
        /\ ddir' = Synced(dir)

Init ==
    /\ dir = [path \in Paths |-> {}] /\ ddir = dir
    /\ files = [f \in Inodes |-> [complete |-> FALSE, uuid |-> 0, data |-> {}]]
    /\ locked = [f \in Inodes |-> {}]
    /\ wal = [uuid |-> 0, entries |-> {}]
    /\ pc = [p \in Procs |-> "off"]
    /\ fd = [p \in Procs |-> {}]
    /\ mem = [p \in Procs |-> {}]
    /\ acked = {} /\ faults = 0 /\ crossed = FALSE

-----------------------------------------------------------------------------
(* Opening (open_pager) and creating (Pager::create).                       *)

(* Nobody else creates the database, swaps it, or lost its file in a failed *)
(* swap; nobody else is opening it.  What is done otherwise is noted.       *)
Quiet(p) == \A q \in Procs \ {p} : pc[q] \in {"off", "open", "lock", "ready", "vacNew", "vacFill"}
Settled(p) == \A q \in Procs \ {p} : pc[q] \in {"off", "ready"}
Noted(alone) == crossed' = (crossed \/ ~alone)

(* path.exists() decides between the two.                                   *)
StartOpen(p) ==
    /\ pc[p] = "off" /\ Noted(Quiet(p))
    /\ Goto(p, IF dir["db"] # {} THEN "open" ELSE "create")
    /\ UNCHANGED <<dir, ddir, files, wal, fd, mem, locked, acked, faults>>

RemoveLeftover_None(p) ==
    /\ pc[p] = "create" /\ Goto(p, "createNew") /\ UNCHANGED dir

RemoveLeftover(p) ==
    /\ pc[p] = "create"
    /\ dir' = Unbound("new") /\ Goto(p, "createNew")

CreateTemp_InPlace(p) ==
    /\ pc[p] = "createNew"
    /\ \/ Created(p, "db", FreshUuid) /\ Goto(p, "createFill")
       \/ dir["db"] # {} /\ Goto(p, "off") /\ UNCHANGED <<dir, files, locked>>

CreateTemp(p) ==
    /\ pc[p] = "createNew"
    /\ \/ Created(p, "new", FreshUuid) /\ Goto(p, "createFill")
       \/ dir["new"] # {} /\ Goto(p, "off") /\ UNCHANGED <<dir, files, locked>>

FillTemp(p) == pc[p] = "createFill" /\ Filled(p, {}) /\ Goto(p, "createCheck")

(* path.exists() a second time: a database that appeared meanwhile wins.    *)
CheckAbsent(p) ==
    /\ pc[p] = "createCheck"
    /\ IF dir["db"] # {} THEN dir' = Unbound("new") /\ Goto(p, "off")
                         ELSE UNCHANGED dir /\ Goto(p, "createRename")

InstallTemp(p) ==
    /\ pc[p] = "createRename"
    /\ IF dir["new"] # {} THEN dir' = Renamed("new") /\ Goto(p, "openNew")
                          ELSE UNCHANGED dir /\ Goto(p, "off")

(* Pager::open, up to the lock: it opens what the path names now ...        *)
OpenFile(p) ==
    /\ pc[p] \in {"open", "openNew"}
    /\ fd' = [fd EXCEPT ![p] = dir["db"]]
    /\ Goto(p, IF dir["db"] = {} THEN "off" ELSE IF pc[p] = "open" THEN "lock" ELSE "lockNew")

(* ... and locks that, or reports Locked; a file without a header is        *)
(* Corrupt.  Wal::open gives an absent sidecar a header, but leaves one of  *)
(* another file as it is; the replay reads only its own.  A read-only open  *)
(* shares its lock with its like and refuses a sidecar with entries, whose  *)
(* ever they are; it creates an absent database all the same, and then      *)
(* locks it for itself.                                                     *)
Mode(p) == IF p \in Readers /\ pc[p] = "lock" THEN "shared" ELSE "exclusive"

Lockable_Shared(p, f) == \A l \in locked[f] : l[2] = "shared"

Lockable(p, f) == \A l \in locked[f] : l[2] = "shared" /\ Mode(p) = "shared"

Entries(f) == IF wal.uuid = files[f].uuid THEN wal.entries ELSE {}

LockAndLoad(p, f) ==
    IF Lockable(p, f) /\ files[f].complete /\ (p \in Readers => wal.entries = {})
    THEN /\ locked' = [locked EXCEPT ![f] = @ \cup {<<p, Mode(p)>>}]
         /\ mem' = [mem EXCEPT ![p] = files[f].data \cup Entries(f)]
         /\ wal' = IF wal.uuid = 0 THEN [uuid |-> files[f].uuid, entries |-> {}] ELSE wal
         /\ Goto(p, "ready") /\ UNCHANGED fd
    ELSE /\ Goto(p, "off") /\ fd' = [fd EXCEPT ![p] = {}]
         /\ UNCHANGED <<locked, wal, mem>>

OpenStep(p) ==
    \/ /\ RemoveLeftover(p) \/ CheckAbsent(p) \/ InstallTemp(p)
       /\ UNCHANGED <<ddir, files, wal, fd, mem, locked, acked, faults, crossed>>
    \/ CreateTemp(p) /\ UNCHANGED <<ddir, wal, fd, mem, acked, faults, crossed>>
    \/ FillTemp(p) /\ UNCHANGED <<dir, wal, fd, mem, acked, faults, crossed>>
    \/ OpenFile(p) /\ UNCHANGED <<dir, ddir, files, wal, mem, locked, acked, faults, crossed>>
    \/ /\ pc[p] \in {"lock", "lockNew"} /\ \E f \in fd[p] : LockAndLoad(p, f)
       /\ UNCHANGED <<dir, ddir, files, acked, faults, crossed>>

-----------------------------------------------------------------------------
(* The life of a handle.                                                    *)

(* One write that returned Ok in Full durability: in the sidecar, synced.   *)
(* It is logged whether or not the pager still has its file.                *)
Write(p) ==
    /\ pc[p] \in {"ready", "noFile"} /\ p \notin Readers
    /\ Cardinality(acked) < MaxWrites
    /\ LET w == Cardinality(acked) + 1 IN
       /\ wal' = [wal EXCEPT !.entries = @ \cup {w}]
       /\ mem' = [mem EXCEPT ![p] = @ \cup {w}]
       /\ acked' = acked \cup {w}
    /\ ddir' = Synced(dir)
    /\ UNCHANGED <<dir, files, pc, fd, locked, faults, crossed>>

(* Wal::truncate writes a header of its own.                                *)
Emptied(f) == [uuid |-> files[f].uuid, entries |-> {}]

(* Persistence::commit, in one step here: Pager and Store take it apart.    *)
Checkpoint(p) ==
    /\ pc[p] = "ready" /\ p \notin Readers
    /\ \E f \in fd[p] : files' = [files EXCEPT ![f].data = mem[p]] /\ wal' = Emptied(f)
    /\ ddir' = Synced(dir)
    /\ UNCHANGED <<dir, pc, fd, mem, locked, acked, faults, crossed>>

Gone(p) ==
    /\ Goto(p, "off")
    /\ fd' = [fd EXCEPT ![p] = {}]
    /\ mem' = [mem EXCEPT ![p] = {}]
    /\ locked' = Unlocked(p)

(* The last handle goes, after its closing checkpoint; without a file that  *)
(* checkpoint fails, and the sidecar keeps the writes (WAL-051).            *)
Close(p) ==
    /\ \/ pc[p] = "ready" /\ (p \in Readers \/ mem[p] = UNION {files[f].data : f \in fd[p]})
       \/ pc[p] = "noFile"
    /\ Gone(p)
    /\ UNCHANGED <<dir, ddir, files, wal, acked, faults, crossed>>

(* Persistence::vacuum under the journal mutex, and Pager::replace_with.    *)
StartVacuum(p) ==
    /\ pc[p] = "ready" /\ p \notin Readers
    /\ dir' = Unbound("vac") /\ Goto(p, "vacNew")
    /\ UNCHANGED <<ddir, files, wal, fd, mem, locked, acked, faults, crossed>>

CreateVac_FreshUuid(p) ==
    /\ pc[p] = "vacNew"
    /\ Created(p, "vac", FreshUuid) /\ Goto(p, "vacFill")
    /\ UNCHANGED <<ddir, wal, fd, mem, acked, faults, crossed>>

CreateVac(p) ==
    /\ pc[p] = "vacNew"
    /\ \/ \E f \in fd[p] : Created(p, "vac", files[f].uuid) /\ Goto(p, "vacFill")
       \/ dir["vac"] # {} /\ Goto(p, "ready") /\ UNCHANGED <<dir, files, locked>>
    /\ UNCHANGED <<ddir, wal, fd, mem, acked, faults, crossed>>

FillVac_FromFile(p) ==
    /\ pc[p] = "vacFill" /\ Filled(p, UNION {files[f].data : f \in fd[p]}) /\ Goto(p, "vacClose")
    /\ UNCHANGED <<dir, wal, fd, mem, acked, faults, crossed>>

(* A compacted file that cannot be written leaves the database on its old   *)
(* one, and the temporary file to the next vacuum.                          *)
FillVac(p) ==
    /\ pc[p] = "vacFill"
    /\ \/ Filled(p, mem[p]) /\ Goto(p, "vacClose") /\ UNCHANGED faults
       \/ /\ DiskFails /\ faults < MaxFaults /\ faults' = faults + 1
          /\ locked' = [f \in Inodes |-> IF f \in dir["vac"] THEN {} ELSE locked[f]]
          /\ Goto(p, "ready") /\ UNCHANGED <<ddir, files>>
    /\ UNCHANGED <<dir, wal, fd, mem, acked, crossed>>

(* self.file = None: handle and lock go before the rename.                  *)
CloseFile(p) ==
    /\ pc[p] = "vacClose" /\ Noted(Settled(p))
    /\ fd' = [fd EXCEPT ![p] = {}] /\ locked' = Unlocked(p)
    /\ Goto(p, "vacRename")
    /\ UNCHANGED <<dir, ddir, files, wal, mem, acked, faults>>

SwapFile(p) ==
    /\ pc[p] = "vacRename"
    /\ \/ /\ dir["vac"] # {} /\ dir' = Renamed("vac")
          /\ Goto(p, "vacReopen") /\ UNCHANGED faults
       \/ /\ DiskFails /\ faults < MaxFaults /\ faults' = faults + 1
          /\ Goto(p, "noFile") /\ UNCHANGED dir
       \/ dir["vac"] = {} /\ Goto(p, "noFile") /\ UNCHANGED <<dir, faults>>
    /\ UNCHANGED <<ddir, files, wal, fd, mem, locked, acked, crossed>>

(* Reopen, lock and read the file under the path; whoever locked it first,  *)
(* or an error of one of the calls, leaves this pager without one.          *)
ReopenFile(p) ==
    /\ pc[p] = "vacReopen"
    /\ \/ /\ \E f \in dir["db"] :
                IF locked[f] = {} /\ files[f].complete
                THEN /\ fd' = [fd EXCEPT ![p] = {f}]
                     /\ locked' = [locked EXCEPT ![f] = {<<p, "exclusive">>}]
                     /\ Goto(p, "vacTruncate")
                ELSE Goto(p, "noFile") /\ UNCHANGED <<fd, locked>>
          /\ UNCHANGED faults
       \/ /\ DiskFails /\ faults < MaxFaults /\ faults' = faults + 1
          /\ Goto(p, "noFile") /\ UNCHANGED <<fd, locked>>
    /\ UNCHANGED <<dir, ddir, files, wal, mem, acked, crossed>>

TruncateWal(p) ==
    /\ pc[p] = "vacTruncate"
    /\ \E f \in fd[p] : wal' = Emptied(f)
    /\ ddir' = Synced(dir)
    /\ Goto(p, "ready")
    /\ UNCHANGED <<dir, files, fd, mem, locked, acked, faults, crossed>>

VacuumStep(p) ==
    CreateVac(p) \/ FillVac(p) \/ CloseFile(p) \/ SwapFile(p) \/ ReopenFile(p) \/ TruncateWal(p)

-----------------------------------------------------------------------------
(* Faults.                                                                  *)

Kill(p) ==
    /\ pc[p] # "off" /\ faults < MaxFaults
    /\ Gone(p) /\ faults' = faults + 1
    /\ UNCHANGED <<dir, ddir, files, wal, acked, crossed>>

(* Unsynced renames may be undone, all of them or none; an ordered journal  *)
(* takes a sidecar created after the undone one along.                      *)
PowerLoss ==
    /\ faults < MaxFaults /\ faults' = faults + 1
    /\ dir' \in {dir, ddir} /\ ddir' = dir'
    /\ pc' = [p \in Procs |-> "off"]
    /\ fd' = [p \in Procs |-> {}] /\ mem' = [p \in Procs |-> {}]
    /\ locked' = [f \in Inodes |-> {}]
    /\ wal' = IF DirSynced /\ dir'["db"] = {} THEN [uuid |-> 0, entries |-> {}] ELSE wal
    /\ UNCHANGED <<files, acked, crossed>>

Next ==
    \/ \E p \in Procs :
          \/ StartOpen(p) \/ OpenStep(p)
          \/ Write(p) \/ Checkpoint(p) \/ Close(p)
          \/ StartVacuum(p) \/ VacuumStep(p)
          \/ Kill(p)
    \/ PowerLoss

(* A process that runs gets on with the call it is in, and a program that   *)
(* needs the database opens it again.                                       *)
Fairness == \A p \in Procs : WF_vars(StartOpen(p)) /\ WF_vars(OpenStep(p)) /\ WF_vars(VacuumStep(p))

Spec == Init /\ [][Next]_vars /\ Fairness

-----------------------------------------------------------------------------
(* Properties.                                                              *)

(* Names are bound to files there are, locks are held by running processes, *)
(* and a handle is on a locked file.                                        *)
TypeOK ==
    /\ \A path \in Paths : dir[path] \subseteq Inodes /\ Cardinality(dir[path]) <= 1
    /\ \A f \in Inodes : \A l \in locked[f] : pc[l[1]] # "off"
    /\ \A p \in Procs : pc[p] = "ready" => \E f \in fd[p] : \E l \in locked[f] : l[1] = p
    /\ acked \subseteq 1..MaxWrites /\ faults \in 0..MaxFaults

(* STG-060, "Lock conflict -> `Locked` immediately": while one process      *)
(* serves the database for writing, no other process serves it.             *)
ExclusiveOwner ==
    \A p, q \in Procs : p # q /\ pc[p] \in Serving /\ pc[q] \in Serving =>
        {p, q} \subseteq Readers

(* The lock keeps that promise as long as no open overlaps a creation or a  *)
(* swap, which drops its lock before the rename.                            *)
OneOwner == ~crossed => TypeOK /\ ExclusiveOwner

(* STG-003 for the directory: whatever the path names, before or after a    *)
(* power loss, is a file whose first checkpoint is complete.  "A crash      *)
(* mid-creation leaves nothing at `path` at all" (pager.rs).                *)
WholeAtPath == \A f \in dir["db"] \cup ddir["db"] : files[f].complete

(* Creation keeps it through kills and power losses, if processes do not    *)
(* create at the same time.                                                 *)
NeverHalfCreated == ~crossed => WholeAtPath

(* SPEC-003, "every acked write is durable": every write that returned Ok   *)
(* is recovered from what the path names, also when a power loss takes the  *)
(* directory back.                                                          *)
AckedDurable == acked \subseteq RecoveredFrom(dir) \cap RecoveredFrom(ddir)

(* That holds at every step of creation, swap and truncation that no open   *)
(* overlaps.                                                                *)
AckedRecoverable == ~crossed => AckedDurable

(* A process serves what is on disk: its collections are what the next      *)
(* open would recover (no writes go to a file whose name is gone).          *)
ServedIsOnDisk ==
    ~crossed => \A p \in Procs : pc[p] \in Serving => mem[p] = RecoveredFrom(dir)

(* Leftovers of an interrupted creation or vacuum never lock anybody out:   *)
(* when no process has the database, one that tries will, unless two get in *)
(* each other's way.                                                        *)
LeftoversNeverBlock ==
    (\A p \in Procs : pc[p] = "off") ~> (crossed \/ \E p \in Procs : pc[p] = "ready")

=============================================================================
