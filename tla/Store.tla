------------------------------- MODULE Store -------------------------------
(***************************************************************************)
(* The write path of a file-backed database: WAL append, apply in memory,  *)
(* checkpoint, vacuum, close, crash and recovery (persist/mod.rs,          *)
(* storage/wal.rs, and the parts of collection.rs and database.rs that     *)
(* drive them), by threads that share one handle.                          *)
(*                                                                         *)
(* A collection is the map from its ids to values.  The main file is       *)
(* abstracted by what Pager shows of it: a checkpoint swaps the TOC        *)
(* atomically and durably, and a segment reference keeps meaning the body  *)
(* it was written for as long as the file is the same.  A vacuum starts a  *)
(* new file: `epoch` counts them, and a reference of an older epoch means  *)
(* nothing.                                                                *)
(***************************************************************************)
EXTENDS Naturals, FiniteSets, SequencesExt

CONSTANTS
    Thread, Coll, Id, Val,
    Absent,         \* the id has no point
    NoOne,          \* the journal mutex is free; a thread is in no write
    Mapped,         \* collections the open puts on the mmap tier
    Writers,        \* threads that write
    Checkpointers,  \* threads that call checkpoint()
    Vacuumers,      \* threads whose vacuum() or auto-vacuum may run
    Faults,         \* subset of FaultKinds: what may go wrong besides crashes
    Durability,     \* "Full" or "Normal"
    WalLimit,       \* wal_size_limit, in entries
    MaxWrites,      \* bound on writes in a behaviour
    MaxCalls,       \* bound on explicit checkpoint() and vacuum() calls
    MaxDowns,       \* bound on crashes and closes
    MaxErrors       \* bound on calls that fail

(* What may go wrong besides kill -9: an append may be torn by a crash or    *)
(* fail, a commit or a truncation may fail, the power may go, the sidecar    *)
(* may be that of another database.                                          *)
FaultKinds == {"torn", "appendError", "commitError", "truncateError", "powerLoss", "staleWal"}

(* What the code lets happen and does not survive.                           *)
MishapKinds == {
    "gap",        \* an append behind an entry replay stops at, or out of sequence
    "cut",        \* a power loss took WAL entries the TOC already holds
    "overlap",    \* a checkpoint or vacuum ran beside another thread's call
    "staleBase"}  \* a checkpoint left a mapped base with its old references

ASSUME StoreAssumption ==
    /\ Mapped \subseteq Coll /\ Writers \subseteq Thread
    /\ Checkpointers \subseteq Thread /\ Vacuumers \subseteq Thread
    /\ Faults \subseteq FaultKinds /\ Durability \in {"Full", "Normal"}
    /\ Absent \notin Val /\ NoOne \notin Thread
    /\ {WalLimit, MaxWrites, MaxCalls, MaxDowns, MaxErrors} \subseteq Nat

VARIABLES
    toc,      \* durable: the committed TOC, a reference per collection
    epoch,    \* durable: which file the path names
    wal,      \* the WAL sidecar's entries
    flushed,  \* how many of them an fsync has covered
    nextSeq,  \* Wal::next_seq
    lock,     \* the thread holding the journal mutex
    up,       \* a process has the database open
    closing,  \* the last handle is being dropped
    mem,      \* the collections' points
    dirty,    \* CollectionData::dirty
    sealed,   \* CollectionData::sealed
    base,     \* CollectionData::base
    pc,       \* what each thread is doing
    op,       \* the write each thread is in
    snap,     \* the CheckpointColls each thread has sealed
    todo,     \* the collections each thread's loop has still to visit
    start,    \* history: the points before the first write of hist
    hist,     \* history: the writes replayed and logged since, in WAL order
    acked,    \* history: the last of them that must survive
    settled,  \* history: the last of them known to be on disk
    walFrom,  \* history: how many of them precede the first entry of the WAL
    mishaps,  \* history: the kinds of mishap so far
    reordered,\* history: the ids written in another order than they were logged
    count     \* bounds: writes, calls, downs and errors so far

diskVars == <<toc, epoch, wal, flushed>>
dataVars == <<mem, dirty, sealed, base>>
jobVars  == <<op, snap, todo>>
histVars == <<start, hist, acked, settled, walFrom>>
noteVars == <<mishaps, reordered>>
vars == <<toc, epoch, wal, flushed, nextSeq, lock, up, closing, mem, dirty, sealed,
          base, pc, op, snap, todo, start, hist, acked, settled, walFrom, mishaps,
          reordered, count>>

-----------------------------------------------------------------------------
(* Data.                                                                    *)

Points  == [Id -> Val \cup {Absent}]
States  == [Coll -> Points]
NoPoints == [i \in Id |-> Absent]

(* A segment reference: the file it is an offset into and the body there.   *)
(* Epoch 0 marks no reference, or segments sealed but not yet written.      *)
Ref(e, b) == [epoch |-> e, body |-> b]
NoRef     == Ref(0, NoPoints)
RefSet    == [epoch : 0..(MaxCalls + MaxWrites + 1), body : Points]

(* One entry is one upsert_batch or delete_batch.                           *)
Updates == UNION {[S -> Val] \cup [S -> {Absent}] : S \in (SUBSET Id) \ {{}}}
Entry(n, c, u) == [seq |-> n, coll |-> c, upd |-> u, torn |-> FALSE]
NoUpdate == [i \in {} |-> Absent]
NoOp     == [coll |-> NoOne, upd |-> NoUpdate, idx |-> 0]

(* apply_prepared / tombstone: the whole batch under the data write lock.   *)
ApplyTo(s, c, u) ==
    [s EXCEPT ![c] = [i \in Id |-> IF i \in DOMAIN u THEN u[i] ELSE @[i]]]

(* Mutant: only upserts mark a collection dirty.                            *)
Touches_UpsertsOnly(p, u) == \E i \in DOMAIN u : u[i] # Absent

(* Deleting ids that have no point changes nothing and sets no flag.        *)
Touches(p, u) == \E i \in DOMAIN u : u[i] # Absent \/ p[i] # Absent

ApplyAll(s, w) == FoldLeft(LAMBDA st, e : ApplyTo(st, e.coll, e.upd), s, w)

-----------------------------------------------------------------------------
(* Recovery.                                                                *)

(* Wal::scan: up to the first torn entry or gap in `seq`.                   *)
Replayed(w) ==
    LET good == {n \in 0..Len(w) : \A i \in 1..n : ~w[i].torn /\ w[i].seq = i}
    IN  SubSeq(w, 1, CHOOSE n \in good : \A m \in good : m <= n)

(* Mutant: an open starts the sequence over.                                *)
SeqAfter_Restart(w) == 1

(* Wal::replay: the next append continues the entries it returned.          *)
SeqAfter(w) == Len(w) + 1

TocState == [c \in Coll |-> toc[c].body]

(* Mutant: an open does not replay.                                         *)
Recovered_NoReplay == TocState

(* open_with: load what the TOC references, then replay the WAL on it.      *)
Recovered == ApplyAll(TocState, Replayed(wal))

(* Every reference of the TOC is one into this file.                        *)
TocReadable == \A c \in Coll : toc[c].epoch = epoch

(* The first n writes of the history, without those in S.                   *)
Kept(n, S) ==
    [i \in 1..n |-> IF i \in S THEN [hist[i] EXCEPT !.upd = NoUpdate] ELSE hist[i]]

Failed(n) == {i \in 1..n : hist[i].failed}

(* What they make of the start.                                             *)
After(n, S) == ApplyAll(start, Kept(n, S))

(* What a recovery may return: the writes up to some point no earlier than  *)
(* the last acknowledged one, in WAL order.  A write whose append failed    *)
(* may count or not.                                                        *)
HistoryStates ==
    UNION {{After(n, S) : S \in SUBSET Failed(n)} : n \in acked..Len(hist)}

-----------------------------------------------------------------------------
(* A database just opened on a file with its collections.  Those shown are  *)
(* their points some call touches, none of them there yet; that a mapped    *)
(* collection has further ones is why it is mapped.  A sidecar whose header *)
(* names another file_uuid is ignored as a whole and left as it is          *)
(* (WAL-002).                                                               *)

Foreign == [seq |-> 0, coll |-> NoOne, upd |-> NoUpdate, torn |-> TRUE]

Loaded(s, refs) ==
    /\ mem = s
    /\ dirty = [c \in Coll |-> FALSE]
    /\ base = [c \in Coll |-> IF c \in Mapped THEN refs[c] ELSE NoRef]
    /\ sealed = [c \in Coll |-> IF c \in Mapped THEN NoRef ELSE refs[c]]

Init ==
    /\ toc = [c \in Coll |-> Ref(1, NoPoints)]
    /\ epoch = 1 /\ flushed = 0 /\ nextSeq = 1
    /\ wal \in IF "staleWal" \in Faults THEN {<<>>, <<Foreign>>} ELSE {<<>>}
    /\ lock = NoOne /\ up = TRUE /\ closing = FALSE
    /\ Loaded([c \in Coll |-> NoPoints], toc)
    /\ pc = [t \in Thread |-> "idle"]
    /\ op = [t \in Thread |-> NoOp]
    /\ snap = [t \in Thread |-> [c \in Coll |-> NoRef]]
    /\ todo = [t \in Thread |-> {}]
    /\ start = [c \in Coll |-> NoPoints] /\ hist = <<>>
    /\ acked = 0 /\ settled = 0 /\ walFrom = 0
    /\ mishaps = {} /\ reordered = {}
    /\ count = [writes |-> 0, calls |-> 0, downs |-> 0, errors |-> 0]

Goto(t, from, to) == pc[t] = from /\ pc' = [pc EXCEPT ![t] = to]
Free == lock = NoOne
Bump(f, max) == count[f] < max /\ count' = [count EXCEPT ![f] = @ + 1]

(* A thread in a checkpoint or a vacuum.                                    *)
Job == {"seal", "truncate", "mark", "compact", "vseal", "vtruncate", "done"}

(* The history notes the mishaps of S.                                      *)
Note(S) == mishaps' = mishaps \cup S
If(cond, kind) == IF cond THEN {kind} ELSE {}

(* t begins a checkpoint or a vacuum.                                       *)
NoteBeside(t) == Note(If(\E s \in Thread \ {t} : pc[s] # "idle", "overlap"))

-----------------------------------------------------------------------------
(* Writing: validate, log, apply, after_write.                              *)

(* Replay would accept the next append.                                     *)
Appendable == Replayed(wal) = wal /\ nextSeq = Len(wal) + 1

(* Wal::append under the journal lock: the entry is at the end of the file, *)
(* be it behind one that replay stops at or out of sequence.                *)
LogWrite(t, c, u) ==
    /\ up /\ ~closing /\ Free /\ t \in Writers
    /\ Note(If(~Appendable, "gap") \cup If(\E s \in Thread : pc[s] \in Job, "overlap"))
    /\ Goto(t, "idle", "sync")
    /\ Bump("writes", MaxWrites)
    /\ lock' = t
    /\ wal' = Append(wal, Entry(nextSeq, c, u))
    /\ hist' = Append(hist, [coll |-> c, upd |-> u, failed |-> FALSE])
    /\ op' = [op EXCEPT ![t] = [coll |-> c, upd |-> u, idx |-> Len(hist) + 1]]
    /\ UNCHANGED <<toc, epoch, flushed, nextSeq, up, closing, dataVars, snap, todo,
                   start, acked, settled, walFrom, reordered>>

(* ... fsynced in Full, and next_seq taken.                                 *)
FlushedByAppend == IF Durability = "Full" THEN Len(wal) ELSE flushed

LogDone(t) ==
    /\ Goto(t, "sync", "apply")
    /\ flushed' = FlushedByAppend
    /\ settled' = IF Durability = "Full" THEN op[t].idx ELSE settled
    /\ nextSeq' = nextSeq + 1
    /\ lock' = NoOne
    /\ UNCHANGED <<toc, epoch, wal, up, closing, dataVars, jobVars, start, hist, acked,
                   walFrom, noteVars, count>>

Tear(w) == [w EXCEPT ![Len(w)].torn = TRUE]

(* Mutant: the append failed and the write is applied all the same.         *)
LogError_Applies(t) ==
    /\ "appendError" \in Faults /\ Bump("errors", MaxErrors)
    /\ Goto(t, "sync", "apply")
    /\ wal' \in {wal, Tear(wal)}
    /\ hist' = [hist EXCEPT ![op[t].idx].failed = TRUE]
    /\ lock' = NoOne
    /\ UNCHANGED <<toc, epoch, flushed, nextSeq, up, closing, dataVars, jobVars,
                   start, acked, settled, walFrom, noteVars>>

(* The write or the fsync fails: the bytes that got there stay in the file, *)
(* next_seq is not taken, and the call returns the error unapplied.         *)
LogError(t) ==
    /\ "appendError" \in Faults /\ Bump("errors", MaxErrors)
    /\ Goto(t, "sync", "idle")
    /\ wal' \in {wal, Tear(wal)}
    /\ hist' = [hist EXCEPT ![op[t].idx].failed = TRUE]
    /\ op' = [op EXCEPT ![t] = NoOp]
    /\ lock' = NoOne
    /\ UNCHANGED <<toc, epoch, flushed, nextSeq, up, closing, dataVars, snap, todo,
                   start, acked, settled, walFrom, noteVars>>

(* The writes logged and not yet applied.                                   *)
InFlight == {op[t].idx : t \in {s \in Thread : pc[s] \in {"sync", "apply"}}}

(* The ids of t's write that a write logged behind it has set already.      *)
Overtaken(t) ==
    {i \in DOMAIN op[t].upd : \E n \in (op[t].idx + 1)..Len(hist) :
        /\ ~hist[n].failed /\ n \notin InFlight
        /\ hist[n].coll = op[t].coll /\ i \in DOMAIN hist[n].upd}

(* The journal lock is released; the batch is applied under the collection's*)
(* write lock, whatever was logged and applied in between.                  *)
Apply(t) ==
    /\ reordered' = reordered \cup ({op[t].coll} \X Overtaken(t))
    /\ Goto(t, "apply", "after")
    /\ mem' = ApplyTo(mem, op[t].coll, op[t].upd)
    /\ dirty' = [dirty EXCEPT ![op[t].coll] = @ \/ Touches(mem[op[t].coll], op[t].upd)]
    /\ UNCHANGED <<diskVars, nextSeq, lock, up, closing, sealed, base, jobVars, histVars,
                   mishaps, count>>

(* The call returns Ok.                                                     *)
Ack(t) ==
    /\ acked' = IF op[t].idx > acked THEN op[t].idx ELSE acked
    /\ op' = [op EXCEPT ![t] = NoOp]

(* after_write: the WAL's size is read under the journal lock.              *)
AfterWrite(t) ==
    /\ Free
    /\ \/ /\ Len(wal) < WalLimit
          /\ Goto(t, "after", "idle")
          /\ Ack(t)
          /\ UNCHANGED <<todo, mishaps>>
       \/ /\ Len(wal) >= WalLimit
          /\ Goto(t, "after", "seal")
          /\ todo' = [todo EXCEPT ![t] = Coll]
          /\ NoteBeside(t)
          /\ UNCHANGED <<op, acked>>
    /\ UNCHANGED <<diskVars, nextSeq, lock, up, closing, dataVars, snap, start, hist,
                   settled, walFrom, reordered, count>>

-----------------------------------------------------------------------------
(* Checkpoint: seal, commit, truncate, mark_sealed.                         *)

CallCheckpoint(t) ==
    /\ up /\ ~closing /\ t \in Checkpointers
    /\ Bump("calls", MaxCalls)
    /\ Goto(t, "idle", "seal")
    /\ todo' = [todo EXCEPT ![t] = Coll]
    /\ NoteBeside(t)
    /\ UNCHANGED <<diskVars, nextSeq, lock, up, closing, dataVars, op, snap, histVars,
                   reordered>>

(* The last handle is dropped when no call is running: checkpoint_inner.    *)
Close(t) ==
    /\ up /\ ~closing /\ \A s \in Thread : pc[s] = "idle"
    /\ Bump("downs", MaxDowns)
    /\ Goto(t, "idle", "seal")
    /\ closing' = TRUE
    /\ todo' = [todo EXCEPT ![t] = Coll]
    /\ UNCHANGED <<diskVars, nextSeq, lock, up, dataVars, op, snap, histVars, noteVars>>

(* Mutant: only mapped collections are carried forward.                     *)
CleanReuse_MmapOnly(c) == IF dirty[c] THEN NoRef ELSE base[c]

(* clean_reuse: the committed references of a collection not written since; *)
(* a mapped base comes first.                                               *)
CleanReuse(c) ==
    IF dirty[c] THEN NoRef ELSE IF base[c] # NoRef THEN base[c] ELSE sealed[c]

(* sealed_live_collections visits one collection, under its read lock and   *)
(* no other: references if it is clean, else its live points.               *)
SealCollection(t, c) ==
    /\ pc[t] = "seal" /\ c \in todo[t]
    /\ snap' = [snap EXCEPT ![t][c] =
                  IF CleanReuse(c) # NoRef THEN CleanReuse(c) ELSE Ref(0, mem[c])]
    /\ todo' = [todo EXCEPT ![t] = @ \ {c}]
    /\ UNCHANGED <<diskVars, nextSeq, lock, up, closing, dataVars, pc, op, histVars,
                   noteVars, count>>

(* A checkpoint or vacuum call ends: return to the caller, or, on the       *)
(* close path, the process is done.                                         *)
Return(t, ok) ==
    /\ pc' = [pc EXCEPT ![t] = "idle"]
    /\ todo' = [todo EXCEPT ![t] = {}]
    /\ snap' = [snap EXCEPT ![t] = [c \in Coll |-> NoRef]]
    /\ IF ok THEN Ack(t) ELSE op' = [op EXCEPT ![t] = NoOp] /\ UNCHANGED acked
    /\ up' = ~closing
    /\ UNCHANGED <<closing, start, hist>>

AllReused(t) == \A c \in Coll : snap[t][c].epoch # 0

(* commit: nothing to persist when all is carried forward and the WAL is    *)
(* empty; nothing is marked sealed.                                         *)
CommitNothing(t) ==
    /\ todo[t] = {} /\ Free
    /\ AllReused(t) /\ wal = <<>>
    /\ Goto(t, "seal", "mark")
    /\ UNCHANGED <<diskVars, nextSeq, lock, up, closing, dataVars, jobVars, histVars,
                   noteVars, count>>

(* commit, under the journal lock: Pager::checkpoint swaps in a TOC that    *)
(* references the carried segments and the ones it wrote.                   *)
Commit(t) ==
    /\ todo[t] = {} /\ Free
    /\ ~(AllReused(t) /\ wal = <<>>)
    /\ Goto(t, "seal", "truncate")
    /\ lock' = t
    /\ toc' = [c \in Coll |-> IF snap[t][c].epoch = 0 THEN Ref(epoch, snap[t][c].body)
                                                     ELSE snap[t][c]]
    /\ UNCHANGED <<epoch, wal, flushed, nextSeq, up, closing, dataVars, jobVars, histVars,
                   noteVars, count>>

(* set_len on the WAL: no entry is left.                                    *)
EmptyWal ==
    /\ wal' = <<>> /\ flushed' = 0
    /\ settled' = Len(hist) /\ walFrom' = Len(hist)

(* Mutant: the WAL is truncated although the commit failed.                 *)
CommitError_Truncates(t) ==
    /\ "commitError" \in Faults /\ Bump("errors", MaxErrors)
    /\ pc[t] \in {"seal", "vseal"} /\ todo[t] = {} /\ Free
    /\ EmptyWal
    /\ Return(t, FALSE)
    /\ UNCHANGED <<toc, epoch, nextSeq, lock, dataVars, noteVars>>

(* The commit fails before the swap, and the WAL stays as it was.           *)
CommitError(t) ==
    /\ "commitError" \in Faults /\ Bump("errors", MaxErrors)
    /\ pc[t] \in {"seal", "vseal"} /\ todo[t] = {} /\ Free
    /\ Return(t, FALSE)
    /\ UNCHANGED <<diskVars, nextSeq, lock, dataVars, settled, walFrom, noteVars>>

(* Wal::truncate, still under the journal lock; the TOC the commit returned *)
(* is what mark_sealed will record.                                         *)
Truncate(t) ==
    /\ \/ Goto(t, "truncate", "mark") /\ todo' = [todo EXCEPT ![t] = Coll]
       \/ Goto(t, "vtruncate", "done") /\ UNCHANGED todo
    /\ EmptyWal
    /\ nextSeq' = 1
    /\ snap' = [snap EXCEPT ![t] = toc]
    /\ lock' = NoOne
    /\ UNCHANGED <<toc, epoch, up, closing, dataVars, op, start, hist, acked, noteVars,
                   count>>

(* It fails, at set_len or after it: next_seq is not reset and the call     *)
(* returns the error, nothing marked sealed.                                *)
TruncateError(t) ==
    /\ "truncateError" \in Faults /\ Bump("errors", MaxErrors)
    /\ pc[t] \in {"truncate", "vtruncate"}
    /\ EmptyWal \/ UNCHANGED <<wal, flushed, settled, walFrom>>
    /\ lock' = NoOne
    /\ Return(t, FALSE)
    /\ UNCHANGED <<toc, epoch, nextSeq, dataVars, noteVars>>

(* mark_sealed on one collection of the committed TOC; a mapped base stays. *)
MarkSealed(t, c) ==
    /\ pc[t] = "mark" /\ c \in todo[t]
    /\ Note(If(~closing /\ base[c] \notin {NoRef, snap[t][c]}, "staleBase"))
    /\ sealed' = [sealed EXCEPT ![c] = snap[t][c]]
    /\ dirty' = [dirty EXCEPT ![c] = FALSE]
    /\ todo' = [todo EXCEPT ![t] = @ \ {c}]
    /\ UNCHANGED <<diskVars, nextSeq, lock, up, closing, mem, base, pc, op, snap, histVars,
                   reordered, count>>

(* The checkpoint call ends, or, past the tombstone threshold and not on    *)
(* the close path, escalates to a vacuum.                                   *)
CheckpointDone(t) ==
    /\ pc[t] = "mark" /\ todo[t] = {}
    /\ \/ /\ Return(t, TRUE)
          /\ UNCHANGED count
       \/ /\ ~closing /\ t \in Vacuumers /\ Bump("calls", MaxCalls)
          /\ pc' = [pc EXCEPT ![t] = "compact"]
          /\ todo' = [todo EXCEPT ![t] = Coll]
          /\ UNCHANGED <<up, closing, op, snap, start, hist, acked>>
    /\ UNCHANGED <<diskVars, nextSeq, lock, dataVars, settled, walFrom, noteVars>>

-----------------------------------------------------------------------------
(* Vacuum: compact in memory, write a fresh file, swap it in, truncate.     *)

CallVacuum(t) ==
    /\ up /\ ~closing /\ t \in Vacuumers
    /\ Bump("calls", MaxCalls)
    /\ Goto(t, "idle", "compact")
    /\ todo' = [todo EXCEPT ![t] = Coll]
    /\ NoteBeside(t)
    /\ UNCHANGED <<diskVars, nextSeq, lock, up, closing, dataVars, op, snap, histVars,
                   reordered>>

(* compact: the points stay; base and references go.                        *)
Compact(t, c) ==
    /\ pc[t] = "compact" /\ c \in todo[t]
    /\ base' = [base EXCEPT ![c] = NoRef]
    /\ sealed' = [sealed EXCEPT ![c] = NoRef]
    /\ dirty' = [dirty EXCEPT ![c] = TRUE]
    /\ IF todo[t] = {c}
       THEN Goto(t, "compact", "vseal") /\ todo' = [todo EXCEPT ![t] = Coll]
       ELSE todo' = [todo EXCEPT ![t] = @ \ {c}] /\ UNCHANGED pc
    /\ UNCHANGED <<diskVars, nextSeq, lock, up, closing, mem, op, snap, histVars,
                   noteVars, count>>

(* sealed_live_collections(allow_reuse = false).                            *)
SealFresh(t, c) ==
    /\ pc[t] = "vseal" /\ c \in todo[t]
    /\ snap' = [snap EXCEPT ![t][c] = Ref(0, mem[c])]
    /\ todo' = [todo EXCEPT ![t] = @ \ {c}]
    /\ UNCHANGED <<diskVars, nextSeq, lock, up, closing, dataVars, pc, op, histVars,
                   noteVars, count>>

(* Persistence::vacuum: create_compacted, then replace_with.                *)
SwapFile(t) ==
    /\ todo[t] = {} /\ Free
    /\ Goto(t, "vseal", "vtruncate")
    /\ lock' = t
    /\ epoch' = epoch + 1
    /\ toc' = [c \in Coll |-> Ref(epoch + 1, snap[t][c].body)]
    /\ UNCHANGED <<wal, flushed, nextSeq, up, closing, dataVars, jobVars, histVars,
                   noteVars, count>>

(* vacuum_inner returns; nothing is marked sealed.                          *)
VacuumDone(t) ==
    /\ pc[t] = "done"
    /\ Return(t, TRUE)
    /\ UNCHANGED <<diskVars, nextSeq, lock, dataVars, settled, walFrom, noteVars,
                   count>>

-----------------------------------------------------------------------------
(* Crash and recovery.                                                      *)

ProcessGone ==
    /\ up /\ Bump("downs", MaxDowns)
    /\ up' = FALSE /\ closing' = FALSE /\ lock' = NoOne /\ nextSeq' = 1
    /\ mem' = [c \in Coll |-> NoPoints]
    /\ dirty' = [c \in Coll |-> FALSE]
    /\ sealed' = [c \in Coll |-> NoRef] /\ base' = [c \in Coll |-> NoRef]
    /\ pc' = [t \in Thread |-> "idle"] /\ op' = [t \in Thread |-> NoOp]
    /\ snap' = [t \in Thread |-> [c \in Coll |-> NoRef]]
    /\ todo' = [t \in Thread |-> {}]
    /\ UNCHANGED <<toc, epoch, start, hist, settled, walFrom, reordered>>

Appending == \E t \in Thread : pc[t] = "sync"

(* kill -9: what was written to the WAL stays, except that the append in    *)
(* progress may have written part of its entry.                             *)
Kill ==
    /\ ProcessGone
    /\ \/ wal' = wal
       \/ "torn" \in Faults /\ Appending /\ wal' = Tear(wal)
    /\ UNCHANGED <<flushed, acked, mishaps>>

(* The points before the first entry of the WAL, and whether the TOC is     *)
(* already past them: the header is swapped, the WAL not yet truncated.     *)
BeforeWal == After(walFrom, Failed(walFrom))
TocAhead  == TocState # BeforeWal

(* The WAL has lost entries.                                                *)
Cut == Len(wal) < Len(hist) - walFrom

(* Power loss: entries no fsync covered may be missing from the end, the    *)
(* first missing one torn.  In Normal the writes since the last fsync are   *)
(* not promised any more.                                                   *)
PowerLoss ==
    /\ "powerLoss" \in Faults
    /\ ProcessGone
    /\ \E n \in flushed..Len(wal) :
          \/ wal' = SubSeq(wal, 1, n)
          \/ "torn" \in Faults /\ n > flushed /\ wal' = Tear(SubSeq(wal, 1, n))
    /\ Note(If(TocAhead /\ wal' # wal, "cut"))
    /\ flushed' = Len(wal')
    /\ acked' = IF Durability = "Full" THEN acked ELSE settled

(* open_with: load the TOC, replay the valid prefix of the WAL, take        *)
(* next_seq after it.  The file keeps whatever follows that prefix.         *)
Open ==
    /\ ~up /\ TocReadable
    /\ up' = TRUE /\ closing' = FALSE
    /\ LET w == Replayed(wal) IN
          /\ mem' = Recovered
          /\ dirty' = [c \in Coll |-> \E i \in 1..Len(w) :
                /\ w[i].coll = c
                /\ Touches(ApplyAll(TocState, SubSeq(w, 1, i - 1))[c], w[i].upd)]
          /\ nextSeq' = SeqAfter(w)
          /\ hist' = [i \in 1..Len(w) |-> [coll |-> w[i].coll, upd |-> w[i].upd, failed |-> FALSE]]
          /\ settled' = IF flushed < Len(w) THEN flushed ELSE Len(w)
          /\ acked' = IF Durability = "Full" THEN settled' ELSE Len(w)
          /\ start' = IF Cut THEN TocState ELSE BeforeWal
          /\ walFrom' = 0
    /\ base' = [c \in Coll |-> IF c \in Mapped THEN toc[c] ELSE NoRef]
    /\ sealed' = [c \in Coll |-> IF c \in Mapped THEN NoRef ELSE toc[c]]
    /\ UNCHANGED <<diskVars, lock, pc, jobVars, noteVars, count>>

(* Every call has returned, and the bounds allow no further one.            *)
Finished ==
    /\ \A t \in Thread : pc[t] = "idle"
    /\ UNCHANGED vars

Next ==
    \/ \E t \in Thread :
          \/ \E c \in Coll, u \in Updates : LogWrite(t, c, u)
          \/ LogDone(t) \/ LogError(t) \/ Apply(t) \/ AfterWrite(t)
          \/ CallCheckpoint(t) \/ Close(t) \/ CommitNothing(t) \/ Commit(t)
          \/ CommitError(t) \/ Truncate(t) \/ TruncateError(t) \/ CheckpointDone(t)
          \/ CallVacuum(t) \/ SwapFile(t) \/ VacuumDone(t)
          \/ \E c \in Coll : \/ SealCollection(t, c) \/ MarkSealed(t, c)
                             \/ Compact(t, c) \/ SealFresh(t, c)
    \/ Kill \/ PowerLoss \/ Open \/ Finished

Spec == Init /\ [][Next]_vars

-----------------------------------------------------------------------------
(* Properties.                                                              *)

(* Every variable keeps its shape.                                          *)
TypeOK ==
    /\ toc \in [Coll -> RefSet] /\ epoch \in Nat
    /\ \A i \in DOMAIN wal : wal[i].torn \/ (wal[i].coll \in Coll /\ wal[i].upd \in Updates)
    /\ flushed \in 0..Len(wal) /\ nextSeq \in Nat
    /\ lock \in Thread \cup {NoOne} /\ up \in BOOLEAN /\ closing \in BOOLEAN
    /\ mem \in States /\ dirty \in [Coll -> BOOLEAN]
    /\ sealed \in [Coll -> RefSet] /\ base \in [Coll -> RefSet]
    /\ pc \in [Thread -> {"idle", "sync", "apply", "after", "seal", "truncate", "mark",
                          "compact", "vseal", "vtruncate", "done"}]
    /\ snap \in [Thread -> [Coll -> RefSet]] /\ todo \in [Thread -> SUBSET Coll]
    /\ start \in States /\ acked \in 0..Len(hist) /\ settled \in 0..Len(hist)
    /\ mishaps \subseteq MishapKinds /\ reordered \subseteq Coll \X Id

(* No mishap so far.                                                        *)
NoMishap == mishaps = {} /\ reordered = {}

(* SPEC-003 section 4: were the process to end now, the next open would     *)
(* read a TOC of this file and recover every write that returned Ok, in     *)
(* WAL order, plus at most writes already in the WAL: no lost write, no     *)
(* hole, no part of a batch, across checkpoints, vacuums and earlier        *)
(* crashes.                                                                 *)
AckedSurvive == TocReadable /\ Recovered \in HistoryStates

(* So it is until the first mishap.                                         *)
RecoveryIsPrefix == NoMishap => AckedSurvive

(* The same as a step: through the writes, checkpoints, vacuums, closes and *)
(* crashes of this module, up to the first mishap, the file is the durable  *)
(* store of Durable.  Only a logged write changes what the next open would  *)
(* serve, by just that write; nothing else does but a crash or a failed     *)
(* append that takes back writes not promised.                              *)
Served == IF TocReadable THEN Recovered ELSE [c \in Coll |-> Absent]

D == INSTANCE Durable WITH
        Empty <- [c \in Coll |-> NoPoints],
        Update <- Coll \X Updates,
        Put    <- LAMBDA w, s : ApplyTo(s, w[1], w[2]),
        value <- Served,
        possible <- HistoryStates

ImplementsDurable == D!Init /\ [][NoMishap' => D!Next]_vars

(* SPEC-001, CORE-051: writes to a collection are serialized by the WAL     *)
(* appender.  With no write in flight the open collections hold exactly     *)
(* what replaying every logged write would build.                           *)
Diverged ==
    IF up /\ InFlight = {}
    THEN {ci \in Coll \X Id : mem[ci[1]][ci[2]] # After(Len(hist), Failed(Len(hist)))[ci[1]][ci[2]]}
    ELSE {}

WritesSerialized == Diverged = {}

(* Until the first mishap they hold it for every id but those whose writes  *)
(* were applied in another order than they were logged.                     *)
MemoryMatchesLog == mishaps = {} => Diverged \subseteq reordered

(* collection.rs: a clean collection is "provably in sync with the file":   *)
(* the references its next checkpoint would carry forward lead to exactly   *)
(* the points it holds, in the file the path names now.                     *)
CleanInSync ==
    \A c \in Coll : up /\ CleanReuse(c) # NoRef => CleanReuse(c) = Ref(epoch, mem[c])

(* So it is until the first mishap, a checkpoint of the close path aside:   *)
(* nothing is carried forward behind it.                                    *)
CleanMatchesFile == TypeOK /\ (NoMishap /\ ~closing => CleanInSync)

(* WAL-010: as long as no call has failed and replay accepts what the WAL   *)
(* holds, every append continues the sequence replay will accept.           *)
NextEntryReplayable ==
    count.errors = 0 /\ up /\ (\A t \in Thread : pc[t] # "sync") /\ Replayed(wal) = wal =>
       nextSeq = Len(wal) + 1

(* STG-052, "a checkpoint with nothing to persist": as long as no call has  *)
(* failed, a commit into the same file happens only with a write pending in *)
(* the WAL, or for a collection that has no references to carry forward, as *)
(* a vacuum leaves them.                                                    *)
IdleCheckpointWritesNothing ==
    [][NoMishap' /\ count.errors = 0 =>
          \A t \in Thread : pc[t] = "seal" /\ pc'[t] = "truncate" =>
             wal # <<>> \/ \E c \in Coll : sealed[c] = NoRef /\ base[c] = NoRef]_vars

=============================================================================
