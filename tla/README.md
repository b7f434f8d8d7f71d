# A verification development for VecLite

VecLite is an embedded vector database: one `.veclite` file, a WAL sidecar, and a
library that applications link. This directory holds TLA+ models of it, the TLC
configurations that check them on small instances, and proofs checked by TLAPS.
Paths below are relative to `src/crates/veclite/src/` unless they start otherwise.

## The system

| part | state it keeps | operations | hard because | correct when |
|---|---|---|---|---|
| Pager (`storage/pager.rs`, `header.rs`, `toc.rs`, `segment.rs`) | the file, `tail` | create, open, checkpoint, create_compacted, replace_with | page cache, power loss, I/O errors between six steps; renames and locks shared with other processes | a reopen finds the old or the new image, nothing committed is overwritten, one process serves the file |
| WAL (`storage/wal.rs`) | the sidecar, `next_seq` | append, sync, replay, truncate | torn tails, failing writes, stale sidecars | replay returns every durable entry, in order |
| Persistence (`persist/mod.rs`, `persist/seal.rs`) | the journal mutex over pager, WAL, generation | append, after_write, commit, vacuum, write_snapshot | what happens outside the mutex | an acknowledged write is in the TOC or in the WAL |
| Collection (`collection.rs`) | points in slots, an mmap base, `dirty`, `sealed` | upsert, delete, compact, seal, carry forward, search, scroll | two locks per write, references that go stale | memory is the log; a clean collection is in the file |
| Registry (`database.rs`) | name to collection, alias map, alias lists, next id | create, drop, rename, alias, unalias, replay | state kept twice, replay over a newer TOC | replay rebuilds what the operations built |
| Checkpoint and vacuum driver (`database.rs`) | none of its own | checkpoint, auto-vacuum, vacuum, close | reads collections before it takes the journal mutex | nothing acknowledged is truncated |
| Auto-embedding (`collection.rs`, `embedding/`) | vocabulary, `text_dirty`, `pending_vocab` | upsert_text, refit, search_text, import of a vocabulary | a refit in six steps with four locks taken and released | queries and stored vectors meet in one vocabulary, also after a crash |
| Filters (`filter/`) | typed payload indexes | matches, candidates | two evaluations of one filter, three number types | an index changes no result |
| Search (`collection.rs`, `query.rs`, `hybrid.rs`, `index/`) | the HNSW graph | dense, filtered, sparse, hybrid queries | lanes ranked and projected under different holds of the lock | hits are what was ranked, limits are filled |
| Image, codecs (`storage/image.rs`, `body.rs`, `iddir.rs`, `vectors.rs`, `mmap.rs`) | none | seal, load, serialize, verify | four readers of one format with different checks | what is accepted is read back; a clean verdict can be relied on |
| Interop (`interop/`, `src/crates/veclite-cli`) | the archive and its sidecar | export, import, verify | export while in use, two renames, an import that may fail halfway | what is lost is reported, no half import stays |
| Bindings (`src/crates/veclite-ffi`, `-py`, `-node`, `-wasm`) | a handle, the interpreter lock, clones | every database and collection call, close | callbacks under locks, handles dropped by several threads | no deadlock, close flushes, nothing commits after it |
| Quantization, SIMD, chunker, build tooling | see `PROJECT.json` | | | not modelled |

A write validates, appends to the WAL under the journal mutex (with an fsync in
`Full`), releases it, applies the batch under the collection's write lock, and in
`after_write` may run a checkpoint. A checkpoint reads every collection under its
read lock (or takes its committed segment references if it is clean), then under
the journal mutex commits through the pager and truncates the WAL, then marks the
collections sealed. A vacuum compacts every collection, writes a fresh file,
renames it over the old one and truncates the WAL. The registry serialises its
operations by a mutex and logs them to the same WAL. Opening loads what the TOC
references and replays the WAL on it. Text is folded into a vocabulary and stored
as vectors; the first text search after it refits: it fits the vocabulary to all
texts, upserts every document again and journals the vocabulary. The bindings
hold one database handle each and marshal arguments into these calls.

`PROJECT.json` lists every component and, under `hazards`, each thing that is
hard to test in this code at its line, with the properties that cover it.

## The modules

    Durable  <== Store            Pager     FileSwap     Registry     Bindings
    Filter <-- Slots <-- Search   Embed     Image        Interop
    (<== is implemented by, <-- is extended by)

**Pager** models one file: a header page and blocks at offsets, once in the page
cache (`hdr`, `blk`) and once on the platter (`dhdr`, `dblk`). `Pager::checkpoint`
is `BeginCheckpoint`, `AppendSegment`, `SyncSegments`, `AppendToc`, `SyncToc`,
`WriteHeader`, `SyncHeader`, one action per I/O call; `FailCheckpoint` is the `?`
after any of them. `Writeback` writes a dirty block back at any time. `Kill` loses
the process, `PowerLoss` also picks old, new or torn for every dirty block. `Open`
is `read_committed` and the loading of every segment. A segment and a TOC take a
block each; a CRC is collision free; the 4 KiB header page is atomic on disk, as
STG-011 assumes. `known`, `image` and `may` are what the caller holds, asks to
store, and may get back.

**FileSwap** models Pager's file from outside: inodes, the three paths (`db`, `new`,
`vac`) as the running system and as a power loss would find them (`dir`, `ddir`), the
advisory locks, and the sidecar, which has none. `StartOpen` .. `LockAndLoad` are
`open_pager` and `Pager::create` (remove the leftover, create, fill, look again,
rename, open, lock); `StartVacuum` .. `TruncateWal` are `Persistence::vacuum` and
`replace_with`, one action per system call; readers open `ReadOnly`. `Kill` ends one
process, `PowerLoss` all of them and may undo renames no fsync has covered. No open is
kept from another's creation or swap, because nothing in the code does; the history
`crossed` notes when one overlaps.

**Store** models a database with its callers. It takes from Pager what Pager's
properties give: a commit swaps the TOC atomically and durably, and a reference
keeps its meaning within a file (`epoch` counts files). `LogWrite`/`LogDone`/
`LogError` are `Wal::append` under the journal mutex, `Apply` the collection's
write lock, `AfterWrite` the size check; `SealCollection` is one step of
`sealed_live_collections`, `CommitNothing`/`Commit`/`CommitError`, `Truncate`/
`TruncateError`, `MarkSealed`, `CheckpointDone` the rest of a checkpoint;
`Compact`, `SealFresh`, `SwapFile`, `VacuumDone` a vacuum; `Close` the drop of the
last handle. Every lock release is a step boundary, so threads interleave where
they do in the code. The history variables `start`, `hist`, `acked`, `settled` and
`walFrom` record which writes were logged, acknowledged and made durable, `mishaps` what
has happened that the code may not survive (an append behind an entry replay stops at, `gap`;
a power loss that takes WAL entries the TOC already holds, `cut`; a checkpoint or a vacuum
beside another thread's call, `overlap`; a checkpoint that leaves a mapped base with its old
references, `staleBase`) and `reordered` the ids whose writes were applied in
another order than logged. Only properties read them, and a power loss, which
keeps what was made durable; no action waits for the absence of a mishap.

**Durable** is the promise itself: a store with a value and the values a crash may
still bring it to. A write puts its value there at once, a promise excludes older
values, and nothing brings an excluded value back. `Store!ImplementsDurable` states
that Store implements it, with `value` being what the next open would serve from the
TOC and the WAL, and `possible` the start state with those prefixes of the log that
contain every acknowledged write.

**Registry** models names, aliases, the alias lists and their replay. Operations
are serialised in the code and are one step each; the checkpoint is two (`SwapToc`,
`TruncateWal`), because a crash between them is what replay has to survive.

**Slots** models the inside of one collection, `CollectionData` in `data`: slots
appended and never reused, the id map, tombstones, payloads, the vectors of a
mapped `base` with the `overlay` behind them, the nodes of the HNSW graph, the
postings of the declared payload keys and the sparse lanes. `UpsertBatch`,
`DeleteBatch`, `Reindex`, `Compact` and `CreatePayloadIndex` are one step each because
the code holds the data lock throughout; `Reopen` is sealing the live points and
loading them again, as a base with or without a graph, or materialized. `points`, a
history variable, is what the callers asked for, the form in which Store sees a
collection. `scan` is a caller who walks the pages of `scroll`, each a `ScrollPage`,
while others write, compact and reopen; its history `lost` notes that the cursor's own id
was upserted, or deleted and compacted away.

**Filter** holds no state: `Matches` is `Filter::matches` on a payload, `Candidates`
what `PayloadIndexes` answers from typed postings, with the conversions between
integers and floats and the precision they lose (`Mantissa` scales 2^53). Slots keeps
the postings, Search asks both.

**Search** runs queries on Slots' collection. `Unfiltered` and `Filtered` are
`execute_query`: the exact scan below `SmallExactMax`, the graph (any of its nodes, as
many as asked for or fewer) with the fallback to the scan, the planner's choice between
candidates, scan and over-fetch. They hold one lock throughout and are operators; a
sparse query is `RankSparse` and `ProjectSparse`, a hybrid one `RankDense`,
`RankSparseLane` and `Fuse`, because the code releases the lock between them, and
any writer, compaction and reindex of Slots runs there. A slot number beyond the array ends a
query as "panicked". The histories `seen`, `touched` and `moved` are what was ranked, what of
it was written since, and that the slots were renumbered.

**Embed** models one auto-embedding collection: `FoldIn`, `WriteBatch` and `MarkDirty`
are `upsert_text_batch`, `RejectBatch` one that fails behind its first documents; `Gather`,
`FitAndEmbed`, `Rewrite` or `RewriteFails`, `Journal` and `ClearDirty` are `do_refit`, one action
per hold of a lock; `StartSearch` and `Query` are `search_text`; `Checkpoint`, `Truncate`,
`Crash`, `Open` and `BindEmbedder` are what recovery meets, with a provider that is there, or
comes later. Calls of several threads, deletions, checkpoints and crashes come between any
two of these steps. A vector is the set of its non-zero components and the statistics it was
computed from, which is all that comparing two vectors' vocabularies needs. Of the histories,
`mishaps` notes text calls and deletions that overlap a refit (`overlap`), rejected
batches, refits whose log fails (`logFails`), crashes between a refit's documents and its vocabulary
(`crashInRefit`) and providers registered after the replay of text (`late`), each only when it
changes something; `last` is the text each id was last given and `exposed` the ids written while a
refit that had gathered them was under way.

**Image** models what a file says of one collection: `Seal` is `seal.rs`, `LoadFile` with
`Load` and `LoadBased` the two tiers of an open, `ApplyEntry` the replay behind it,
`Deserialize` the image container and `Findings` `veclite verify`. `Damage` flips one
field of one frame or of the root; each reader checks what it checks in the code.

**Interop** models the graduation path. `StartExport`, `ReadAliases`, `SettleOne`, `ReadPoints`,
`ReadVocabulary`, `PublishArchive` and `PublishSidecar` are `export_vecdb`, one action per hold of
a lock and per rename, while `UpsertPoint`, `DeclareIndex`, `DropCollection` and `CreateAlias` go
on; `ReadSidecar` .. `CheckpointImport` are `import_vecdb` under the CLI's `import`. `IoError`
ends either at any step that reads or writes a file, and `DropHalf`, `RemoveFile`, `RemoveLog`
are the CLI's error path: the handle's destructor seals, the two removals may each fail.
An import notes (`apart`) that the pair it reads was not published together, and an archive's
entry whether an alias of its name was created during the export (`met`) and whether its
points and vocabulary are of one moment (`alike`).

**Bindings** models threads of a host program. A call is the sequence of lock operations
and effects its code performs (`Step` takes the next), so that the order of locks is
data taken from the source and not a choice of the model. `RustApi`, `CApi`, `PyApi` and
`NodeApi` are what each binding offers; `AllowThreads` is where the Python extension gives up
the interpreter lock; `DropHandle` is `Drop for VecLite`. The locks are those held while
another is asked for; the journal mutex and the data locks are leaves. Every thread may make
every call at any time; the history `met` notes that a call kept the interpreter lock beside
somebody in another call (`kept`), and that two references were dropped together (`together`).

**Ordered** is what sorting yields, for the hits of Search and the vocabulary a fit picks in
Embed. **PagerProof**, **FileSwapProof**, **StoreProof**, **RegistryProof**, **SlotsProof** (for
Slots and Search), **EmbedProof** and **BindingsProof** hold the theorems, **FoldLemmas** what
those about data need of folds, induction and orders. The `MC` modules add what TLC
needs: images, texts, points, filters, servers' archives, symmetries.

An upsert and a delete of a whole batch is one entry, one apply and one step in
Store as it is in the code, where a batch becomes visible under one write lock.

## The runs

Every configuration is one question. A passing run contains everything the module's actions
can do; where the code does go wrong on its own, a history variable notes that this has
happened, and the property names it as its exception. What a document or a comment of the
repository promises without that exception is a definition of its own, which the other
builds on (`RecoveryIsPrefix == NoMishap => AckedSurvive`); "Defects met while modelling"
says for each on which instance TLC refutes it. What is left out of an instance is in its
constants: kinds of fault (`Faults`, `FailSteps`, `DirSynced`, `Damages`), compared aspects
(`Aspects`), and data (points, filters, texts).

Three runs have a state constraint that ends a behaviour where the properties have become
true for good, because no history forgets: `Uncrossed` in `fileswap`, `NoMishapYet` in
`store_writers`, and in `embed` `Explored`, which goes on after an exception only for one
provider, two writes and no checkpoint (there `LastWriteStands` still says something), and
stops the providers whose components are no terms after two writes. `AskedOfTwo` in `search`
follows queries in several steps in collections that only two of the three ids were ever in.

| run | instance | shows |
|---|---|---|
| `pager` | 2 collections of which one changes, 6 blocks, 2 checkpoints, failing TOC write and TOC fsync | any order of writeback, kill, power loss, reopen, failed commits and carry-forward leaves the old or the new image |
| `fileswap` | 2 writing processes and a read-only one, 2 writes, 6 inodes, 2 kills, power losses or failing system calls | until an open crosses a creation or a swap: one owner, nothing half created, nothing acknowledged lost; a leftover blocks nobody |
| `store_full` | `Full`, 1 caller, 2 collections, 1 id, 3 writes, WAL limit 2, 2 checkpoint or vacuum calls, a failing commit or truncation, 2 power losses, kills or closes | the store implements Durable until a mishap; an idle checkpoint leaves the file alone |
| `store_writers` | `Normal`, 2 threads on one mapped collection, 2 ids, 3 writes, 1 checkpoint call, torn and stale WALs, a failing append, 2 power losses, kills or closes | interleaved writers: memory is the log but for reordered ids, and recovery is a prefix of it |
| `registry` | 3 names, 3 ids, 6 calls, 2 crashes | replay over either TOC, the two copies of the aliases, fresh ids |
| `slots` | 3 ids, 2 points, one index, 4 slots, pages of 1 | slots, overlay, graph, postings and scroll stand for the same points |
| `search` | 3 ids, 2 points with two typed keys and sparse lanes, 4 slots, 5 filters, limits 1 and 2, exact scan up to 1 point, over-fetch from 3; queries in steps with limit 2 | filters and indexes agree, limits are filled also by a graph with dead nodes, hits are what was ranked |
| `embed` | 2 threads, 2 documents, 3 texts over 3 terms, a vocabulary of 2, each kind of provider, 3 writes, 1 crash | queries and stored vectors meet in one vocabulary, recovery rebuilds it, an id is what its last write said |
| `image` | 2 ids, points with payloads of two depths, one the log's decoder refuses, 5 operations, one damaged field of each kind | what is sealed, or decodes from the log, is read back by every reader; a clean verdict opens |
| `interop` | a BYO and a text collection with 2 providers, an alias, three server archives, 4 operations, 1 crash, I/O errors | losses are reported, our own archives are not refused |
| `bindings` | 2 threads, 4 calls, each of the 4 hosts | no deadlock, every call returns, close flushes and is final |
| `store_checkpoint_race` | `Full`, a writer and a checkpointer | `AckedSurvive` refuted: the write is truncated (the finding in `PROJECT.json`) |

The properties, and what it takes to break them:

* `RecoverPreOrPost`: every choice of what survives a power loss is
  opened, at every step. `CommittedNeverOverwritten`: no step changes a block the
  cached or the durable header leads to. `GenerationMonotonic`: a reopened pager
  never commits a generation twice.
* `OneOwner`: of the processes that serve the database none writes beside another.
  `NeverHalfCreated`: what the path names has a complete first checkpoint, also in the
  directory a power loss leaves. `AckedRecoverable`: every acknowledged write is in what
  the path leads to, at every step of creation, swap and truncation. `ServedIsOnDisk`: a
  process works on what the next open would find. All four until an open overlaps a
  creation or a swap (`~crossed`). `LeftoversNeverBlock` (liveness): when
  nobody has the database, somebody will, or an open crosses.
* `RecoveryIsPrefix`: until a mishap, at every step, what opening would build from the
  durable TOC and WAL is the start state with a prefix of the logged writes that contains all
  acknowledged ones. `MemoryMatchesLog`: with no write in flight, memory is the log
  applied in order, except for ids in `reordered`. `CleanMatchesFile`: until a mishap, what the
  next checkpoint would carry forward is what the collection holds. `NextEntryReplayable`: until
  a mishap, an entry appended now would be
  replayed. `IdleCheckpointWritesNothing`: a commit touches the file only with a
  pending entry or a collection that has no references. `ImplementsDurable`: the
  refinement, until a mishap; it implies `RecoveryIsPrefix` and adds that a step never changes
  what a crash would bring back except to a later promise.
* `ReplayKeepsRegistry`, `IdempotentWithoutRename`: recovery over the pre- and over the
  post-checkpoint TOC rebuilds names, ids and aliases; pending renames, and drops, whose
  replay is defective (below), are excluded. `AliasesConsistent` and the aliases of
  `ReplayKeepsRegistry` are stated until the first recovery for the same reason.
  `FreshIds`: an id is never given twice, also across replay.
* `SlotsHoldPoints`: every id returns its last vector and payload together.
  `GraphServesSearch`: the graph has each live slot's vector, and no more dead nodes
  than the tombstones search over-fetches by. `PostingsExact`: an index selects what a
  scan selects. `ScanCoversOnce`: a scan returns every point nobody wrote to once, whatever is
  written, compacted and reopened between its pages, unless its cursor's id is `lost`.
* `PlannerMatchesScan`: candidates from typed postings, with or without a final check,
  select what matching every payload selects. `SearchFillsLimit`: a query returns as many
  hits as there are live points, up to its limit, and a graph that answers with as many nodes
  as it was asked for needs no scan after it, dead nodes or not. `HitsAsRanked`: unless the slots
  have `moved`, the hits of a sparse or hybrid query are points it ranked, each once, and one that nobody
  has written since has the payload that was ranked, which passes the filter.
* `StoredVectorsComparable`: until a mishap, each component of a stored vector means the term of
  its document under the vocabulary queries are embedded with. `QueryMeetsOneVocabulary`: after
  a text search in a process that has written text, all documents were embedded with its
  statistics, unless calls overlapped, a batch was rejected or a refit's log failed.
  `RecoveryConverges`: a crash now would recover documents and vocabulary as they are, also after
  a crash in the middle of a refit. `LastWriteStands`: an id is what its last upsert or delete said,
  unless it was written while a refit that had gathered it was under way.
* `AcceptedIsRecoverable`: a point the API accepted and sealed, or logged in an entry that
  decodes, is loaded again by both tiers and by the image. `CleanVerdictOpens`: a file `verify`
  has no finding for opens, if the log decodes, which `verify` does not try.
* `NothingLostSilently`: of a server's or our own archive, each aspect (provider, codec,
  indexes declared at creation, aliases, vocabulary, points, policies) is there after the import
  or in a warning, if the pair was published together. `OwnArchivesImport`: an import fails for an
  I/O error, for a pair that does not belong together or for a server's archive, and for one of
  ours only if an alias was created under the name of a collection listed for the export.
* `NoCircularWait`, `EveryCallReturns` (liveness): no set of threads waits for itself, and
  every call returns, unless a call kept the interpreter lock beside another. `CloseFlushes`:
  when the last reference is gone nothing acknowledged before is only in the log, unless two were
  dropped together. `NoCommitAfterClose`.

The bounds. Two checkpoints after the created file are enough for a commit that carries references
of the one before, and a failed one between them; six blocks hold the created TOC, a full checkpoint
and one that carries a segment, and what does not fit is `ENOSPC`. Two writing processes are the
least that contend, a reader adds the shared lock; six inodes are more than two processes and three
names can use at once. Two ids make the order and the completeness of a batch visible; one value is
enough in Store because deletions provide the contrast. Two writes give a log in which order
matters, three one that crosses the WAL limit of two and goes on. Three names let a rename chain
return a name to another collection. Three ids with pages of one leave a point before, at and behind
a cursor, and a fourth slot one replacement (batches of two replace their own first point as well).
Three points make the planner choose each of its ways; with a limit of one a tombstone does not yet
send an unfiltered query to the exact scan, so that the graph answers with dead nodes in it, and a
limit of two leaves a hit out. Two ids suffice for a query to lose its slots to a compaction and its
hits to a writer. The code's thresholds are scaled (`SmallExactMax`, `PostfilterMinLive`,
`FusionFetch`, `RrfK`, `Mantissa`, `MaxDepth`). `Scale` is a common multiple of the denominators of
the fused scores, so that TLC compares fractions as integers; `LogWeight` likewise stands for the
products of a count and a logarithm by which `TfIdf` sorts. Three terms for a vocabulary of two make
a term drop out; two documents let a refit change one that no write touched; a third write arrives
during the refit the second one caused. Four operations on the two databases of `interop` are a
write, a declaration, a drop and an alias between the reads of one export. A circle of waits may
need three threads, as the table shows for the aliases; `bindings` has two, which is what its
liveness property allows, and `ThreadsNeverWaitInACircle` is proved for any number. `MaxGen`,
`MaxOff`, `MaxWrites`, `MaxCalls`, `MaxDowns`, `MaxErrors`, `MaxId`, `MaxSlots`, `MaxFiles`,
`MaxFaults`, `MaxCrashes` and `MaxOps` appear in guards only. `FileSwap`, `Image`, `Interop` and
`Bindings` run with `CHECK_DEADLOCK FALSE`: their bounded operations come to an end; that `Bindings`
ends only with every call returned is `EveryCallReturns`. In the others deadlock is checked; in
Store and Registry `Finished` is the stuttering of an application that makes no further call, the
rest always have a step.

Fairness. `FileSwap` assumes that a running process goes on with the call it is in
(`OpenStep`, `VacuumStep`) and that a program which needs the database opens it again
(`StartOpen`), each weakly and per process: they are system calls without waiting (the
advisory lock is tried, never waited for), and the operating system schedules a running
process. `Bindings` assumes weak fairness of each thread's next step: the locks are
mutexes of a running process, a step that waits for one is not enabled, and nothing is
assumed of the order in which waiters are served. The other modules have no progress
obligation but lock acquisition and return.

Symmetry: ids and (in `store_full`, where nothing tells them apart) collections in Store,
names in Registry, ids in Slots, threads in Embed are interchangeable; the other runs have no
symmetry set, and no run with symmetry checks liveness.

### Defects met while modelling

Besides the finding, each of these was seen as a counterexample: TLC refutes the property of the
last column on the instance of the third, which is the named run's with these changes (the
property as its only `INVARIANT` or `PROPERTY`, no `CONSTRAINT`). "small" is Store with one thread that
writes to one collection, one id, `Full`, `WalLimit` 9, three writes, one crash, and no fault,
checkpointer or mapped collection but those named. The passing runs record the same events in
their histories.

| what the code does | where | instance | refutes |
|---|---|---|---|
| a failing fsync of the header leaves `tail` behind the chain it may have published | `storage/pager.rs:290` | `pager`, `FailSteps = {"syncHeader"}` | `NeverCorrupt` (STG-051) |
| processes that create share one temporary path; the existence check and the rename are two steps | `storage/pager.rs:106` | `fileswap`, no fault | `AckedDurable` (SPEC-003) |
| the lock is released before the rename of a swap | `storage/pager.rs:178` | `fileswap`, no fault | `ExclusiveOwner` (STG-060) |
| the rename is not followed by an fsync of the directory before the WAL is truncated; safe only where an fsync of the file carries the rename | `persist/mod.rs:376` | `fileswap`, one process, `DirSynced = FALSE` | `AckedDurable` |
| two writers of one collection apply in another order than they logged | `collection.rs:684` | small, two threads write | `WritesSerialized` (CORE-051) |
| a checkpoint sealed before a concurrent vacuum commits references of the old file | `database.rs:345` | small, two collections, a checkpointer and a vacuumer in threads of their own | `AckedSurvive` |
| `mark_sealed` clears the dirty flag of a write that came in since, or records references a vacuum has made stale | `collection.rs:1718` | small, a checkpointer in a second thread | `CleanInSync` |
| a clean mapped collection carries forward its base's references, also when a checkpoint has sealed newer ones since | `collection.rs:1703` | small, two collections, one mapped, two checkpoint calls | `AckedSurvive` (SPEC-003) |
| after a torn tail the next append lands behind the gap | `storage/wal.rs:189` | small, `torn`, two crashes | `AckedSurvive` |
| a failed append leaves its bytes and not its sequence number | `storage/wal.rs:171` | small, `appendError` | `AckedSurvive` |
| a truncation failing after `set_len` leaves `next_seq` past 1 | `storage/wal.rs:244` | small, `truncateError`, a checkpoint call | `AckedSurvive` |
| a foreign sidecar is appended to | `storage/wal.rs:142` | small, `staleWal` | `AckedSurvive` |
| in `Normal`, a power loss can cut the WAL to a beginning older than the header that was swapped in | `persist/mod.rs:343` | small, two ids, `Normal`, `powerLoss`, a checkpoint call | `AckedSurvive` |
| replay of a rename over the newer TOC loses a collection | `database.rs:236` | `registry` | `ReplayIsIdempotent` (WAL-042) |
| replay of a rename does not re-point aliases, and replay of a drop keeps them | `database.rs:228`, `:214` | `registry` | `ReplayKeepsLookup` |
| a cursor whose id was upserted, or deleted and compacted away, skips or repeats | `collection.rs:1060`, `:1066` | `slots`, no symmetry | `EveryVectorOnce` |
| a declared index answers `Exists` and `Range` without the values that are not of its kind | `filter/index.rs:54` (SPEC-006:43, :48) | `search`, `Point <- MixedPoints`, no asked filter | `PlannerMatchesScan` |
| ranked slot numbers are projected under another hold of the lock: outside the array, or from another point | `collection.rs:1019` | `search`, two ids, limit 2, the one filter `Untagged` | `NoPanic` (API-041), `HitsPassFilter` (HYB-011) |
| a refit writes back documents deleted or changed since it gathered them | `collection.rs:821` | `embed`, two texts, `bow`, no crash | `RefitOnlyReembeds` (EMB-031) |
| a refit clears the mark of a text that came in meanwhile | `collection.rs:868` | the same | `QueryReflectsCorpus` |
| a failed batch leaves its texts folded into the vocabulary, where replay does not find them | `collection.rs:808` (EMB-031, SPEC-005:65) | `embed`, one thread, `bow` | `RecoveryReproducesTerms` (EMB-030) |
| a crash between the rewritten documents and the journalled vocabulary | `collection.rs:857` | `embed`, one thread, `bow` | `ComparableAfterCrash` (EMB-030) |
| the database object's destructor and `register_embedder` keep the interpreter lock | `src/crates/veclite-py/src/lib.rs:163`, `:671` | `bindings`, `Hosts = {"python"}` | `ReacquiringIsSafe` |
| two last handles dropped together each see the other (SPEC-009:61) | `database.rs:975` | `bindings`, `Hosts = {"rust"}` | `LastDropFlushes` (WAL-050) |
| indexes declared at run time are not exported, and no warning says so | `interop/export.rs:292` | `interop`, `Aspects` with `indexes` | `NothingLostSilently` (IOP-022) |
| archive and sidecar are published by two renames | `interop/export.rs:346` | `interop` | `NeverSilent` |
| points and vocabulary are read under separate holds of the locks | `interop/export.rs:205`, `:265` | `interop` | `ArchiveScoresAlike` |
| a failed import seals what it has, and its two removals may fail | `src/crates/veclite-cli/src/main.rs:256`, `:264` | `interop` | `NoHalfImport` |
| a payload deeper than the decoder allows is accepted and makes the log unreadable (SPEC-006:15) | `persist/wal_body.rs:17` | `image` | `NestedStoredVerbatim` (FLT-002) |
| a mapped segment's type byte and uncompressed length are not checked (its body's CRC is, `mmap.rs:90`): with a type byte damaged into another kind's an open serves the collection without that segment, and only `verify` notices (STG-021, SPEC-002:57) | `storage/mmap.rs:54` | `image` | `NeverWrongAnswer` |

Seen in the models, and without a property of their own: a name may be a collection and an alias
(`database.rs:702`). A refit whose log fails has taken the mark and keeps its vocabulary
(`collection.rs:856`, `:868`; `logFails`). Text replayed before its provider is registered is never
folded in (`database.rs:236`; `late`). `create_alias` and `delete_alias` keep the interpreter lock while
they wait for the registry, whose holder waits to insert into the map, which a checkpoint iterates
while an embedder's state is exported (`src/crates/veclite-py/src/lib.rs:645`, `database.rs:734`): a
circle of three threads. An alias created during the export under the name of a collection still
listed for it makes an archive of our own that the import refuses halfway (`met`). Sparse lanes, and
texts of providers that are not exported, are dropped without a warning (`interop`, `Aspects` with
`sparse`, `text`).

A vacuum, besides, leaves every collection dirty (`database.rs:425`): the checkpoint
after it rewrites them all. `IdleCheckpointWritesNothing` allows that.

Noted while reading and in no model: unknown segments that SPEC-002:75 (STG-022) calls
ignorable are rejected; `serialize` omits the indexes declared at run time
(`database.rs:497`); an index key above 64 KiB is accepted and every later checkpoint
fails; an empty sparse vector comes back as none; the Node and WASM bindings truncate
`bits` to a byte; `apply_hit_projection` reads again after the search
(`src/crates/veclite-ffi/src/lib.rs:779`) and `vl_db_info` looks up what it listed
(`:1404`); an id with a NUL byte is accepted in a batch and then fails every search that
hits it (`:672`); `vl_scroll` documents id order and delivers slot order (`:1198`); a
snapshot is not of one moment (`database.rs:621`); the chunker ends with text left when
`max_chars` is smaller than the next character (`chunk.rs:103`); a `similarity` of packed
codes fails for dimensions that do not fill the last byte (`quantization/scalar.rs`).

## The proofs

Checked by TLAPS, for every value of the constants under the assumption named.

`PagerProof`: the four properties of the run `pager` and `NeverCorrupt`, for every set of
collections and bodies, every volume size and bound, and every set of failing steps that excludes
the write and the fsync of the header page (`HeaderReliable`; with `syncHeader` in `FailSteps` TLC
refutes `NeverCorrupt`, so it is needed).

* `TypeCorrect`: `Spec => []TypeOK`;
* `CrashRecovery`: `Spec => []RecoverPreOrPost`;
* `OpenSucceeds`: `Spec => []NeverCorrupt`;
* `NothingCommittedIsOverwritten`: `Spec => CommittedNeverOverwritten`;
* `HeaderGenerationsGrow`: `Spec => GenerationMonotonic`.

None of these is inductive. A power loss is safe because both headers lead to
settled blocks (`ChainsSound`); those stay settled because appends go beyond them
(`TailBeyondChain`) and because the references a caller carries forward lead to
settled segments with the caller's contents (`CallerRefsSound`); and the header
that is swapped in has a settled chain because of what the running checkpoint has
done by each step (`JobSound`). `IInv` is their conjunction with the types, and
`Invariance` proves it, one step per action and per conjunct an action disturbs.
The properties follow from `IInv` by the lemmas on `Survive`, which say that a
settled block survives any choice of fates. Generations need `GenAhead` besides: the
counter is ahead of the header until the running checkpoint has written its own.

`FileSwapProof`: the four safety properties of the run `fileswap`, for any number of
processes, readers, writes, inodes and faults, where an fsync of a file carries the renames before
it (`Journalled`; TLC refutes `AckedDurable` without). The properties except what follows an
open that crosses a creation or a swap, and so does the invariant: `Spec => [](~crossed => IInv)`.

* `OneProcessServes`: `Spec => []OneOwner`;
* `CreationIsAtomic`: `Spec => []NeverHalfCreated`;
* `SwapLosesNothing`: `Spec => []AckedRecoverable`;
* `MemoryIsOnDisk`: `Spec => []ServedIsOnDisk`.

It says where everybody is: who creates or swaps is alone (`Alone`: another open would have
crossed), so that a
handle is on the file the path names and holds its lock (`Handles`, `LockHolders`,
`LocksCompatible`); what is renamed onto the path is complete and holds the memory of the
process that swaps (`Complete`); the three names lead to different files, also in the
directory a power loss would bring back (`NamesApart`); the sidecar carries the uuid of the
live file (`Identity`), without which replay would skip it; and both files the path may
lead to hold, with the sidecar, every acknowledged write (`Safe`), the live one exactly what
its processes serve (`Served`). That a new file gets a uuid no other has is a counting
argument, `FreshUuidIsThere`.

`StoreProof`: the six properties of the runs `store_full` and `store_writers`, the refinement
included, for any threads, collections (mapped or not), ids, values, faults and bounds. Who
writes, checkpoints and vacuums is not restricted; the invariant holds until the first mishap and
while no id was applied in another order than logged: `Spec => [](NoMishap => IInv)`.

* `Recovery`: `Spec => []RecoveryIsPrefix`;
* `MemoryIsLog`: `Spec => [](reordered = {} => MemoryMatchesLog)`, writers of one collection between
  journal and data lock included; that after a reordering all *other* ids still match is
  model-checked (`store_writers`);
* `CleanIsFile`: `Spec => [](NoMishap => CleanMatchesFile)`;
* `AppendsReplayable`: `Spec => [](NoMishap => NextEntryReplayable)`;
* `IdleCheckpoint`: `Spec => IdleCheckpointWritesNothing`;
* `IsDurable`: `Spec => ImplementsDurable`, in `Full`.

`IInv` relates the four places that hold a write. The entries replay would accept are the history
behind its first `walFrom` writes (`Log`); the TOC holds some beginning of the history that ends
inside the WAL (`File`); memory is all of it but the writes in flight (`Memory`); what is promised
is among what would be replayed (`Promises`). So a recovery replays the WAL over a TOC that may hold
a part of it already, and that gives all of it, because the last write to an id wins wherever the
replay begins (`ReplayFrom`). `Alone` says that a checkpoint or a vacuum has the handle to itself
(else it `overlap`s), `Appends` and `Written` what a write has done by each step, `Jobs` that what a
checkpoint or a vacuum has sealed, committed or is to mark still is what memory holds, `Clean`,
`Dirty` and `Sequence` when a reference may be carried forward and when an append can be replayed.
`NextStep` proves it, with a lemma per action. For the refinement every action is shown to be one of
Durable's steps or to change neither the value nor the possible values, by the same lemmas that say
what `Recovered` is in each state. `Normal` is not in `IsDurable`: there a power loss takes back
writes that a kill may not, and Durable knows one kind of crash.

`RegistryProof`: the four properties of the run `registry`, and `ReplayKeepsCollections`,
for every set of names and operations and every bound.

* `AliasesStayConsistent`: `Spec => []AliasesConsistent`;
* `IdsStayFresh`: `Spec => []FreshIds`;
* `CollectionsSurvive`: `Spec => []ReplayKeepsCollections`;
* `RegistrySurvives`: `Spec => []ReplayKeepsRegistry`;
* `ReplayIdempotent`: `Spec => []IdempotentWithoutRename`.

The first speaks of ids and is restated by name (`ListedLeads`, `LeadsListed`); to be inductive
it needs that no collection has two names (`OneName`) and that a new id is not in use. Only
live operations take part: replay of a rename or a drop does break the agreement (see the
table). For the others the invariant says what the disk says: replaying the WAL over the TOC gives
the live collections (`OnDisk`), and every id on disk is below the next one (`Typed`), for
which replay of an entry must do to a recovered registry what the operation did to the live one
(`ReplaySame`). For aliases, which a recovery may order differently, it must say of each
who decided it (`LeadsLast`). Idempotence is about a replay that begins where the log ends:
`LogTells` is what the entries since the last truncation say of the registry they made (an id
is created first and dropped last, the last entry about a name or an alias is what holds), and
`ReplayAgain` follows the replay over that registry entry by entry, with what has settled so
far and what a later entry will set right.

`SlotsProof`: the four properties of the run `slots`, for any finite set of ids, any points
and declarable indexes, any page size and number of slots.

* `HoldPoints`: `Spec => []SlotsHoldPoints`;
* `GraphServes`: `Spec => []GraphServesSearch`;
* `PostingsAreExact`: `Spec => []PostingsExact`;
* `ScanCovers`: `Spec => []ScanCoversOnce`, whatever is written, compacted and reopened between
  the pages.

The invariant (`HoldInv`) relates the arrays. The id map leads to the last slot that carried
the id, and to the point the callers asked for (`Mapped`); the tombstones are exactly the
other slots (`Entombed`); a node of the graph has its slot's vector, so that there is one per
slot, and every live slot has one (`Graphed`); the postings are those of the live slots
(`PostedOf`). Every operation on a batch is a fold, followed element by element
(`UpsertTrace`, `DeleteTrace`, `PostTrace`): what is written lands behind the slots there
were, and the others are left as they were. Compaction and both ways to reopen number the
live points again in their order (`LivePointsAre`), so that the slots afterwards correspond
one to one to the live slots before (`Renumbered`). That is what a scan needs: its invariant
(`Covered`) says that the cursor's slot separates the slots whose ids were returned from
those whose ids were not, and a renumbering that keeps the order keeps the separation.
`TypeOK`, a conjunct of `SlotsHoldPoints`, is proved with it.

In the same module, the three properties of the run `search`, for any filters, limits,
thresholds, weights and payloads.

* `SearchFills`: `SearchSpec => []SearchFillsLimit`;
* `PlannerExact`: `Conforming => (SearchSpec => []PlannerMatchesScan)`;
* `HitsAreRanked`: `SearchSpec => []HitsAsRanked`, with any writer, compaction and reindex between
  the query's steps.

The first two are about a query under one hold of the lock and follow from `HoldInv`, which
the steps of a query leave alone. A search asks the graph for the dead nodes besides what
it was asked for; the theorem does not rely on getting them: whatever set of its nodes the graph
answers with, either enough of them are live or the exact scan runs. `PlannerExact` takes
the planner branch by branch: the candidates of a filter that needs no check are the slots it
matches, of one that needs a check a superset, by the structure of the filter, given that
postings are exact. `Conforming` says that every stored value is of the kind of the index on its
key, that filters ask for equality with no float, and that integers on either side are
exact as an `f64`; without it an index leaves matches out (the row `filter/index.rs:54` of the
table). `HitsAreRanked` needs an invariant of its own
(`QueryInv`), because sparse and hybrid queries come back to another collection than they left:
every id ranked so far passes the filter and, if nobody wrote it since, is held by the point it
had; and unless the slots were renumbered, every slot kept carries an id that was ranked
(`Ranking`), those of a sparse query different ones (`SlotsLive`). What an operation leaves to a query
is two notions: the points of the ids it does not write (`Leaves`), and, if it does not
renumber, every slot's id (`Numbers`).

`EmbedProof`: the four properties of the run `embed`, for any threads, ids, texts, dimension,
providers, weights, and any number of writes and crashes. The theorems have no premise: the
exceptions are those the properties state, by what has happened.

* `EmbedTypes`: `Spec => []TypeOK`;
* `LastWriteKept`: `Spec => []LastWriteStands`;
* `QueriesMeetOneVocabulary`: `Spec => []QueryMeetsOneVocabulary`;
* `RecoveryExact`: `Spec => []RecoveryConverges`;
* `StoredComparable`: `Spec => []StoredVectorsComparable`.

The invariants are layered. `EmbedInv` holds always: types; that a call runs only in a
process with its provider; and that what the WAL replays over the file is the documents there
are (`DocsSurvive`), also over the file a checkpoint has just swapped in, for which replaying
twice must be replaying once. `LastInv`, on top of it, holds always too: of an id not `exposed`, the
document a recovery would find, and what any refit under way has gathered of it, are what its last
write said; so a refit that overlaps writes, deletions and other refits brings nothing back, of
the ids nobody wrote meanwhile. `ApartInv` holds until calls overlap: what a refit gathered is still
all there is. `FreshInv` says, of a
process that has written text since it opened the database (`touched`), that with no call under way
every document is embedded with the vocabulary there is now, or the mark is set, and that a
search that takes the mark makes the former true before it asks. `VocabSurvives` is about recovery:
every term comes back at its index, with the one text in flight accounted for. Statistics do
not always come back: texts that a checkpoint has sealed into the file's vocabulary and that are
replayed over it once more are counted twice, and no mark is left. That is why
`RecoveryConverges` speaks of terms and `QueryMeetsOneVocabulary` of a process that has
written. `ComparableInv` follows the meaning
of a component through a refit: what is logged is comparable with the new vocabulary, what a
recovery would find with the one that is recovered, and between the rewritten documents and the
journalled vocabulary, where a crash breaks it, with neither. The proofs rest on what
`Replay` does entry by entry (`IsReplay`) and on a term, once it has an index, keeping it when texts
are added (`Absorbed`, `Begins`). Of `LogWeight` they assume numbers, no more: any order of
the terms by weight, with ties by name, is a vocabulary.

`BindingsProof`: the three safety properties of the run `bindings`, for any set of threads, any
hosts and any number of calls.

* `ThreadsNeverWaitInACircle`: `Spec => []NoCircularWait`;
* `NothingAfterTheLast`: `Spec => NoCommitAfterClose`;
* `LastOneFlushes`: `Spec => []CloseFlushes`.

A call is a sequence of steps, so its discipline is a path (`Runs`): the locks held before and
after each step, asked for in the order registry, shard, embedder, interpreter lock. Every
call is shown to be such a path (`CallsLoop`, `AllowLoops`), a step follows it (`StepRuns`), and
threads that wait ask for higher locks than they hold, so that a circle would have to climb for
ever (`NoCircle`). Python calls that keep the interpreter lock break the order. `WaitInv` says
for each thread that it is in order, or that nobody else is in a call (`Alone`), or that it asks
for the registry only and no other is in it or will be (`Aliasing`); when neither is so, a call
has kept the interpreter lock beside another and `met` says "kept". For the handles the
invariant is about what a call has ahead (`HandleInv`): it releases references that exist, no
two calls the same, and behind every commit it still releases one or ends its use of a handle
nobody drops. `FlushInv` says who flushes while something is owed: the owner of a handle nobody is
dropping, somebody with a commit ahead, or somebody who has yet to count the references; who
counts more than its own leaves one of the others behind.

`FoldLemmas`: induction over numbers, stated with a set instead of an operator (`SetInduction`,
`BoundedInduction`), and from it that `FoldLeft` runs its operator along the sequence
(`FoldIsIterate`, `IterateSteps`); that is what makes replay accessible to proof. And orders: a
finite set with one has a first element (`FirstExists`), hence an order of its own
(`OrderedExists`), which is what `Sorted` of Ordered chooses (`SortedIs`). StoreProof begins with
lemmas about the replay of a log: `Concatenation`, `Overwrite` (a log that sets an id makes it
forget what was there), `ReplayAgain` (replaying over the result changes nothing), `ApplyLate` (a
write of one's own collections may be applied after later ones of others), and what an append, a cut
and a torn entry do to the part of a WAL that is valid (`ValidAppend`, `ValidCut`, `ValidTear`).

Model-checked only: the four properties of Image and Interop (two each), whose readers, encoders and
archives are explored over every field of a small instance; and the liveness properties
`LeftoversNeverBlock` and `EveryCallReturns`, whose fairness needs `ENABLED`.

## Not modelled, and the plan

`PROJECT.json` gives the reason per component. Not modelled at all: quantization (codebooks
vendored from `vectorizer-core`; floating point, computed by `reindex` and read by no
search), the SIMD kernels (the same), the chunker (a pure function), build tooling. Within the
modelled components: byte layouts, framing and encodings; scores, which are ranks here;
weights of the embedding providers; argument conversion in the bindings; WASM, which is
single-threaded and in memory; the HNSW graph, an external crate that is taken to
return any of its nodes. A crash during an import
(`CrashImport`) leaves what was journaled, which `NoHalfImport`, about imports that end with an
error, does not speak of.

What is left, most important first:

1. **Slots as a refinement** of the map from ids to values that Store has for a collection.
2. **Image and Interop**: `AcceptedIsRecoverable` and `OwnArchivesImport` for any points and archives.
3. **Store**: `MemoryIsLog` for the ids not in `reordered`, which needs the invariant `Memory` id by id;
   and a narrower `overlap`, that is, which writes beside a checkpoint are safe.
4. **Handles of a deleted collection**: a deletion in its steps (log entry, map, flag, base) against
   callers that have passed `guard()` and wait for the lock, and against a vacuum's rename. The
   code protects neither the caller on a mapped collection (`drop_base_unchecked`,
   `collection.rs:1732`: it looks for the base's vectors in the overlay) nor, between the map
   and the base, the rename; the hazard list has the former without a property.
