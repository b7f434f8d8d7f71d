------------------------------ MODULE Bindings ------------------------------
(***************************************************************************)
(* The handles a host program holds on a database and the locks its calls   *)
(* take: the Rust API (clones of VecLite), the C ABI (one boxed handle),    *)
(* the Python extension (one handle, calls made under the interpreter lock, *)
(* embedders that are Python objects) and the Node addon (one handle behind *)
(* an Option, a clone of it per asynchronous operation).                    *)
(*                                                                         *)
(* A call is the sequence of the lock operations and effects its code       *)
(* performs; threads interleave between any two of them.  Collection        *)
(* handles keep the journal alive, not the database (collection.rs,         *)
(* WalSink), so their calls go on after the last database handle is gone.   *)
(***************************************************************************)
EXTENDS Naturals, FiniteSets, Sequences

CONSTANTS
    Thread,     \* the threads of the host program
    Main,       \* the owner of the handle the C, Python and Node bindings box
    Hosts,      \* the bindings explored, a subset of AllHosts
    MaxCalls    \* BOUND: calls made in all

AllHosts == {"rust", "c", "python", "node"}

ASSUME BindingsAssumption ==
    IsFiniteSet(Thread) /\ Hosts \subseteq AllHosts /\ MaxCalls \in Nat

(* The locks a thread may wait under: the interpreter lock, the mutex of    *)
(* the one embedder instance a provider has, the registry mutex, and the    *)
(* collections map's shard lock, which its readers share.  The journal      *)
(* mutex, a collection's data lock and the shard's write lock are held      *)
(* while no other lock is asked for: what they guard is one step.           *)
Locks == {"gil", "embedder", "registry", "shard"}

VARIABLES
    host,       \* the binding in use
    held,       \* held[l]: the threads holding lock l
    todo,       \* todo[t]: the steps left of t's call, <<>> when it has returned
    calls,      \* calls made so far
    refs,       \* the strong references to DatabaseInner
    wal,        \* some write is in the log and not yet in the file
    owed,       \* ... and was acknowledged before the last handle was dropped
    met         \* HISTORY: the meetings of calls so far that the code does not
                \* arrange for, see below; read by properties only

vars == <<host, held, todo, calls, refs, wal, owed, met>>

Ref(t, as) == [by |-> t, as |-> as]
Boxed == Ref(Main, "handle")

----------------------------------------------------------------------------
(* Steps.  "take"/"give" are a mutex's lock and unlock, "share"/"unshare"   *)
(* the shard's for reading; "lookup" and "insert" read and write the map.   *)
Do(op, arg) == [op |-> op, arg |-> arg]
Under(l, body) == <<Do("take", l)>> \o body \o <<Do("give", l)>>
Sharing(body) == <<Do("share", "shard")>> \o body \o <<Do("unshare", "shard")>>

(* A method of a Python embedder runs under the interpreter lock, which the *)
(* thread takes unless it already holds it (Python::with_gil); a built-in   *)
(* provider calls nothing.                                                  *)
Callback == IF host = "python" THEN <<Do("enter", "gil")>> ELSE <<>>

(* py.allow_threads: the interpreter lock is given up around the body and   *)
(* taken back.                                                              *)
AllowThreads(body) ==
    IF host = "python" THEN <<Do("give", "gil")>> \o body \o <<Do("take", "gil")>> ELSE body

Effect(op) == <<Do(op, "")>>

(* checkpoint_inner: every collection is sealed while the map is iterated,  *)
(* its vocabulary exported through the embedder; then the commit.           *)
Seal == Sharing(Under("embedder", Callback))
Checkpoint == Seal \o Effect("commit")

(* Persistence::after_write: the log's size is read under the journal, and  *)
(* above its limit the weak reference is upgraded and a checkpoint run.     *)
AfterWrite == Effect("maybeTrigger")

----------------------------------------------------------------------------
(* The calls.                                                               *)

(* upsert, delete and their batches, create_payload_index: log and apply.   *)
WritePoints == Effect("log") \o AfterWrite

(* get, search, scroll, stats, reindex: the collection's data lock only.    *)
ReadPoints == Effect("read")

(* upsert_text: embed under the embedder, then log and apply.               *)
UpsertText == Under("embedder", Callback) \o Effect("log") \o AfterWrite

(* search_text, and a hybrid query with a text: a stale vocabulary is       *)
(* refitted first (fit, embed and upsert again, export and journal the      *)
(* state), then the query is embedded.                                      *)
Refit == Under("embedder", Callback) \o Effect("log") \o AfterWrite
         \o Under("embedder", Callback) \o Effect("log")
Ask == Under("embedder", Callback)
SearchText(stale) == IF stale THEN Refit \o Ask ELSE Ask

(* A mutant: the entry read from the map is kept over the insertion.        *)
CreateCollection_Sharing == Under("registry", Sharing(Effect("log") \o Effect("insert")))
(* create_collection, delete_collection, rename_collection: checked,        *)
(* journalled and put into the map under the registry.                      *)
CreateCollection == Under("registry", Effect("log") \o Effect("insert"))

(* create_alias, delete_alias.                                              *)
AliasCall == Under("registry", Effect("log"))

(* collection(name), list_collections, aliases.                             *)
Lookup == Effect("lookup")

(* register_embedder binds the collections waiting for the provider while   *)
(* it iterates the map, importing each one's vocabulary.                    *)
RegisterEmbedder == Sharing(Under("embedder", Callback))

(* snapshot checkpoints, seals everything again and writes the copy; vacuum *)
(* compacts while it iterates the map, then swaps the file.                 *)
Snapshot == Checkpoint \o Seal \o Effect("read")
Vacuum == Sharing(Effect("read")) \o Checkpoint

(* The destructor of a VecLite: the strong count is read, the last handle   *)
(* checkpoints, and the reference goes away afterwards.                     *)
DropHandle(r) == <<Do("countRefs", r), Do("release", r)>>

----------------------------------------------------------------------------
Init ==
    /\ host \in Hosts
    /\ held = [l \in Locks |-> {}]
    /\ todo = [t \in Thread |-> <<>>]
    /\ calls = 0
    /\ refs = IF host = "rust" THEN {Ref(t, "handle") : t \in Thread} ELSE {Boxed}
    /\ wal = FALSE
    /\ owed = FALSE
    /\ met = {}

Idle(t) == todo[t] = <<>>

(* The handle through which t makes a database call.                        *)
Mine(t) == IF host = "rust" THEN Ref(t, "handle") ELSE Boxed

(* The database object is passed by reference and is not destroyed while a  *)
(* call is using it: by Rust's borrow rules, by a C host's contract, by     *)
(* Python's reference counts.  Node drops the Option's content at any time: *)
(* each operation works on a clone.                                         *)
Ahead(u, op) == {i \in 1..Len(todo[u]) : todo[u][i].op = op}
Using(u) == Ahead(u, "endUse") # {}
Releasing(u, r) == \E i \in Ahead(u, "release") : todo[u][i].arg = r

Dropping(u) == Ahead(u, "release") # {}
Registering(u) ==
    u \in held["registry"] \/ \E i \in Ahead(u, "take") : todo[u][i].arg = "registry"
Triggering(u) == Ref(u, "trigger") \in refs

(* Meetings nothing in the code keeps apart.  "kept": a Python call that    *)
(* keeps the interpreter lock begins where another may be waiting for it.   *)
(* One that goes on to an embedder may be waited for by any call; one that  *)
(* goes on to the registry by a call that is in it, which may wait for the  *)
(* map, which a checkpoint iterates, which waits for the interpreter lock.  *)
(* "together": a handle is dropped while another is, or while a checkpoint  *)
(* triggered by the log's size holds a reference.                           *)
KeptForEmbedder(t) == host = "python" /\ \E u \in Thread \ {t} : ~Idle(u)
KeptForRegistry == host = "python" /\ \E u \in Thread : Registering(u)
DroppedTogether(t) == \E u \in Thread \ {t} : Dropping(u) \/ Triggering(u)
Noting(kind, happens) == met \cup {k \in {kind} : happens}

(* A call starts: under Python the thread holds the interpreter lock.       *)
Start(t, steps) ==
    /\ Idle(t)
    /\ calls < MaxCalls
    /\ calls' = calls + 1
    /\ IF host = "python"
       THEN /\ held["gil"] = {}
            /\ held' = [held EXCEPT !["gil"] = {t}]
            /\ todo' = [todo EXCEPT ![t] = steps \o <<Do("give", "gil")>>]
       ELSE /\ todo' = [todo EXCEPT ![t] = steps]
            /\ UNCHANGED held
    /\ UNCHANGED <<host, wal>>

(* Calls on a collection handle, which need no database handle.             *)
OnCollection(t, steps) ==
    /\ Start(t, AllowThreads(steps))
    /\ UNCHANGED <<refs, owed, met>>
WriteCall(t) == OnCollection(t, WritePoints)
WriteTextCall(t) == OnCollection(t, UpsertText)
ReadCall(t) == OnCollection(t, ReadPoints)
SearchTextCall(t) == \E stale \in BOOLEAN : OnCollection(t, SearchText(stale))
RefitCall(t) == OnCollection(t, Refit)

(* A mutant: Node's operations use the handle in place.                     *)
OnDatabase_NoClone(t, steps) ==
    /\ Mine(t) \in refs
    /\ ~\E u \in Thread : Releasing(u, Mine(t))
    /\ Start(t, steps)
    /\ UNCHANGED <<refs, owed>>
(* A call through the database handle.  The Node addon clones the handle,   *)
(* works on the clone and drops it; after close() there is nothing to clone *)
(* and the call is refused.                                                 *)
OnDatabase(t, steps) ==
    /\ Mine(t) \in refs
    /\ ~\E u \in Thread : Releasing(u, Mine(t))
    /\ IF host = "node"
       THEN /\ Start(t, steps \o DropHandle(Ref(t, "clone")))
            /\ refs' = refs \cup {Ref(t, "clone")}
       ELSE /\ Start(t, steps \o <<Do("endUse", "")>>)
            /\ UNCHANGED refs
    /\ UNCHANGED owed
DatabaseCall(t, steps) == OnDatabase(t, steps) /\ UNCHANGED met

(* A mutant: a checkpoint that keeps the interpreter lock.                  *)
CheckpointCall_Kept(t) == DatabaseCall(t, Checkpoint)
CheckpointCall(t) == DatabaseCall(t, AllowThreads(Checkpoint))
SnapshotCall(t) == DatabaseCall(t, Snapshot)
VacuumCall(t) == DatabaseCall(t, Vacuum)
CreateCall(t) == DatabaseCall(t, AllowThreads(CreateCollection))

(* The Python methods that do not give up the interpreter lock.             *)
LookupCall(t) == DatabaseCall(t, Lookup)
AliasingCall(t) ==
    /\ OnDatabase(t, AliasCall)
    /\ met' = Noting("kept", KeptForRegistry)
RegisterCall(t) ==
    /\ OnDatabase(t, RegisterEmbedder)
    /\ met' = Noting("kept", KeptForEmbedder(t))

(* The handle is closed: vl_db_close, the destructor of the Python object   *)
(* or of a Rust clone, or Node's close(), which checkpoints first.          *)
CloseCall(t) ==
    /\ Mine(t) \in refs
    /\ ~\E u \in Thread : Releasing(u, Mine(t))
    /\ host \in {"c", "python"} => \A u \in Thread : ~Using(u)
    /\ Start(t, (IF host = "node" THEN Checkpoint ELSE <<>>) \o DropHandle(Mine(t)))
    /\ owed' = wal
    /\ met' = Noting("kept", KeptForEmbedder(t)) \cup Noting("together", DroppedTogether(t))
    /\ UNCHANGED refs

----------------------------------------------------------------------------
(* What each binding offers.  The Rust API has it all.                      *)
RustApi(t) ==
    /\ host = "rust"
    /\ \/ WriteCall(t) \/ WriteTextCall(t) \/ ReadCall(t) \/ SearchTextCall(t) \/ RefitCall(t)
       \/ CreateCall(t) \/ LookupCall(t) \/ AliasingCall(t) \/ RegisterCall(t)
       \/ CheckpointCall(t) \/ SnapshotCall(t) \/ VacuumCall(t) \/ CloseCall(t)

(* The C ABI: vl_collection_create, _get, _drop, _rename and the aliases;   *)
(* vl_upsert, vl_upsert_text, vl_delete and the batches; what reads; what   *)
(* embeds a query; maintenance.  vl_db_info looks each collection up again. *)
CCollections(t) == CreateCall(t) \/ LookupCall(t) \/ AliasingCall(t)
CUpserts(t) == WriteCall(t) \/ WriteTextCall(t)
CBatchWrites(t) == WriteCall(t)
CSearch(t) == ReadCall(t)
CSearchBatch(t) == ReadCall(t)
CScroll(t) == ReadCall(t)
CSearchText(t) == SearchTextCall(t)
CHybrid(t) == ReadCall(t) \/ SearchTextCall(t)
CIndexing(t) == ReadCall(t) \/ RefitCall(t) \/ WriteCall(t)
CInfo(t) == DatabaseCall(t, Lookup \o Lookup \o Lookup)
CMaintenance(t) == SnapshotCall(t) \/ VacuumCall(t) \/ CInfo(t)
CApi(t) ==
    /\ host = "c"
    /\ \/ CCollections(t) \/ CUpserts(t) \/ CBatchWrites(t) \/ CIndexing(t)
       \/ CSearch(t) \/ CSearchBatch(t) \/ CScroll(t) \/ CSearchText(t) \/ CHybrid(t)
       \/ CMaintenance(t) \/ CheckpointCall(t) \/ CloseCall(t)

(* Python: no snapshot, no vacuum, and embedders of its own.                *)
PyWrites(t) == WriteCall(t) \/ WriteTextCall(t)
PySearches(t) == ReadCall(t) \/ SearchTextCall(t)
PyScrolls(t) == ReadCall(t) \/ RefitCall(t)
PyApi(t) ==
    /\ host = "python"
    /\ \/ PyWrites(t) \/ PySearches(t) \/ PyScrolls(t)
       \/ CreateCall(t) \/ LookupCall(t) \/ AliasingCall(t) \/ RegisterCall(t)
       \/ CheckpointCall(t) \/ CloseCall(t)

(* Node: the asynchronous methods run on a worker thread, the others on the *)
(* caller's; both make the same calls.                                      *)
NodeRegistry(t) == CreateCall(t) \/ LookupCall(t) \/ AliasingCall(t)
NodeMaintenance(t) == CheckpointCall(t) \/ SnapshotCall(t) \/ VacuumCall(t)
NodeWrites(t) == WriteCall(t) \/ WriteTextCall(t) \/ RefitCall(t)
NodeSearches(t) == ReadCall(t) \/ SearchTextCall(t)
NodeReads(t) == ReadCall(t) \/ WriteCall(t)
NodeApi(t) ==
    /\ host = "node"
    /\ \/ NodeRegistry(t) \/ NodeMaintenance(t) \/ NodeWrites(t)
       \/ NodeSearches(t) \/ NodeReads(t) \/ CloseCall(t)

----------------------------------------------------------------------------
(* The next step of a call.                                                 *)

Upcoming(t) == Head(todo[t])
Rest(t) == [todo EXCEPT ![t] = Tail(@)]

(* Whether t's next step can be taken now.                                  *)
Grantable(t) ==
    LET s == Upcoming(t) IN
    CASE s.op = "take" -> held[s.arg] = {}
      [] s.op = "enter" -> held["gil"] \subseteq {t}
      [] s.op = "insert" -> held["shard"] = {}
      [] OTHER -> TRUE

Locking(t) ==
    LET s == Upcoming(t) IN
    /\ s.op \in {"take", "share"}
    /\ held' = [held EXCEPT ![s.arg] = @ \cup {t}]
    /\ todo' = Rest(t)
    /\ UNCHANGED <<refs, wal, owed>>

Unlocking(t) ==
    LET s == Upcoming(t) IN
    /\ s.op \in {"give", "unshare"}
    /\ held' = [held EXCEPT ![s.arg] = @ \ {t}]
    /\ todo' = Rest(t)
    /\ UNCHANGED <<refs, wal, owed>>

(* The callback keeps the interpreter lock to its end unless the thread     *)
(* held it before.                                                          *)
EnterCallback(t) ==
    /\ Upcoming(t).op = "enter"
    /\ held' = [held EXCEPT !["gil"] = {t}]
    /\ todo' = [todo EXCEPT ![t] =
           (IF held["gil"] = {t} THEN <<>> ELSE <<Do("give", "gil")>>) \o Tail(@)]
    /\ UNCHANGED <<refs, wal, owed>>

Log(t) ==
    /\ Upcoming(t).op = "log"
    /\ wal' = TRUE
    /\ todo' = Rest(t)
    /\ UNCHANGED <<held, refs, owed>>

Commit(t) ==
    /\ Upcoming(t).op = "commit"
    /\ wal' = FALSE
    /\ owed' = FALSE
    /\ todo' = Rest(t)
    /\ UNCHANGED <<held, refs>>

(* The log may or may not be above its limit; the weak reference upgrades   *)
(* while a strong one exists, and what it upgraded to is dropped as a plain *)
(* reference, not as a handle.                                              *)
Trigger(t) ==
    /\ Upcoming(t).op = "maybeTrigger"
    /\ \/ /\ todo' = Rest(t)
          /\ UNCHANGED refs
       \/ /\ refs # {}
          /\ refs' = refs \cup {Ref(t, "trigger")}
          /\ todo' = [todo EXCEPT ![t] =
                 Checkpoint \o <<Do("release", Ref(t, "trigger"))>> \o Tail(@)]
    /\ UNCHANGED <<held, wal, owed>>

(* A mutant: the count expected after the drop.                             *)
CountRefs_Late(t) ==
    /\ Upcoming(t).op = "countRefs"
    /\ todo' = [todo EXCEPT ![t] = (IF refs = {} THEN Checkpoint ELSE <<>>) \o Tail(@)]
    /\ UNCHANGED <<held, refs, wal, owed>>
CountRefs(t) ==
    /\ Upcoming(t).op = "countRefs"
    /\ todo' = [todo EXCEPT ![t] = (IF Cardinality(refs) = 1 THEN Checkpoint ELSE <<>>) \o Tail(@)]
    /\ UNCHANGED <<held, refs, wal, owed>>

Release(t) ==
    /\ Upcoming(t).op = "release"
    /\ refs' = refs \ {Upcoming(t).arg}
    /\ todo' = Rest(t)
    /\ UNCHANGED <<held, wal, owed>>

(* A read, a lookup, the insertion into the map, the end of a use of the    *)
(* handle.                                                                  *)
Pass(t) ==
    /\ Upcoming(t).op \in {"read", "lookup", "insert", "endUse"}
    /\ todo' = Rest(t)
    /\ UNCHANGED <<held, refs, wal, owed>>

Step(t) ==
    /\ ~Idle(t)
    /\ Grantable(t)
    /\ \/ Locking(t) \/ Unlocking(t) \/ EnterCallback(t) \/ Log(t) \/ Commit(t)
       \/ Trigger(t) \/ CountRefs(t) \/ Release(t) \/ Pass(t)
    /\ UNCHANGED <<host, calls, met>>

Call(t) == RustApi(t) \/ CApi(t) \/ PyApi(t) \/ NodeApi(t)

Next == \E t \in Thread : Call(t) \/ Step(t)

(* Every thread inside the library goes on when it can: the locks are       *)
(* mutexes of a running process and no call waits for anything else.        *)
Spec == Init /\ [][Next]_vars /\ \A t \in Thread : WF_vars(Step(t))

----------------------------------------------------------------------------
(* Properties.                                                              *)

Wanted(s) == IF s.op = "insert" THEN "shard" ELSE s.arg
WaitsFor(t, u) == ~Idle(t) /\ ~Grantable(t) /\ u \in held[Wanted(Upcoming(t))]

(* Threads wait for each other in a circle: each one of the set waits for a *)
(* lock another of the set holds.                                           *)
InACircle(Q) == \A t \in Q : \E u \in Q : WaitsFor(t, u)

(* Threads never wait for each other in a circle, but for a Python call     *)
(* that kept the interpreter lock while another could be waiting for it.    *)
(* What decides it is the order of the locks and whether a Python call      *)
(* gives up the interpreter lock before it takes one that an embedder's     *)
(* callback is called under.                                                *)
NoCircularWait ==
    "kept" \notin met => \A Q \in (SUBSET Thread) \ {{}} : ~InACircle(Q)

(* What the callback's comment says (veclite-py lib.rs): the interpreter    *)
(* lock has been released before an embedder is reached, so that taking it  *)
(* again is safe, whoever calls what.                                       *)
ReacquiringIsSafe == \A Q \in (SUBSET Thread) \ {{}} : ~InACircle(Q)

(* A call made is a call that returns, whatever the other threads do, with  *)
(* the same exception.                                                      *)
EveryCallReturns == \A t \in Thread : ~Idle(t) ~> (Idle(t) \/ "kept" \in met)

(* WAL-050: once the last reference is gone, what was acknowledged before   *)
(* the last handle was dropped is in the file and not only in the log.      *)
LastDropFlushes == refs = {} => ~owed

(* So it is unless two references were dropped together: the close          *)
(* checkpoint of Drop for VecLite was run by somebody, whoever was last.    *)
CloseFlushes == "together" \notin met => LastDropFlushes

(* The database is never written after its last reference is gone: the file *)
(* may be another owner's by then.                                          *)
NoCommitAfterClose ==
    [][\A t \in Thread : ~Idle(t) /\ Upcoming(t).op = "commit" /\ todo'[t] = Tail(todo[t])
           => refs # {}]_vars
=============================================================================
