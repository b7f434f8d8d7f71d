------------------------------ MODULE Registry ------------------------------
(***************************************************************************)
(* The registry of a file-backed database: which names and aliases lead to *)
(* which collection, the operations of database.rs that change them, and   *)
(* what an open rebuilds from the TOC and the WAL (install_collection,     *)
(* apply_wal_entry).                                                       *)
(*                                                                         *)
(* The operations are serialised by the registry mutex.  One caller makes  *)
(* them and the checkpoints in turn, so an operation is one step; what a   *)
(* checkpoint racing a write loses is Store's subject.  Every append       *)
(* survives the crash (kill -9, or Full durability).                       *)
(***************************************************************************)
EXTENDS Naturals, FiniteSets, SequencesExt, TLC

CONSTANTS
    Name,       \* names and aliases share one namespace
    MaxId,      \* bound on collection ids
    Ops,        \* the operations the application calls
    MaxCalls,   \* bound on them
    MaxDowns    \* bound on crashes

OpKinds == {"create", "drop", "rename", "alias", "unalias"}

ASSUME RegistryAssumption ==
    Ops \subseteq OpKinds /\ {MaxId, MaxCalls, MaxDowns} \subseteq Nat

VARIABLES
    reg,      \* memory: DatabaseInner::collections and ::aliases
    nextId,   \* DatabaseInner::next_coll_id
    toc,      \* durable: the committed TOC, by collection id
    wal,      \* durable: the entries since
    pc,       \* "idle", "truncate" (header swapped, WAL not truncated), "down"
    count     \* bounds: calls and crashes so far

vars == <<reg, nextId, toc, wal, pc, count>>

-----------------------------------------------------------------------------
(* A registry: the id behind each collection name, the alias list each      *)
(* collection carries, and the database's map from alias to target name.    *)

Id == 1..MaxId
NoId == 0

(* Maps, by constructors the prover knows.                                  *)
Override(f, g) ==
    [x \in DOMAIN f \cup DOMAIN g |-> IF x \in DOMAIN g THEN g[x] ELSE f[x]]
Put(f, k, v) == Override(f, [x \in {k} |-> v])
Without(f, S) == [k \in DOMAIN f \ S |-> f[k]]

Live(r) == {r.colls[n] : n \in DOMAIN r.colls}
NameOf(r, id) == CHOOSE n \in DOMAIN r.colls : r.colls[n] = id

(* collection(): a collection's own name first, then the alias map.         *)
Lookup(r, n) ==
    IF n \in DOMAIN r.colls THEN r.colls[n]
    ELSE IF n \in DOMAIN r.aliases /\ r.aliases[n] \in DOMAIN r.colls
         THEN r.colls[r.aliases[n]]
         ELSE NoId

EmptyRegistry == [colls |-> <<>>, list |-> [i \in Id |-> {}], aliases |-> <<>>]

-----------------------------------------------------------------------------
(* apply_wal_entry: what replay makes of one entry.                         *)

Entry(op, id, name) == [op |-> op, id |-> id, name |-> name]

(* A collection already there is left alone; an insert under a name in use  *)
(* replaces the collection that had it.                                     *)
ReplayCreate(r, e) ==
    IF e.id \in Live(r) THEN r
    ELSE [r EXCEPT !.colls = Put(@, e.name, e.id), !.list[e.id] = {}]

(* The alias map is not touched.                                            *)
ReplayDrop(r, e) ==
    IF e.id \notin Live(r) THEN r
    ELSE [r EXCEPT !.colls = Without(@, {NameOf(r, e.id)})]

(* Mutant: the old name stays.                                              *)
ReplayRename_KeepsOld(r, e) ==
    IF e.id \notin Live(r) THEN r ELSE [r EXCEPT !.colls = Put(@, e.name, e.id)]

ReplayRename(r, e) ==
    IF e.id \notin Live(r) THEN r
    ELSE [r EXCEPT !.colls = Put(Without(@, {NameOf(r, e.id)}), e.name, e.id)]

ReplayAlias(r, e) ==
    IF e.id \notin Live(r) THEN r
    ELSE [r EXCEPT !.aliases = Put(@, e.name, NameOf(r, e.id)),
                   !.list[e.id] = @ \cup {e.name}]

(* Mutant: the collection keeps the alias on its list.                      *)
ReplayUnalias_MapOnly(r, e) ==
    IF e.id \notin Live(r) THEN r ELSE [r EXCEPT !.aliases = Without(@, {e.name})]

ReplayUnalias(r, e) ==
    IF e.id \notin Live(r) THEN r
    ELSE [r EXCEPT !.aliases = Without(@, {e.name}), !.list[e.id] = @ \ {e.name}]

Replay(r, e) ==
    CASE e.op = "create"  -> ReplayCreate(r, e)
      [] e.op = "drop"    -> ReplayDrop(r, e)
      [] e.op = "rename"  -> ReplayRename(r, e)
      [] e.op = "alias"   -> ReplayAlias(r, e)
      [] e.op = "unalias" -> ReplayUnalias(r, e)

(* install_collection for each collection of the TOC, in the TOC's order:   *)
(* of two collections that list the same alias the later one gets it.       *)
Loaded ==
    LET listed == UNION {toc[i].aliases : i \in DOMAIN toc}
        owners(a) == {i \in DOMAIN toc : a \in toc[i].aliases}
        picks == {f \in [listed -> DOMAIN toc] : \A a \in listed : f[a] \in owners(a)}
    IN  {[colls   |-> [n \in {toc[i].name : i \in DOMAIN toc} |->
                          CHOOSE i \in DOMAIN toc : toc[i].name = n],
          list    |-> [i \in Id |-> IF i \in DOMAIN toc THEN toc[i].aliases ELSE {}],
          aliases |-> [a \in listed |-> toc[f[a]].name]] : f \in picks}

(* open_with: load the TOC, replay the WAL on it.                           *)
ReplayAll(r, w) == FoldLeft(Replay, r, w)
Recoveries == {ReplayAll(r, wal) : r \in Loaded}

(* ... and take the next collection id after every one either mentions.     *)
IdsOnDisk == DOMAIN toc \cup {wal[k].id : k \in DOMAIN wal}

(* Mutant: off by one.                                                      *)
IdAfter_Last(S) == Max(S \cup {1})

IdAfter(S) == Max(S \cup {0}) + 1

-----------------------------------------------------------------------------

Init ==
    /\ reg = EmptyRegistry /\ nextId = 1
    /\ toc = <<>> /\ wal = <<>>
    /\ pc = "idle"
    /\ count = [calls |-> 0, downs |-> 0]

Call(op) ==
    /\ pc = "idle" /\ op \in Ops
    /\ count.calls < MaxCalls
    /\ count' = [count EXCEPT !.calls = @ + 1]
    /\ UNCHANGED <<toc, pc>>

Log(op, id, name) == wal' = Append(wal, Entry(op, id, name))

(* create_collection: only the collections' names are checked.              *)
CreateCollection(n) ==
    /\ Call("create")
    /\ n \notin DOMAIN reg.colls /\ nextId \in Id
    /\ Log("create", nextId, n)
    /\ nextId' = nextId + 1
    /\ reg' = [reg EXCEPT !.colls = Put(@, n, nextId), !.list[nextId] = {}]

(* create_alias: taken by neither a collection nor an alias.                *)
CreateAlias(a, n) ==
    /\ Call("alias")
    /\ a \notin DOMAIN reg.colls \cup DOMAIN reg.aliases
    /\ n \in DOMAIN reg.colls
    /\ Log("alias", reg.colls[n], a)
    /\ reg' = [reg EXCEPT !.aliases = Put(@, a, n),
                          !.list[reg.colls[n]] = @ \cup {a}]
    /\ UNCHANGED nextId

(* delete_alias: logged, and removed from the collection's list, only when  *)
(* the name the alias points to is a collection.                            *)
DeleteAlias(a) ==
    /\ Call("unalias")
    /\ a \in DOMAIN reg.aliases
    /\ LET n == reg.aliases[a] IN
          IF n \in DOMAIN reg.colls
          THEN /\ Log("unalias", reg.colls[n], a)
               /\ reg' = [reg EXCEPT !.aliases = Without(@, {a}),
                                     !.list[reg.colls[n]] = @ \ {a}]
          ELSE /\ reg' = [reg EXCEPT !.aliases = Without(@, {a})]
               /\ UNCHANGED wal
    /\ UNCHANGED nextId

(* delete_collection: the aliases on its list go with it.                   *)
DeleteCollection(n) ==
    /\ Call("drop")
    /\ n \in DOMAIN reg.colls
    /\ Log("drop", reg.colls[n], n)
    /\ reg' = [reg EXCEPT !.colls = Without(@, {n}),
                          !.aliases = Without(@, reg.list[reg.colls[n]])]
    /\ UNCHANGED nextId

(* Mutant: they are not.                                                    *)
Repointed_None(id, to) == <<>>

(* The aliases on a renamed collection's list, at its new name.             *)
Repointed(id, to) == [a \in reg.list[id] |-> to]

(* rename_collection: the aliases on its list are re-pointed.               *)
RenameCollection(from, to) ==
    /\ Call("rename")
    /\ to \notin DOMAIN reg.colls /\ from \in DOMAIN reg.colls
    /\ LET id == reg.colls[from] IN
          /\ Log("rename", id, to)
          /\ reg' = [reg EXCEPT !.colls = Put(Without(@, {from}), to, id),
                                !.aliases = Override(@, Repointed(id, to))]
    /\ UNCHANGED nextId

-----------------------------------------------------------------------------
(* A checkpoint: the TOC of the sealed registry replaces the old one, and   *)
(* in a step of its own the WAL is truncated.                               *)

SealedToc ==
    [i \in Live(reg) |-> [name |-> NameOf(reg, i), aliases |-> reg.list[i]]]

SwapToc ==
    /\ pc = "idle" /\ wal # <<>>
    /\ toc' = SealedToc
    /\ pc' = "truncate"
    /\ UNCHANGED <<reg, nextId, wal, count>>

TruncateWal ==
    /\ pc = "truncate"
    /\ wal' = <<>>
    /\ pc' = "idle"
    /\ UNCHANGED <<reg, nextId, toc, count>>

Kill ==
    /\ pc # "down" /\ count.downs < MaxDowns
    /\ pc' = "down"
    /\ reg' = EmptyRegistry /\ nextId' = 1
    /\ count' = [count EXCEPT !.downs = @ + 1]
    /\ UNCHANGED <<toc, wal>>

Open ==
    /\ pc = "down"
    /\ reg' \in Recoveries
    /\ nextId' = IdAfter(IdsOnDisk)
    /\ pc' = "idle"
    /\ UNCHANGED <<toc, wal, count>>

(* The application makes no further call.                                   *)
Finished == pc = "idle" /\ UNCHANGED vars

Next ==
    \/ \E n \in Name : CreateCollection(n) \/ DeleteCollection(n) \/ DeleteAlias(n)
    \/ \E n, m \in Name : CreateAlias(n, m) \/ RenameCollection(n, m)
    \/ SwapToc \/ TruncateWal \/ Kill \/ Open \/ Finished

Spec == Init /\ [][Next]_vars

-----------------------------------------------------------------------------
(* Properties.                                                              *)

(* Every variable keeps its shape.                                          *)
TypeOK ==
    /\ DOMAIN reg.colls \subseteq Name /\ Live(reg) \subseteq Id
    /\ reg.list \in [Id -> SUBSET Name]
    /\ DOMAIN reg.aliases \cup Range(reg.aliases) \subseteq Name
    /\ nextId \in 1..(MaxId + 1)
    /\ DOMAIN toc \subseteq Id
    /\ \A k \in DOMAIN wal : wal[k] \in [op : OpKinds, id : Id, name : Name]
    /\ pc \in {"idle", "truncate", "down"}

SameCollections(r) ==
    r.colls = reg.colls /\ \A i \in Live(reg) : r.list[i] = reg.list[i]

(* SPEC-003 section 8.1, "replayed state = model state": were the process   *)
(* to end now, the next open would find every collection under its name,    *)
(* with its alias list.                                                     *)
ReplayKeepsCollections ==
    pc = "idle" => \A r \in Recoveries : SameCollections(r)

(* The same with the header swapped and the WAL not yet truncated: replay   *)
(* over a TOC that has its effects already is idempotent (WAL-042).         *)
ReplayIsIdempotent ==
    pc = "truncate" => \A r \in Recoveries : SameCollections(r)

Pending(ops) == \E k \in DOMAIN wal : wal[k].op \in ops

(* ... which it is when no rename is among the entries.                     *)
IdempotentWithoutRename ==
    ~Pending({"rename"}) => ReplayIsIdempotent

(* collection() finds after a recovery what it found before.                *)
ReplayKeepsLookup ==
    pc = "idle" => \A r \in Recoveries : \A n \in Name : Lookup(r, n) = Lookup(reg, n)

(* No recovery has run, which can leave the alias map and the lists apart   *)
(* (see ReplayKeepsLookup).                                                 *)
NeverRecovered == count.downs = 0

(* The first recovery rebuilds the alias map, before and in the truncation  *)
(* window, when neither a drop nor a rename is among the entries.           *)
ReplayKeepsAliases ==
    NeverRecovered /\ ~Pending({"drop", "rename"}) =>
       \A r \in Recoveries : r.aliases = reg.aliases

(* What the next open would find: the collections, and the alias map.       *)
ReplayKeepsRegistry == ReplayKeepsCollections /\ ReplayKeepsAliases

(* The alias map and the collections' alias lists tell the same story, so   *)
(* that dropping or renaming a collection finds all of its aliases.         *)
AliasesConsistent ==
    NeverRecovered =>
       /\ DOMAIN reg.aliases = UNION {reg.list[i] : i \in Live(reg)}
       /\ \A i \in Live(reg) : \A a \in reg.list[i] : reg.aliases[a] = NameOf(reg, i)

(* next_coll_id is beyond every id on disk: a new collection never takes    *)
(* the entries of a dropped one, which replay finds by id.                  *)
FreshIds ==
    /\ TypeOK
    /\ pc # "down" => \A i \in IdsOnDisk \cup Live(reg) : i < nextId

=============================================================================
