------------------------------- MODULE Slots -------------------------------
(***************************************************************************)
(* The slot storage of one collection (collection.rs, CollectionData): an  *)
(* append-only array of slots under the data lock, tombstones, the vectors *)
(* of a mapped base with an overlay behind them, the HNSW graph and the    *)
(* payload index beside them, and the scroll cursor that walks the slots.  *)
(*                                                                         *)
(* `points` is the map from ids to points the callers asked for, the form  *)
(* in which Store sees a collection; `data` has to stand for it.           *)
(* Slots count from 1; the graph is the set of its nodes.  A sparse lane   *)
(* is its score against the query asked, 0 without one.                    *)
(***************************************************************************)
EXTENDS Filter, SequencesExt

CONSTANTS
    Id,         \* the ids callers use
    Point,      \* the points callers upsert: vector, payload and sparse lane
    Indexable,  \* the indexes callers declare: <<key, kind>>
    PageSize,   \* limit of a scroll page
    MaxSlots    \* bound on slots

ASSUME SlotsAssumption ==
    /\ IsFiniteSet(Id)
    /\ \A p \in Point : p = [vec |-> p.vec, pay |-> p.pay, sparse |-> p.sparse] /\ p.sparse \in Nat
    /\ \A x \in Indexable : x[2] \in {"keyword", "integer", "float"}
    /\ PageSize \in Nat \ {0} /\ MaxSlots \in Nat

VARIABLES
    data,    \* CollectionData
    points,  \* history: the points the callers asked for
    scan     \* a caller's walk through the pages of `scroll`

vars == <<data, points, scan>>

-----------------------------------------------------------------------------
(* CollectionData.                                                          *)

(* Function f with k mapped to v.                                           *)
Put(f, k, v) == [x \in DOMAIN f \cup {k} |-> IF x = k THEN v ELSE f[x]]

(* The numbers of a finite set, in order.                                   *)
InOrder(S) ==
    CHOOSE q \in [1..Cardinality(S) -> S] : \A i, j \in DOMAIN q : i < j => q[i] < q[j]

(* What a batch leaves of id i: its last point for it.                      *)
LastIn(batch, i) == batch[Max({k \in DOMAIN batch : batch[k][1] = i})][2]

Batches == UNION {[1..n -> Id \X Point] : n \in 1..2}

Slot(d) == 1..Len(d.ids)
IsLive(d, s) == d.ids[s] \in DOMAIN d.slotOf /\ d.slotOf[d.ids[s]] = s
Live(d) == {s \in Slot(d) : IsLive(d, s)}

(* vector_at: below the base's count the map, above it the overlay.         *)
VectorAt(d, s) ==
    IF s <= Len(d.base) THEN d.base[s] ELSE d.overlay[s - Len(d.base)]

PointAt(d, s) == [vec |-> VectorAt(d, s), pay |-> d.pays[s], sparse |-> d.sparses[s]]

(* live_points: the live slots in order, with their ids.                    *)
LivePoints(d) ==
    LET slots == InOrder(Live(d))
    IN  [k \in DOMAIN slots |-> <<d.ids[slots[k]], PointAt(d, slots[k])>>]

(* A collection without points: `index` says that there is a graph, `gated` *)
(* that a mapped base was over the memory budget.                           *)
NoPoints(ixs) ==
    [ids |-> <<>>, slotOf |-> <<>>, dead |-> {}, pays |-> <<>>, sparses |-> <<>>,
     base |-> <<>>, overlay |-> <<>>,
     index |-> TRUE, gated |-> FALSE, graph |-> {},
     indexes |-> [k \in DOMAIN ixs |-> EmptyIndex(ixs[k].kind)]]

(* PayloadIndexes::insert and ::remove of the slot's payload.               *)
Posted(d, s)   == [d EXCEPT !.indexes = InsertPayload(@, s, d.pays[s])]
Unposted(d, s) == [d EXCEPT !.indexes = RemovePayload(@, s, d.pays[s])]

(* Mutants: the payload is cleared before the index is told; the payload    *)
(* stays.                                                                   *)
Buried_ClearsFirst(d, s) ==
    [Unposted([d EXCEPT !.pays[s] = NoPay], s) EXCEPT
        !.slotOf = Restrict(@, DOMAIN @ \ {d.ids[s]}), !.dead = @ \cup {s},
        !.sparses[s] = 0]
Buried_Uncounted(d, s) ==
    [Unposted(d, s) EXCEPT !.slotOf = Restrict(@, DOMAIN @ \ {d.ids[s]}),
                           !.pays[s] = NoPay, !.sparses[s] = 0]

(* A slot dies: out of the id map, onto the tombstones, its payload taken   *)
(* out of the indexes and cleared.  Its graph node and its vector stay.     *)
Buried(d, s) ==
    [Unposted(d, s) EXCEPT !.slotOf = Restrict(@, DOMAIN @ \ {d.ids[s]}),
                           !.dead = @ \cup {s},
                           !.pays[s] = NoPay, !.sparses[s] = 0]

Tombstone(d, id) == IF id \in DOMAIN d.slotOf THEN Buried(d, d.slotOf[id]) ELSE d

(* HnswIndex::insert.                                                       *)
Noded(d, s, v) == IF d.index THEN [d EXCEPT !.graph = @ \cup {<<s, v>>}] ELSE d

(* Mutant: the point takes the place of a dead slot.                        *)
ApplyUpsert_Reuses(d, p) ==
    LET b == Tombstone(d, p[1])
        s == IF b.dead = {} THEN Len(b.ids) + 1 ELSE Min(b.dead)
        fresh == IF b.dead # {} THEN b
                 ELSE [b EXCEPT !.ids = Append(@, p[1]), !.pays = Append(@, NoPay),
                                !.sparses = Append(@, 0), !.overlay = Append(@, p[2].vec)]
        new == [fresh EXCEPT !.ids[s] = p[1], !.pays[s] = p[2].pay, !.sparses[s] = p[2].sparse,
                             !.overlay[s - Len(b.base)] = p[2].vec,
                             !.slotOf = Put(@, p[1], s), !.dead = @ \ {s}]
    IN  Noded(Posted(new, s), s, p[2].vec)

(* apply_upsert: the old slot dies, the point goes to a fresh one.          *)
ApplyUpsert(d, p) ==
    LET b == Tombstone(d, p[1])
        s == Len(b.ids) + 1
        new == [b EXCEPT !.ids = Append(@, p[1]),
                         !.pays = Append(@, p[2].pay),
                         !.sparses = Append(@, p[2].sparse),
                         !.overlay = Append(@, p[2].vec),
                         !.slotOf = Put(@, p[1], s)]
    IN  Noded(Posted(new, s), s, p[2].vec)

ApplyPrepared(d, batch) == FoldLeft(ApplyUpsert, d, batch)

-----------------------------------------------------------------------------

NoScan == [on |-> FALSE, done |-> FALSE, first |-> TRUE, cursor |-> {},
           got |-> {}, again |-> {}, steady |-> {}, lost |-> FALSE]

Init ==
    /\ data = NoPoints(<<>>)
    /\ points = <<>>
    /\ scan = NoScan

(* The ids a scan owes its caller, `steady`, were live when it began and not*)
(* written since; `got` are those it returned, `again` more than once.  A   *)
(* write to the ids of S that takes the place of those of `gone` leaves the *)
(* scan `lost` when its cursor is one of them.  A finished scan is forgotten*)
Touch(S, gone) ==
    scan' = IF scan.done THEN NoScan
            ELSE [scan EXCEPT !.steady = @ \ S, !.got = @ \ S, !.again = @ \ S,
                              !.lost = @ \/ scan.cursor \cap gone # {}]

(* upsert_batch, under the data lock.                                       *)
UpsertBatch(batch) ==
    LET written == {batch[k][1] : k \in DOMAIN batch} IN
    /\ Len(data.ids) + Len(batch) <= MaxSlots
    /\ data' = ApplyPrepared(data, batch)
    /\ points' = [i \in DOMAIN points \cup written |->
                    IF i \in written THEN LastIn(batch, i) ELSE points[i]]
    /\ Touch(written, written)

(* delete_batch.                                                            *)
DeleteBatch(S) ==
    /\ data' = FoldLeft(Tombstone, data, SetToSeq(S))
    /\ points' = Restrict(points, DOMAIN points \ S)
    /\ Touch(S, {})

(* reindex: the graph over the live slots only, none over budget.           *)
Reindexed(d) ==
    [d EXCEPT !.index = ~d.gated,
              !.graph = IF d.gated THEN {} ELSE {<<s, VectorAt(d, s)>> : s \in Live(d)}]

Reindex ==
    /\ data' = Reindexed(data)
    /\ Touch({}, {}) /\ UNCHANGED points

(* Mutant: the points come out of the overlay only.                         *)
Compacted_Overlay(d) ==
    ApplyPrepared(NoPoints(d.indexes),
                  SelectSeq(LivePoints(d), LAMBDA p : d.slotOf[p[1]] > Len(d.base)))

(* compact: the live points again, renumbered, everything in memory.        *)
Compacted(d) == ApplyPrepared(NoPoints(d.indexes), LivePoints(d))

(* A cursor whose id is no longer live names nothing after a renumbering.   *)
Dangling == Id \ DOMAIN data.slotOf

Compact ==
    /\ data' = Compacted(data)
    /\ Touch({}, Dangling) /\ UNCHANGED points

(* create_payload_index: declare, and post every live slot.                 *)
Declared(d, key, kind) ==
    FoldLeft(Posted, [d EXCEPT !.indexes = Put(@, key, EmptyIndex(kind))], InOrder(Live(d)))

(* A key that has an index keeps it: the same kind is a no-op, another kind *)
(* an error.                                                                *)
CreatePayloadIndex(key, kind) ==
    /\ key \notin DOMAIN data.indexes
    /\ data' = Declared(data, key, kind)
    /\ Touch({}, {}) /\ UNCHANGED points

(* install_base: the vectors stay in the map, over budget without a graph.  *)
Loaded(d, live, gated) ==
    [NoPoints(d.indexes) EXCEPT
       !.ids = [k \in DOMAIN live |-> live[k][1]],
       !.pays = [k \in DOMAIN live |-> live[k][2].pay],
       !.sparses = [k \in DOMAIN live |-> live[k][2].sparse],
       !.base = [k \in DOMAIN live |-> live[k][2].vec],
       !.slotOf = [i \in DOMAIN d.slotOf |-> CHOOSE k \in DOMAIN live : live[k][1] = i],
       !.index = ~gated, !.gated = gated,
       !.graph = IF gated THEN {} ELSE {<<k, live[k][2].vec>> : k \in DOMAIN live}]

Based(d, gated) ==
    LET live == LivePoints(d)
    IN  FoldLeft(Posted, Loaded(d, live, gated), [k \in DOMAIN live |-> k])

(* Sealed, closed and opened again: the live points become a base, or, on   *)
(* the materialized tier, are applied again as compact does.                *)
Reopen ==
    /\ data' \in {Based(data, TRUE), Based(data, FALSE), Compacted(data)}
    /\ Touch({}, Dangling) /\ UNCHANGED points

-----------------------------------------------------------------------------
(* scroll.                                                                  *)

(* Mutant: the scan resumes at the cursor.                                  *)
ResumeAt_Cursor(d, id) ==
    IF id \in DOMAIN d.slotOf THEN d.slotOf[id]
    ELSE LET old == {s \in Slot(d) : d.ids[s] = id}
         IN  IF old = {} THEN 1 ELSE Max(old)

(* Where the page after the cursor starts: behind the id's live slot, else  *)
(* behind the last slot that carried it, else at the beginning.             *)
ResumeAt(d, id) ==
    IF id \in DOMAIN d.slotOf THEN d.slotOf[id] + 1
    ELSE LET old == {s \in Slot(d) : d.ids[s] = id}
         IN  IF old = {} THEN 1 ELSE Max(old) + 1

StartScan ==
    /\ ~scan.on
    /\ scan' = [NoScan EXCEPT !.on = TRUE, !.steady = DOMAIN data.slotOf]
    /\ UNCHANGED <<data, points>>

(* One call of scroll: the next PageSize live slots, and a cursor when      *)
(* there is another behind them.                                            *)
ScrollPage ==
    LET from == IF scan.first THEN 1 ELSE ResumeAt(data, CHOOSE i \in scan.cursor : TRUE)
        rest == InOrder({s \in Live(data) : s >= from})
        more == Len(rest) > PageSize
        page == SubSeq(rest, 1, IF more THEN PageSize ELSE Len(rest))
        ids  == {data.ids[page[k]] : k \in DOMAIN page}
    IN
    /\ scan.on
    /\ scan' = [scan EXCEPT !.first = FALSE, !.on = more, !.done = ~more,
                            !.got = @ \cup (ids \cap scan.steady),
                            !.again = @ \cup (ids \cap scan.got),
                            !.cursor = IF more THEN {data.ids[Last(page)]} ELSE {}]
    /\ UNCHANGED <<data, points>>

Next ==
    \/ \E b \in Batches : UpsertBatch(b)
    \/ \E S \in SUBSET Id : DeleteBatch(S)
    \/ \E x \in Indexable : CreatePayloadIndex(x[1], x[2])
    \/ Reindex \/ Compact \/ Reopen
    \/ StartScan \/ ScrollPage

Spec == Init /\ [][Next]_vars

-----------------------------------------------------------------------------
(* Properties.                                                              *)

(* Every field keeps its shape; the slots below the overlay are the base's, *)
(* as apply_upsert's debug_assert has it.                                   *)
TypeOK ==
    /\ data.ids \in Seq(Id)
    /\ \A s \in DOMAIN data.pays : data.pays[s] \in {NoPay} \cup {p.pay : p \in Point}
    /\ Len(data.pays) = Len(data.ids) /\ Len(data.sparses) = Len(data.ids)
    /\ Len(data.base) + Len(data.overlay) = Len(data.ids)
    /\ DOMAIN data.slotOf \subseteq Id
    /\ \A i \in DOMAIN data.slotOf : data.slotOf[i] \in Slot(data)
    /\ data.dead \subseteq Slot(data)
    /\ points \in UNION {[S -> Point] : S \in SUBSET Id}
    /\ scan.steady \subseteq Id /\ Cardinality(scan.cursor) <= 1

(* The slots stand for the points: `get` of any id returns what its last    *)
(* upsert asked for, vector and payload together, through replacement,      *)
(* deletion, compaction, mapping and overlay.                               *)
SlotsHoldPoints ==
    /\ TypeOK
    /\ [i \in DOMAIN data.slotOf |-> PointAt(data, data.slotOf[i])] = points

(* Search over-fetches by the number of tombstones, and filters dead slots  *)
(* out: that is enough because the graph has each live slot with its        *)
(* vector, once, and no dead node beyond the tombstones.                    *)
GraphServesSearch ==
    data.index =>
       /\ {n \in data.graph : IsLive(data, n[1])} =
             {<<s, VectorAt(data, s)>> : s \in Live(data)}
       /\ Cardinality(data.graph) <= Cardinality(Live(data)) + Cardinality(data.dead)

(* The postings of an index are the live slots' values of its kind, through *)
(* replacement, deletion, compaction, late declaration and reopening.       *)
PostingsExact ==
    \A k \in DOMAIN data.indexes :
        data.indexes[k].posts =
            UNION {PostsOf(data.indexes[k], k, s, data.pays[s]) : s \in Live(data)}

(* API-022: a finished scan has returned each point nobody wrote to         *)
(* meanwhile, and no page returned one of them a second time, unless the    *)
(* cursor's own id was upserted between two pages, or was deleted and then  *)
(* compacted away.                                                          *)
ScanCoversOnce ==
    ~scan.lost => scan.again = {} /\ (scan.done => scan.got = scan.steady)

(* What scroll's comment promises, "every live vector is covered exactly    *)
(* once" (collection.rs:1039), of the vectors nobody wrote meanwhile.       *)
EveryVectorOnce == scan.again = {} /\ (scan.done => scan.got = scan.steady)

=============================================================================
