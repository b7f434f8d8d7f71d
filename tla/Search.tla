------------------------------- MODULE Search -------------------------------
(***************************************************************************)
(* Searches over one collection (collection.rs, query.rs, hybrid.rs): the  *)
(* dense lane by brute force, by the HNSW graph or by the planner of       *)
(* filtered searches, each under one hold of the read lock; the sparse     *)
(* lane, which projects its hits under a second hold; and the hybrid query,*)
(* which takes the lock three times.  Writers of Slots run in between.     *)
(*                                                                         *)
(* One query is asked: a vector is its score against it, higher better,    *)
(* and a sparse lane likewise.  The graph finds any of its nodes, as many  *)
(* as it is asked for or fewer.  Ids are compared by IdRank.               *)
(***************************************************************************)
EXTENDS Slots, Ordered

CONSTANTS
    IdRank,             \* the bytewise order of the ids
    Filters,            \* the filters callers pass
    AskedFilters,       \* those of them passed to sparse and hybrid queries
    Limits,             \* the limits callers pass
    SmallExactMax,      \* SMALL_EXACT_MAX
    PostfilterMinLive,  \* POSTFILTER_MIN_LIVE
    FusionFetch,        \* the least number of hits fetched from each lane
    RrfK,               \* rrf_k
    Scale,              \* fused scores are counted in parts of 1 / Scale
    Alphas              \* alpha, in halves

ASSUME SearchAssumption ==
    /\ IdRank \in [Id -> Nat] /\ IsInjective(IdRank)
    /\ \A p \in Point : p.vec \in Int
    /\ Limits \subseteq Nat \ {0}
    /\ {SmallExactMax, PostfilterMinLive, FusionFetch, RrfK, Scale} \subseteq Nat
    /\ \A r \in 1..MaxSlots : Scale % (RrfK + r) = 0
    /\ Alphas \subseteq 0..2 /\ AskedFilters \subseteq Filters

VARIABLE query   \* a caller's sparse or hybrid query in progress

-----------------------------------------------------------------------------
(* The dense lane.                                                          *)

Least(a, b) == IF a < b THEN a ELSE b
Most(a, b) == IF a > b THEN a ELSE b
First(s, n) == SubSeq(s, 1, Least(n, Len(s)))

(* Scored in slot order and sorted by a stable sort.                        *)
Better(d) ==
    {p \in Slot(d) \X Slot(d) :
        \/ VectorAt(d, p[1]) > VectorAt(d, p[2])
        \/ VectorAt(d, p[1]) = VectorAt(d, p[2]) /\ p[1] < p[2]}

ByScore(d, S) == Sorted(S, Better(d))

Selected(d, f) == {s \in Live(d) : Matches(f, d.pays[s])}

(* HnswIndex::search for n nodes: some of them.                             *)
GraphFinds(d, n) == {T \in SUBSET {x[1] : x \in d.graph} : Cardinality(T) <= n}

(* Mutant: the graph is asked for no more than the caller wants.            *)
Fetch_Limit(d, limit) == limit

(* How many nodes execute_query asks of the graph: the tombstones on top.   *)
Fetch(d, limit) == limit + Cardinality(d.dead)

(* execute_query without a filter: exact where there is no graph or few     *)
(* points, else what the graph finds, and exact again when it returned too  *)
(* few.                                                                     *)
Unfiltered(d, limit) ==
    LET exact == First(ByScore(d, Live(d)), limit)
        live(found) == First(ByScore(d, found \cap Live(d)), limit)
    IN  IF ~d.index \/ Cardinality(Live(d)) <= Most(SmallExactMax, Fetch(d, limit))
        THEN {exact}
        ELSE {IF Len(live(found)) < Least(limit, Cardinality(Live(d))) THEN exact
              ELSE live(found) : found \in GraphFinds(d, Fetch(d, limit))}

(* score_candidates.                                                        *)
PreFiltered(d, f, limit) ==
    First(ByScore(d, Selected(d, f) \cap Candidates(d.indexes, f)), limit)

(* The graph over-fetched until enough nodes pass the filter; the growth of *)
(* the fetch is left out, any of its answers may be the one that is enough. *)
PostFiltered(d, f, limit) ==
    {a \in {First(ByScore(d, found \cap Selected(d, f)), limit) :
              found \in GraphFinds(d, Len(d.ids))} : Len(a) = limit}

(* filtered_planner: the candidates of the indexes when they are few or the *)
(* collection is small, else the graph, else an exact scan.                 *)
Filtered(d, f, limit) ==
    LET live == Cardinality(Live(d))
        set  == Candidates(d.indexes, f)
    IN  IF /\ Answered(d.indexes, f) # {}
           /\ 4 * Cardinality(set) <= live \/ live < PostfilterMinLive \/ ~d.index
        THEN {PreFiltered(d, f, limit)}
        ELSE {First(ByScore(d, Selected(d, f)), limit)}
             \cup (IF live >= PostfilterMinLive /\ d.index
                   THEN PostFiltered(d, f, limit) ELSE {})

(* execute_query: an empty filter is no filter.                             *)
DenseAnswers(d, f, limit) ==
    IF f = NoFilter THEN Unfiltered(d, limit) ELSE Filtered(d, f, limit)

-----------------------------------------------------------------------------
(* The sparse lane and the fusion.                                          *)

(* By score, then by id.                                                    *)
SparseBetter(d) ==
    {p \in Live(d) \X Live(d) :
        \/ d.sparses[p[1]] > d.sparses[p[2]]
        \/ /\ d.sparses[p[1]] = d.sparses[p[2]]
           /\ IdRank[d.ids[p[1]]] < IdRank[d.ids[p[2]]]}

(* sparse_ranked.                                                           *)
SparseRanked(d, f, limit) ==
    First(Sorted({s \in Selected(d, f) : d.sparses[s] # 0}, SparseBetter(d)), limit)

RankIn(ids, i) == CHOOSE r \in DOMAIN ids : ids[r] = i

(* alpha / (rrf_k + rank).                                                  *)
Term(weight, ids, i) ==
    IF i \in Range(ids) THEN weight * (Scale \div (RrfK + RankIn(ids, i))) ELSE 0

(* The fused score of an id in the two lanes' rankings.                     *)
Fused(dense, sparse, alpha, i) == Term(alpha, dense, i) + Term(2 - alpha, sparse, i)

(* By fused score, then dense rank, then id.                                *)
FusedBetter(dense, sparse, alpha) ==
    LET score(i) == Fused(dense, sparse, alpha, i)
        rank(i)  == IF i \in Range(dense) THEN RankIn(dense, i) ELSE Len(dense) + 1
    IN  {p \in Id \X Id :
            \/ score(p[1]) > score(p[2])
            \/ score(p[1]) = score(p[2]) /\ rank(p[1]) < rank(p[2])
            \/ /\ score(p[1]) = score(p[2]) /\ rank(p[1]) = rank(p[2])
               /\ IdRank[p[1]] < IdRank[p[2]]}

-----------------------------------------------------------------------------
(* Queries step by step.  The rest is history: the ids as they were when a  *)
(* lane ranked them, `seen` their points, `touched` those of them written   *)
(* since, and `moved`, that the slots a lane found were renumbered.         *)

NoQuery == [at |-> "none", filter |-> NoFilter, limit |-> 1, alpha |-> 1,
            dense |-> <<>>, slots |-> <<>>, ranked |-> <<>>, seen |-> <<>>,
            touched |-> {}, moved |-> FALSE, hits |-> <<>>]

(* A collection created with payload indexes (CollectionOptions).           *)
SearchInit ==
    /\ data = NoPoints([k \in {x[1] : x \in Indexable} |->
                           [kind |-> (CHOOSE x \in Indexable : x[1] = k)[2]]])
    /\ points = <<>> /\ scan = NoScan /\ query = NoQuery

Idle == query.at \in {"none", "done", "panicked"}

IdsOf(d, slots) == [k \in DOMAIN slots |-> d.ids[slots[k]]]
SeenAt(d, slots) == [i \in Range(IdsOf(d, slots)) |-> PointAt(d, d.slotOf[i])]

Joined(f, g) ==
    [i \in DOMAIN f \cup DOMAIN g |-> IF i \in DOMAIN f THEN f[i] ELSE g[i]]

Hit(d, s) == [id |-> d.ids[s], pay |-> d.pays[s]]

(* search_sparse and the sparse-only hybrid query: the lane is ranked.      *)
RankSparse ==
    /\ Idle
    /\ \E f \in AskedFilters, limit \in Limits :
          LET slots == SparseRanked(data, f, limit) IN
          query' = [NoQuery EXCEPT !.at = "ranked", !.filter = f, !.limit = limit,
                                   !.slots = slots, !.ranked = IdsOf(data, slots),
                                   !.seen = SeenAt(data, slots)]
    /\ UNCHANGED vars

(* project_slots, by the slots found before; one beyond the array panics.   *)
ProjectSparse ==
    /\ query.at = "ranked"
    /\ query' = IF \E k \in DOMAIN query.slots : query.slots[k] > Len(data.ids)
                THEN [query EXCEPT !.at = "panicked"]
                ELSE [query EXCEPT !.at = "done",
                                   !.hits = [k \in DOMAIN query.slots |->
                                                Hit(data, query.slots[k])]]
    /\ UNCHANGED vars

(* execute_hybrid with both lanes: the dense lane.                          *)
RankDense ==
    /\ Idle
    /\ \E f \in AskedFilters, limit \in Limits, alpha \in Alphas :
       \E found \in DenseAnswers(data, f, Most(4 * limit, FusionFetch)) :
          query' = [NoQuery EXCEPT !.at = "dense", !.filter = f, !.limit = limit,
                                   !.alpha = alpha, !.dense = IdsOf(data, found),
                                   !.seen = SeenAt(data, found)]
    /\ UNCHANGED vars

RankSparseLane ==
    /\ query.at = "dense"
    /\ LET slots == SparseRanked(data, query.filter, Most(4 * query.limit, FusionFetch)) IN
       query' = [query EXCEPT !.at = "lanes", !.slots = slots,
                              !.ranked = IdsOf(data, slots),
                              !.seen = Joined(@, SeenAt(data, slots))]
    /\ UNCHANGED vars

(* The lanes fused and the first `limit` projected from the points of now,  *)
(* the sparse ones by slot.                                                 *)
Fuse ==
    /\ query.at = "lanes"
    /\ query' = IF \E k \in DOMAIN query.slots : query.slots[k] > Len(data.ids)
                THEN [query EXCEPT !.at = "panicked"]
                ELSE LET sparse == IdsOf(data, query.slots)
                         before == FusedBetter(query.dense, sparse, query.alpha)
                         best == First(Sorted(Range(query.dense) \cup Range(sparse), before),
                                       query.limit)
                         kept == Sorted(Range(best) \cap DOMAIN data.slotOf, before)
                     IN  [query EXCEPT !.at = "done",
                            !.hits = [k \in DOMAIN kept |-> Hit(data, data.slotOf[kept[k]])]]
    /\ UNCHANGED vars

(* A writer between a query's steps, or one that makes a finished query     *)
(* forgotten.                                                               *)
Noted(ids, renumbered) ==
    query' = IF Idle THEN NoQuery
             ELSE [query EXCEPT !.touched = @ \cup (ids \cap DOMAIN query.seen),
                                !.moved = @ \/ (renumbered /\ query.slots # <<>>)]

SearchNext ==
    \/ \E i \in Id, p \in Point : UpsertBatch(<< <<i, p>> >>) /\ Noted({i}, FALSE)
    \/ \E i \in DOMAIN data.slotOf : DeleteBatch({i}) /\ Noted({i}, FALSE)
    \/ data.dead # {} /\ Compact /\ Noted({}, TRUE)
    \/ data.dead # {} /\ Reindex /\ Noted({}, FALSE)
    \/ RankSparse \/ ProjectSparse
    \/ RankDense \/ RankSparseLane \/ Fuse

SearchSpec == SearchInit /\ [][SearchNext]_<<vars, query>>

-----------------------------------------------------------------------------
(* Properties.  Those of the dense lane are of the points alone: they are   *)
(* checked while no query is in progress.                                   *)

(* CORE-035: a search returns min(limit, live) live points, each once,      *)
(* whatever the graph finds; and a graph full of tombstones that returns as *)
(* many nodes as it was asked for needs no scan after it, for it holds no   *)
(* more dead nodes than there are tombstones.                               *)
SearchFillsLimit ==
    query = NoQuery =>
     \A limit \in Limits :
        /\ \A a \in Unfiltered(data, limit) :
              /\ Len(a) = Least(limit, Cardinality(Live(data)))
              /\ IsInjective(a) /\ Range(a) \subseteq Live(data)
        /\ data.index =>
           \A found \in GraphFinds(data, Fetch(data, limit)) :
              Cardinality(found) >= Least(Fetch(data, limit), Cardinality({x[1] : x \in data.graph})) =>
                 Cardinality(found \cap Live(data)) >= Least(limit, Cardinality(Live(data)))

(* FLT-022 and FLT-031: an index and the planner's choice change no result: *)
(* as many points as the scan would find, all selected by the filter, and   *)
(* the very same ones where no graph is asked.                              *)
PlannerMatchesScan ==
    query = NoQuery =>
     \A f \in Filters \ {NoFilter}, limit \in Limits : \A a \in Filtered(data, f, limit) :
        /\ Len(a) = Least(limit, Cardinality(Selected(data, f)))
        /\ Range(a) \subseteq Selected(data, f)
        /\ Cardinality(Live(data)) < PostfilterMinLive =>
              a = First(ByScore(data, Selected(data, f)), limit)

(* A finished query's hits are points it ranked, each once; those nobody    *)
(* wrote since have the payload they had then, which passes the filter.     *)
(* Only a compaction between its steps can send it to other points or       *)
(* outside the slot array.                                                  *)
HitsAsRanked ==
    /\ query.at = "panicked" => query.moved
    /\ query.at = "done" => Len(query.hits) <= query.limit
    /\ query.at = "done" /\ ~query.moved =>
          /\ IsInjective([k \in DOMAIN query.hits |-> query.hits[k].id])
          /\ \A k \in DOMAIN query.hits :
                /\ query.hits[k].id \in DOMAIN query.seen
                /\ query.hits[k].id \notin query.touched =>
                      /\ query.hits[k].pay = query.seen[query.hits[k].id].pay
                      /\ Matches(query.filter, query.hits[k].pay)

(* API-041, "no panics across the public boundary in safe usage"            *)
(* (SPEC-004): no query ends outside the slot array.                        *)
NoPanic == query.at # "panicked"

(* HYB-011, "SPEC-006 filter applies to both lanes" (SPEC-007): every hit   *)
(* of a finished query passes its filter.                                   *)
HitsPassFilter ==
    query.at = "done" =>
       \A k \in DOMAIN query.hits : Matches(query.filter, query.hits[k].pay)

=============================================================================
