----------------------------- MODULE SlotsProof -----------------------------
(***************************************************************************)
(* What the slots of a collection promise, proved for any ids, points,     *)
(* indexes, page sizes and numbers of slots: that they stand for the       *)
(* points the callers asked for, that the graph and the postings have the  *)
(* live slots, and that a scroll nobody disturbs covers each point once;   *)
(* and what its searches promise, for any filters, limits and weights, and *)
(* whatever the graph finds: that they fill their limit, that the planner  *)
(* changes no result, and that a query in several steps answers with what  *)
(* it ranked.                                                              *)
(***************************************************************************)
EXTENDS Search, FoldLemmas, FiniteSetTheorems

-----------------------------------------------------------------------------
(* Types.                                                                   *)

Vecs  == {p.vec : p \in Point}
Pays  == {NoPay} \cup {p.pay : p \in Point}
Kinds == {"keyword", "integer", "float"}
Keys  == {x[1] : x \in Indexable}

(* What may be posted, and the indexes over some of the keys, each of a     *)
(* kind declared for it.                                                    *)
Terms   == UNION {PostingKeys(q[1], q[2][q[3]]) : q \in Kinds \X Pays \X Keys}
Shapes  == UNION {[K -> [kind : Kinds, posts : SUBSET (Terms \X Nat)]] : K \in SUBSET Keys}
IsDeclared(k, kind) == \E x \in Indexable : x[1] = k /\ x[2] = kind
Indexes == {X \in Shapes : \A k \in DOMAIN X : IsDeclared(k, X[k].kind)}

(* CollectionData.                                                          *)
Data == [ids : Seq(Id), slotOf : UNION {[S -> Nat] : S \in SUBSET Id}, dead : SUBSET Nat,
         pays : Seq(Pays), sparses : Seq(Nat), base : Seq(Vecs), overlay : Seq(Vecs),
         index : BOOLEAN, gated : BOOLEAN, graph : SUBSET (Nat \X Vecs),
         indexes : Indexes]

(* The points the slots stand for.                                          *)
Held(d) == [i \in DOMAIN d.slotOf |-> PointAt(d, d.slotOf[i])]

-----------------------------------------------------------------------------
(* What holds of the slots at every step.                                   *)

(* Every array has an element per slot.                                     *)
Sized(d) ==
    /\ Len(d.pays) = Len(d.ids) /\ Len(d.sparses) = Len(d.ids)
    /\ Len(d.base) + Len(d.overlay) = Len(d.ids)

(* The id map leads to the last slot with the id, and to a point.           *)
Mapped(d) ==
    \A i \in DOMAIN d.slotOf :
       /\ d.slotOf[i] \in Slot(d) /\ d.ids[d.slotOf[i]] = i
       /\ \A s \in Slot(d) : d.ids[s] = i => s <= d.slotOf[i]
       /\ PointAt(d, d.slotOf[i]) \in Point

(* The tombstones are the other slots.                                      *)
Entombed(d) == d.dead = Slot(d) \ Live(d)

(* The graph has the live slots, and of others only the vector they had.    *)
Graphed(d) ==
    d.index =>
       /\ \A n \in d.graph : n[1] \in Slot(d) /\ n = <<n[1], VectorAt(d, n[1])>>
       /\ \A s \in Live(d) : <<s, VectorAt(d, s)>> \in d.graph

(* The postings are those of the live slots in S.                           *)
PostedOf(d, S) ==
    \A k \in DOMAIN d.indexes : \A q :
       q \in d.indexes[k].posts <=> \E s \in S : q \in PostsOf(d.indexes[k], k, s, d.pays[s])

(* Slots in a state the code may reach.                                     *)
Sound(d) ==
    d \in Data /\ Sized(d) /\ Mapped(d) /\ Entombed(d) /\ Graphed(d) /\ PostedOf(d, Live(d))

(* All of them.                                                             *)
Sounds == {d \in Data : Sound(d)}

-----------------------------------------------------------------------------
(* Records and postings.                                                    *)

(* A record with the fields of CollectionData.                              *)
FieldNames == {"ids", "slotOf", "dead", "pays", "sparses", "base", "overlay", "index", "gated",
               "graph", "indexes"}
Fields(d) == DOMAIN d = FieldNames /\ d = [x \in DOMAIN d |-> d[x]]

(* The fields' types make up the type.                                      *)
Typed(d) ==
    /\ d.ids \in Seq(Id) /\ d.slotOf \in UNION {[S -> Nat] : S \in SUBSET Id}
    /\ d.dead \in SUBSET Nat /\ d.pays \in Seq(Pays) /\ d.sparses \in Seq(Nat)
    /\ d.base \in Seq(Vecs) /\ d.overlay \in Seq(Vecs)
    /\ d.index \in BOOLEAN /\ d.gated \in BOOLEAN
    /\ d.graph \in SUBSET (Nat \X Vecs) /\ d.indexes \in Indexes

(* A record is CollectionData if its fields are.                            *)
LEMMA DataIs == \A d : d \in Data <=> Fields(d) /\ Typed(d)
  BY DEF Data, Fields, FieldNames, Typed

(* d with the slot s of id i dead, the arrays as given.                     *)
IsBuried(b, d, s) ==
    /\ b.ids = d.ids /\ b.base = d.base /\ b.overlay = d.overlay
    /\ b.index = d.index /\ b.gated = d.gated /\ b.graph = d.graph
    /\ b.slotOf = Restrict(d.slotOf, DOMAIN d.slotOf \ {d.ids[s]})
    /\ b.dead = d.dead \cup {s}
    /\ b.pays = [d.pays EXCEPT ![s] = NoPay] /\ b.sparses = [d.sparses EXCEPT ![s] = 0]
    /\ b.indexes = RemovePayload(d.indexes, s, d.pays[s])

(* Buried does that.                                                        *)
LEMMA BuriedIs ==
    ASSUME NEW d, NEW s, Fields(d)
    PROVE  Fields(Buried(d, s)) /\ IsBuried(Buried(d, s), d, s)
<1> DEFINE e == Unposted(d, s)
<1>1. /\ Fields(e) /\ e.indexes = RemovePayload(d.indexes, s, d.pays[s])
      /\ \A x \in FieldNames \ {"indexes"} : e[x] = d[x]
  BY DEF Fields, FieldNames, Unposted
<1> HIDE DEF e
<1>2. Buried(d, s) = [e EXCEPT !.slotOf = Restrict(@, DOMAIN @ \ {d.ids[s]}),
                           !.dead = @ \cup {s},
                           !.pays[s] = NoPay, !.sparses[s] = 0]
  BY DEF Buried, e
<1>3. Fields(Buried(d, s))
  BY <1>1, <1>2 DEF Fields, FieldNames
<1> QED
  BY <1>1, <1>2, <1>3 DEF Fields, FieldNames, IsBuried

(* b with a new live slot s for id i and point p.                           *)
IsGrown(u, b, i, p, s) ==
    /\ u.ids = Append(b.ids, i) /\ u.base = b.base /\ u.overlay = Append(b.overlay, p.vec)
    /\ u.index = b.index /\ u.gated = b.gated
    /\ u.graph = IF b.index THEN b.graph \cup {<<s, p.vec>>} ELSE b.graph
    /\ u.slotOf = Put(b.slotOf, i, s)
    /\ u.dead = b.dead
    /\ u.pays = Append(b.pays, p.pay) /\ u.sparses = Append(b.sparses, p.sparse)
    /\ u.indexes = InsertPayload(b.indexes, s, Append(b.pays, p.pay)[s])

(* apply_upsert does that to what tombstone leaves.                         *)
LEMMA UpsertIs ==
    ASSUME NEW d, NEW p, Fields(Tombstone(d, p[1]))
    PROVE  LET b == Tombstone(d, p[1]) IN
           /\ Fields(ApplyUpsert(d, p))
           /\ IsGrown(ApplyUpsert(d, p), b, p[1], p[2], Len(b.ids) + 1)
<1> DEFINE b == Tombstone(d, p[1])
           s == Len(b.ids) + 1
           new == [b EXCEPT !.ids = Append(@, p[1]),
                         !.pays = Append(@, p[2].pay),
                         !.sparses = Append(@, p[2].sparse),
                         !.overlay = Append(@, p[2].vec),
                         !.slotOf = Put(@, p[1], s)]
<1>1. ApplyUpsert(d, p) = Noded(Posted(new, s), s, p[2].vec)
  BY DEF ApplyUpsert
<1> HIDE DEF b, s
<1>2. Fields(b)
  BY DEF b
<1>3. /\ Fields(new)
      /\ new.ids = Append(b.ids, p[1]) /\ new.pays = Append(b.pays, p[2].pay)
      /\ new.sparses = Append(b.sparses, p[2].sparse) /\ new.overlay = Append(b.overlay, p[2].vec)
      /\ new.slotOf = Put(b.slotOf, p[1], s)
      /\ \A x \in {"dead", "base", "index", "gated", "graph", "indexes"} : new[x] = b[x]
  BY <1>2 DEF Fields, FieldNames
<1> HIDE DEF new
<1> DEFINE e == Posted(new, s)
<1>4. /\ Fields(e) /\ e.indexes = InsertPayload(new.indexes, s, new.pays[s])
      /\ \A x \in FieldNames \ {"indexes"} : e[x] = new[x]
  BY <1>3 DEF Posted, Fields, FieldNames
<1> HIDE DEF e
<1> DEFINE u == Noded(e, s, p[2].vec)
<1>5. /\ Fields(u) /\ u.graph = IF e.index THEN e.graph \cup {<<s, p[2].vec>>} ELSE e.graph
      /\ \A x \in FieldNames \ {"graph"} : u[x] = e[x]
  <2>1. CASE e.index
    BY <1>4, <2>1 DEF Noded, Fields, FieldNames
  <2>2. CASE ~e.index
    BY <1>4, <2>2 DEF Noded, Fields, FieldNames
  <2> QED
    BY <2>1, <2>2
<1> HIDE DEF u
<1>6. ApplyUpsert(d, p) = u
  BY <1>1 DEF u, e
<1>7. IsGrown(u, b, p[1], p[2], s)
  BY <1>3, <1>4, <1>5 DEF FieldNames, IsGrown
<1> QED
  BY <1>5, <1>6, <1>7 DEF b, s

(* The postings of a slot are its own.                                      *)
LEMMA PostsOwn ==
    \A x, k, s, pay : \A q \in PostsOf(x, k, s, pay) : q[2] = s
  BY DEF PostsOf

(* They depend on the kind of the index only.                               *)
LEMMA PostsSame ==
    \A x, y, k, s, pay : x.kind = y.kind => PostsOf(x, k, s, pay) = PostsOf(y, k, s, pay)
  BY DEF PostsOf

(* Nothing is posted of no payload.                                         *)
LEMMA PostsNone ==
    \A x, k, s : PostsOf(x, k, s, NoPay) = {}
  BY DEF PostsOf, HasKey

(* Postings have their type.                                                *)
LEMMA PostsType ==
    ASSUME NEW x, x.kind \in Kinds, NEW k \in Keys, NEW s \in Nat, NEW pay \in Pays
    PROVE  PostsOf(x, k, s, pay) \subseteq Terms \X Nat
<1>1. PostingKeys(x.kind, pay[k]) \subseteq Terms
  <2>1. <<x.kind, pay, k>> \in Kinds \X Pays \X Keys
    OBVIOUS
  <2> DEFINE q == <<x.kind, pay, k>>
  <2>2. PostingKeys(q[1], q[2][q[3]]) \subseteq Terms
    <3> HIDE DEF q
    <3> QED
      BY <2>1 DEF Terms, q
  <2> QED
    BY <2>2
<1> QED
  BY <1>1 DEF PostsOf

(* An index is a kind and postings.                                         *)
LEMMA IndexType ==
    \A x, k, P, S : k \in Kinds /\ P \in S /\ x = [kind |-> k, posts |-> P] =>
                     x \in [kind : Kinds, posts : S]
  OBVIOUS

(* Index y is index x with the postings P, or without them.                 *)
IsJoined(y, x, P) == y.kind = x.kind /\ y.posts = x.posts \cup P
IsCut(y, x, P)    == y.kind = x.kind /\ y.posts = x.posts \ P

(* The records that are.                                                    *)
LEMMA JoinedIs ==
    \A x, y, P :
       /\ y = [kind |-> x.kind, posts |-> x.posts \cup P] => IsJoined(y, x, P)
       /\ y = [kind |-> x.kind, posts |-> x.posts \ P] => IsCut(y, x, P)
  BY DEF IsJoined, IsCut

(* An index, after insertion and removal.                                   *)
LEMMA IndexIs ==
    ASSUME NEW X \in Indexes, NEW s, NEW pay
    PROVE  /\ DOMAIN X \subseteq Keys
           /\ \A k \in DOMAIN X :
                 /\ X[k].kind \in Kinds /\ X[k].posts \subseteq Terms \X Nat
                 /\ IsJoined(InsertPayload(X, s, pay)[k], X[k], PostsOf(X[k], k, s, pay))
                 /\ IsCut(RemovePayload(X, s, pay)[k], X[k], PostsOf(X[k], k, s, pay))
           /\ DOMAIN InsertPayload(X, s, pay) = DOMAIN X
           /\ DOMAIN RemovePayload(X, s, pay) = DOMAIN X
           /\ s \in Nat /\ pay \in Pays => InsertPayload(X, s, pay) \in Indexes
           /\ RemovePayload(X, s, pay) \in Indexes
<1>1. PICK K \in SUBSET Keys : X \in [K -> [kind : Kinds, posts : SUBSET (Terms \X Nat)]]
  BY DEF Indexes, Shapes
<1>a. \A k \in K : IsDeclared(k, X[k].kind)
  BY <1>1 DEF Indexes
<1>2. ASSUME NEW k \in K
      PROVE  /\ X[k].kind \in Kinds /\ X[k].posts \subseteq Terms \X Nat
             /\ InsertPayload(X, s, pay)[k] =
                   [kind |-> X[k].kind, posts |-> X[k].posts \cup PostsOf(X[k], k, s, pay)]
             /\ RemovePayload(X, s, pay)[k] =
                   [kind |-> X[k].kind, posts |-> X[k].posts \ PostsOf(X[k], k, s, pay)]
  BY <1>1 DEF InsertPayload, RemovePayload
<1>3. s \in Nat /\ pay \in Pays => InsertPayload(X, s, pay) \in Indexes
  <2> SUFFICES ASSUME s \in Nat, pay \in Pays
               PROVE  InsertPayload(X, s, pay) \in Indexes
    OBVIOUS
  <2>1. ASSUME NEW k \in K
        PROVE  InsertPayload(X, s, pay)[k] \in [kind : Kinds, posts : SUBSET (Terms \X Nat)]
    <3>1. PostsOf(X[k], k, s, pay) \subseteq Terms \X Nat
      BY <1>2, PostsType
    <3>2. X[k].posts \cup PostsOf(X[k], k, s, pay) \in SUBSET (Terms \X Nat)
      BY <1>2, <3>1
    <3>3. /\ X[k].kind \in Kinds
          /\ InsertPayload(X, s, pay)[k] =
                [kind |-> X[k].kind, posts |-> X[k].posts \cup PostsOf(X[k], k, s, pay)]
      BY <1>2
    <3> QED
      BY ONLY <3>2, <3>3, IndexType
  <2> DEFINE Y == InsertPayload(X, s, pay)
  <2>2. Y \in [K -> [kind : Kinds, posts : SUBSET (Terms \X Nat)]]
    BY <1>1, <2>1 DEF InsertPayload
  <2>3. ASSUME NEW k \in K PROVE Y[k].kind = X[k].kind
    <3>1. Y[k] = [kind |-> X[k].kind, posts |-> X[k].posts \cup PostsOf(X[k], k, s, pay)]
      BY <1>2
    <3> HIDE DEF Y
    <3> QED
      BY ONLY <3>1
  <2> HIDE DEF Y
  <2>4. Y \in Shapes /\ \A k \in DOMAIN Y : IsDeclared(k, Y[k].kind)
    BY <1>a, <2>2, <2>3 DEF Shapes
  <2> QED
    BY <2>4 DEF Indexes, Y
<1>4. RemovePayload(X, s, pay) \in Indexes
  <2>1. ASSUME NEW k \in K
        PROVE  RemovePayload(X, s, pay)[k] \in [kind : Kinds, posts : SUBSET (Terms \X Nat)]
    <3>1. X[k].posts \ PostsOf(X[k], k, s, pay) \in SUBSET (Terms \X Nat)
      BY <1>2
    <3>2. /\ X[k].kind \in Kinds
          /\ RemovePayload(X, s, pay)[k] =
                [kind |-> X[k].kind, posts |-> X[k].posts \ PostsOf(X[k], k, s, pay)]
      BY <1>2
    <3> QED
      BY ONLY <3>1, <3>2, IndexType
  <2> DEFINE Y == RemovePayload(X, s, pay)
  <2>2. Y \in [K -> [kind : Kinds, posts : SUBSET (Terms \X Nat)]]
    BY <1>1, <2>1 DEF RemovePayload
  <2>3. ASSUME NEW k \in K PROVE Y[k].kind = X[k].kind
    <3>1. Y[k] = [kind |-> X[k].kind, posts |-> X[k].posts \ PostsOf(X[k], k, s, pay)]
      BY <1>2
    <3> HIDE DEF Y
    <3> QED
      BY ONLY <3>1
  <2> HIDE DEF Y
  <2>4. Y \in Shapes /\ \A k \in DOMAIN Y : IsDeclared(k, Y[k].kind)
    BY <1>a, <2>2, <2>3 DEF Shapes
  <2> QED
    BY <2>4 DEF Indexes, Y
<1>5. ASSUME NEW k \in K
      PROVE  /\ IsJoined(InsertPayload(X, s, pay)[k], X[k], PostsOf(X[k], k, s, pay))
             /\ IsCut(RemovePayload(X, s, pay)[k], X[k], PostsOf(X[k], k, s, pay))
  BY <1>2, JoinedIs
<1>6. DOMAIN X = K /\ DOMAIN InsertPayload(X, s, pay) = K /\ DOMAIN RemovePayload(X, s, pay) = K
  BY <1>1 DEF InsertPayload, RemovePayload
<1> QED
  BY <1>2, <1>3, <1>4, <1>5, <1>6

-----------------------------------------------------------------------------
(* One slot dies.                                                           *)

(* A sequence with one element replaced.                                    *)
LEMMA SetAt ==
    ASSUME NEW S, NEW q \in Seq(S), NEW s, NEW v \in S
    PROVE  /\ [q EXCEPT ![s] = v] \in Seq(S) /\ Len([q EXCEPT ![s] = v]) = Len(q)
           /\ \A t \in 1..Len(q) : t # s => [q EXCEPT ![s] = v][t] = q[t]
<1>1. Len(q) \in Nat /\ q \in [1..Len(q) -> S]
  OBVIOUS
<1>2. [q EXCEPT ![s] = v] \in [1..Len(q) -> S]
  BY <1>1
<1>3. \A r : r \in [1..Len(q) -> S] => r \in Seq(S) /\ Len(r) = Len(q)
  BY <1>1
<1> QED
  BY <1>1, <1>2, <1>3

(* The numbers and the types of the fields.                                 *)
LEMMA SizesAre ==
    ASSUME NEW d, d \in Data, Sized(d)
    PROVE  /\ Len(d.ids) \in Nat /\ Len(d.base) \in Nat /\ Len(d.overlay) \in Nat
           /\ Len(d.pays) = Len(d.ids) /\ Len(d.sparses) = Len(d.ids)
           /\ Len(d.base) + Len(d.overlay) = Len(d.ids)
           /\ Slot(d) \subseteq Nat /\ Slot(d) = 1..Len(d.ids)
           /\ \A s \in Slot(d) : d.ids[s] \in Id /\ d.pays[s] \in Pays /\ d.sparses[s] \in Nat
                                 /\ VectorAt(d, s) \in Vecs
           /\ DOMAIN d.slotOf \subseteq Id
<1>1. Typed(d)
  BY DataIs
<1>2. /\ Len(d.ids) \in Nat /\ Len(d.base) \in Nat /\ Len(d.overlay) \in Nat
      /\ Len(d.pays) = Len(d.ids) /\ Len(d.sparses) = Len(d.ids)
      /\ Len(d.base) + Len(d.overlay) = Len(d.ids)
  <2>1. d.ids \in Seq(Id) /\ d.base \in Seq(Vecs) /\ d.overlay \in Seq(Vecs)
    BY <1>1 DEF Typed
  <2>2. Len(d.ids) \in Nat /\ Len(d.base) \in Nat /\ Len(d.overlay) \in Nat
    BY <2>1
  <2> QED
    BY <2>2 DEF Sized
<1>3. Slot(d) = 1..Len(d.ids) /\ Slot(d) \subseteq Nat
  BY <1>2 DEF Slot
<1>4. ASSUME NEW s \in Slot(d)
      PROVE  d.ids[s] \in Id /\ d.pays[s] \in Pays /\ d.sparses[s] \in Nat
  BY <1>1, <1>2, <1>3 DEF Typed
<1>5. ASSUME NEW s \in Slot(d)
      PROVE  VectorAt(d, s) \in Vecs
  <2>1. CASE s <= Len(d.base)
    <3>1. s \in 1..Len(d.base)
      BY <2>1, <1>2, <1>3
    <3> QED
      BY <2>1, <3>1, <1>1 DEF VectorAt, Typed
  <2>2. CASE ~(s <= Len(d.base))
    <3>1. PICK a, c, n : a = Len(d.base) /\ c = Len(d.overlay) /\ n = Len(d.ids)
      OBVIOUS
    <3>2. a \in Nat /\ c \in Nat /\ s \in 1..n /\ ~(s <= a) /\ n = a + c
      BY <1>2, <1>3, <2>2, <3>1
    <3>3. s - a \in 1..c
      BY ONLY <3>2
    <3>4. d.overlay \in Seq(Vecs) /\ VectorAt(d, s) = d.overlay[s - a]
      BY <1>1, <2>2, <3>1 DEF Typed, VectorAt
    <3> QED
      BY <3>1, <3>3, <3>4
  <2> QED
    BY <2>1, <2>2
<1>6. DOMAIN d.slotOf \subseteq Id
  BY <1>1 DEF Typed
<1> QED
  BY <1>2, <1>3, <1>4, <1>5, <1>6

(* The live slots are those the id map leads to.                            *)
LEMMA LiveIs ==
    ASSUME NEW d, Mapped(d)
    PROVE  /\ \A i \in DOMAIN d.slotOf : d.slotOf[i] \in Live(d)
           /\ \A s \in Live(d) : s \in Slot(d) /\ d.ids[s] \in DOMAIN d.slotOf
                                 /\ d.slotOf[d.ids[s]] = s
  BY DEF Mapped, Live, IsLive

(* What dies with the slot of i: its point, and nothing else.               *)
Died(b, d, i) ==
    /\ b.ids = d.ids /\ DOMAIN b.slotOf = DOMAIN d.slotOf \ {i}
    /\ \A j \in DOMAIN b.slotOf : b.slotOf[j] = d.slotOf[j]
                                  /\ PointAt(b, b.slotOf[j]) = PointAt(d, d.slotOf[j])

(* The slots stay sound when the slot of an id dies.                        *)
LEMMA BuriedSound ==
    ASSUME NEW d, Sound(d), NEW i \in DOMAIN d.slotOf
    PROVE  Sound(Buried(d, d.slotOf[i])) /\ Died(Buried(d, d.slotOf[i]), d, i)
<1> DEFINE s == d.slotOf[i]
           b == Buried(d, s)
<1>1. d \in Data /\ Sized(d) /\ Mapped(d) /\ Entombed(d) /\ Graphed(d) /\ PostedOf(d, Live(d))
  BY DEF Sound
<1>2. s \in Slot(d) /\ d.ids[s] = i /\ s \in Nat /\ s \in Live(d) /\ Live(d) \subseteq Nat
  BY <1>1, SizesAre, LiveIs DEF Mapped
<1>3. Fields(d) /\ Typed(d)
  BY <1>1, DataIs
<1>4. Fields(b) /\ IsBuried(b, d, s)
  BY <1>3, BuriedIs
<1> HIDE DEF b, s
<1>5. /\ b.ids = d.ids /\ Slot(b) = Slot(d) /\ DOMAIN b.slotOf = DOMAIN d.slotOf \ {i}
      /\ \A j \in DOMAIN b.slotOf : b.slotOf[j] = d.slotOf[j] /\ b.slotOf[j] # s
  <2>1. b.ids = d.ids /\ Slot(b) = Slot(d)
    BY <1>4 DEF IsBuried, Slot
  <2>2. DOMAIN b.slotOf = DOMAIN d.slotOf \ {i} /\ \A j \in DOMAIN b.slotOf : b.slotOf[j] = d.slotOf[j]
    BY <1>2, <1>4 DEF IsBuried, Restrict
  <2>3. \A j \in DOMAIN d.slotOf : d.slotOf[j] = s => j = i
    BY <1>1, <1>2 DEF Mapped
  <2> QED
    BY <2>1, <2>2, <2>3
<1>6. \A t : VectorAt(b, t) = VectorAt(d, t)
  BY <1>4 DEF IsBuried, VectorAt
<1>7. /\ Len(b.pays) = Len(d.pays) /\ Len(b.sparses) = Len(d.sparses)
      /\ \A t \in Slot(d) : t # s => b.pays[t] = d.pays[t] /\ b.sparses[t] = d.sparses[t]
      /\ b.pays \in Seq(Pays) /\ b.sparses \in Seq(Nat)
  <2>1. NoPay \in Pays
    BY DEF Pays
  <2>2. Slot(d) = 1..Len(d.pays) /\ Slot(d) = 1..Len(d.sparses)
    BY <1>1, SizesAre
  <2>3. d.pays \in Seq(Pays) /\ d.sparses \in Seq(Nat)
    BY <1>3 DEF Typed
  <2>4. b.pays = [d.pays EXCEPT ![s] = NoPay] /\ b.sparses = [d.sparses EXCEPT ![s] = 0]
    BY <1>4 DEF IsBuried
  <2>5. PICK q, r, z : /\ q = d.sparses /\ r = b.sparses /\ z \in Nat
                       /\ q \in Seq(Nat) /\ r = [q EXCEPT ![s] = z]
    BY <2>3, <2>4
  <2>6. /\ b.pays \in Seq(Pays) /\ Len(b.pays) = Len(d.pays)
        /\ \A t \in 1..Len(d.pays) : t # s => b.pays[t] = d.pays[t]
    BY <2>1, <2>3, <2>4, SetAt
  <2>7. /\ b.sparses \in Seq(Nat) /\ Len(b.sparses) = Len(d.sparses)
        /\ \A t \in 1..Len(d.sparses) : t # s => b.sparses[t] = d.sparses[t]
    <3>1. /\ r \in Seq(Nat) /\ Len(r) = Len(q)
          /\ \A t \in 1..Len(q) : t # s => r[t] = q[t]
      BY ONLY <2>5, SetAt
    <3> QED
      BY <2>5, <3>1
  <2> QED
    BY <2>2, <2>6, <2>7
<1>8. \A t \in Slot(d) : t # s => PointAt(b, t) = PointAt(d, t)
  BY <1>6, <1>7 DEF PointAt
<1>9. Died(b, d, i)
  BY <1>1, <1>5, <1>8 DEF Died, Mapped
<1>10. Live(b) = Live(d) \ {s}
  <2>1. \A t \in Slot(d) : IsLive(b, t) <=> IsLive(d, t) /\ t # s
    <3> SUFFICES ASSUME NEW t \in Slot(d) PROVE IsLive(b, t) <=> IsLive(d, t) /\ t # s
      OBVIOUS
    <3>1. IsLive(b, t) <=> d.ids[t] \in DOMAIN d.slotOf /\ d.ids[t] # i /\ d.slotOf[d.ids[t]] = t
      BY <1>5 DEF IsLive
    <3>2. d.slotOf[i] = s
      BY DEF s
    <3>3. IsLive(d, t) <=> d.ids[t] \in DOMAIN d.slotOf /\ d.slotOf[d.ids[t]] = t
      BY DEF IsLive
    <3> QED
      BY <1>2, <3>1, <3>2, <3>3
  <2> QED
    BY <1>5, <2>1 DEF Live
<1>11. b \in Data
  <2>1. b.slotOf \in UNION {[S -> Nat] : S \in SUBSET Id}
    <3>1. b.slotOf = Restrict(d.slotOf, DOMAIN b.slotOf)
      BY <1>4, <1>5, <1>2 DEF IsBuried
    <3>2. b.slotOf \in [DOMAIN b.slotOf -> Nat] /\ DOMAIN b.slotOf \in SUBSET Id
      <4>1. PICK T \in SUBSET Id : d.slotOf \in [T -> Nat]
        BY <1>3 DEF Typed
      <4>2. \A j \in DOMAIN b.slotOf : b.slotOf[j] \in Nat /\ j \in Id
        BY <4>1, <1>5
      <4>3. b.slotOf = [j \in DOMAIN b.slotOf |-> d.slotOf[j]]
        BY <3>1 DEF Restrict
      <4> QED
        BY <4>2, <4>3
    <3> QED
      BY <3>2
  <2>2. b.indexes \in Indexes
    BY <1>3, <1>4, IndexIs DEF IsBuried, Typed
  <2> QED
    BY <1>2, <1>3, <1>4, <1>7, <2>1, <2>2, DataIs DEF IsBuried, Typed
<1>12. Sized(b)
  BY <1>1, <1>4, <1>7 DEF IsBuried, Sized
<1>13. Mapped(b)
  BY <1>1, <1>5, <1>8 DEF Mapped
<1>14. Entombed(b)
  BY <1>1, <1>2, <1>4, <1>5, <1>10 DEF IsBuried, Entombed
<1>15. Graphed(b)
  BY <1>1, <1>4, <1>5, <1>6, <1>10 DEF IsBuried, Graphed
<1>16. PostedOf(b, Live(b))
  <2> SUFFICES ASSUME NEW k \in DOMAIN b.indexes, NEW q
               PROVE  q \in b.indexes[k].posts <=>
                         \E t \in Live(b) : q \in PostsOf(b.indexes[k], k, t, b.pays[t])
    BY DEF PostedOf
  <2>1. d.indexes \in Indexes /\ b.indexes = RemovePayload(d.indexes, s, d.pays[s])
    BY <1>3, <1>4 DEF IsBuried, Typed
  <2>2. /\ k \in DOMAIN d.indexes
        /\ IsCut(b.indexes[k], d.indexes[k], PostsOf(d.indexes[k], k, s, d.pays[s]))
    BY <2>1, IndexIs
  <2>3. \A t \in Live(b) : PostsOf(b.indexes[k], k, t, b.pays[t]) = PostsOf(d.indexes[k], k, t, d.pays[t])
    <3>1. \A t \in Live(b) : b.pays[t] = d.pays[t]
      BY <1>7, <1>10 DEF Live
    <3>2. b.indexes[k].kind = d.indexes[k].kind
      BY <2>2 DEF IsCut
    <3> QED
      BY <3>1, <3>2, PostsSame
  <2>4. q \in d.indexes[k].posts <=> \E t \in Live(d) : q \in PostsOf(d.indexes[k], k, t, d.pays[t])
    BY <1>1, <2>2 DEF PostedOf
  <2>5. q \in b.indexes[k].posts <=> q \in d.indexes[k].posts /\ q \notin PostsOf(d.indexes[k], k, s, d.pays[s])
    BY <2>2 DEF IsCut
  <2>6. \A t : q \in PostsOf(d.indexes[k], k, t, d.pays[t]) => q[2] = t
    BY PostsOwn
  <2> QED
    BY <1>10, <2>3, <2>4, <2>5, <2>6
<1> QED
  BY <1>9, <1>11, <1>12, <1>13, <1>14, <1>15, <1>16 DEF Sound, b, s

(* Tombstone of an id that may have no slot.                                *)
LEMMA TombstoneSound ==
    ASSUME NEW d, Sound(d), NEW i \in Id
    PROVE  Sound(Tombstone(d, i)) /\ Died(Tombstone(d, i), d, i)
<1>1. CASE i \in DOMAIN d.slotOf
  BY <1>1, BuriedSound DEF Tombstone
<1>2. CASE i \notin DOMAIN d.slotOf
  BY <1>2 DEF Tombstone, Died
<1> QED
  BY <1>1, <1>2

-----------------------------------------------------------------------------
(* A slot is appended.                                                      *)

(* A sequence with one element more.                                        *)
LEMMA AppendIs ==
    ASSUME NEW S, NEW q \in Seq(S), NEW v \in S
    PROVE  /\ Append(q, v) \in Seq(S) /\ Len(Append(q, v)) = Len(q) + 1 /\ Len(q) \in Nat
           /\ \A t \in 1..Len(q) : Append(q, v)[t] = q[t]
           /\ Append(q, v)[Len(q) + 1] = v
  OBVIOUS

(* The vectors after it.                                                    *)
LEMMA VectorsAfter ==
    ASSUME NEW S, NEW base \in Seq(S), NEW over \in Seq(S), NEW v \in S,
           NEW n, n = Len(base) + Len(over)
    PROVE  /\ \A t \in 1..n : ~(t <= Len(base)) =>
                 Append(over, v)[t - Len(base)] = over[t - Len(base)]
           /\ ~(n + 1 <= Len(base)) /\ Append(over, v)[n + 1 - Len(base)] = v
           /\ Len(base) + Len(Append(over, v)) = n + 1
<1>1. Len(base) \in Nat /\ Len(over) \in Nat /\ Len(Append(over, v)) = Len(over) + 1
  OBVIOUS
<1>2. \A t \in 1..n : ~(t <= Len(base)) => t - Len(base) \in 1..Len(over)
  BY <1>1
<1>3. n + 1 - Len(base) = Len(over) + 1
  BY <1>1
<1> QED
  BY <1>1, <1>2, <1>3, AppendIs

(* What the upsert of point p for the id i makes of d.                      *)
Grew(u, d, i, p) ==
    /\ u.ids = Append(d.ids, i) /\ DOMAIN u.slotOf = DOMAIN d.slotOf \cup {i}
    /\ u.slotOf[i] = Len(d.ids) + 1 /\ PointAt(u, u.slotOf[i]) = p
    /\ \A j \in DOMAIN d.slotOf \ {i} : u.slotOf[j] = d.slotOf[j]
                                        /\ PointAt(u, u.slotOf[j]) = PointAt(d, d.slotOf[j])

(* They stay sound when a point goes to a new slot.                         *)
LEMMA GrownSound ==
    ASSUME NEW b, Sound(b), NEW i \in Id, i \notin DOMAIN b.slotOf, NEW p \in Point,
           NEW s, s = Len(b.ids) + 1, NEW u, Fields(u), IsGrown(u, b, i, p, s)
    PROVE  Sound(u) /\ Grew(u, b, i, p)
<1>1. b \in Data /\ Sized(b) /\ Mapped(b) /\ Entombed(b) /\ Graphed(b) /\ PostedOf(b, Live(b))
  BY DEF Sound
<1>2. Typed(b)
  BY <1>1, DataIs
<1>3. p = [vec |-> p.vec, pay |-> p.pay, sparse |-> p.sparse] /\ p.sparse \in Nat
      /\ p.vec \in Vecs /\ p.pay \in Pays
  BY SlotsAssumption DEF SlotsAssumption, Vecs, Pays
<1>4. PICK n : n = Len(b.ids)
  OBVIOUS
<1>5. /\ n \in Nat /\ s = n + 1 /\ Slot(b) = 1..n /\ Len(b.pays) = n /\ Len(b.sparses) = n
      /\ Live(b) \subseteq 1..n
  <2>1. Live(b) \subseteq Slot(b)
    BY DEF Live
  <2> QED
    BY <1>1, <1>4, <2>1, SizesAre
<1>6. /\ u.ids \in Seq(Id) /\ Len(u.ids) = s /\ Slot(u) = 1..s
      /\ u.ids[s] = i /\ \A t \in 1..n : u.ids[t] = b.ids[t]
  <2>1. PICK q : q = b.ids /\ q \in Seq(Id) /\ u.ids = Append(q, i) /\ Len(q) = n
    BY <1>2, <1>4 DEF Typed, IsGrown
  <2>2. /\ Append(q, i) \in Seq(Id) /\ Len(Append(q, i)) = s
        /\ Append(q, i)[s] = i /\ \A t \in 1..n : Append(q, i)[t] = q[t]
    BY <1>5, <2>1, AppendIs
  <2> QED
    BY <2>1, <2>2 DEF Slot
<1>7. /\ u.pays \in Seq(Pays) /\ Len(u.pays) = s
      /\ u.pays[s] = p.pay /\ \A t \in 1..n : u.pays[t] = b.pays[t]
  <2>1. PICK q, w : q = b.pays /\ q \in Seq(Pays) /\ u.pays = Append(q, w) /\ Len(q) = n
                    /\ w = p.pay /\ w \in Pays
    BY <1>2, <1>3, <1>5 DEF Typed, IsGrown
  <2>2. /\ Append(q, w) \in Seq(Pays) /\ Len(Append(q, w)) = s
        /\ Append(q, w)[s] = w /\ \A t \in 1..n : Append(q, w)[t] = q[t]
    BY <1>5, <2>1, AppendIs
  <2> QED
    BY <2>1, <2>2
<1>8. /\ u.sparses \in Seq(Nat) /\ Len(u.sparses) = s
      /\ u.sparses[s] = p.sparse /\ \A t \in 1..n : u.sparses[t] = b.sparses[t]
  <2>1. PICK q, w : q = b.sparses /\ q \in Seq(Nat) /\ u.sparses = Append(q, w) /\ Len(q) = n
                    /\ w = p.sparse /\ w \in Nat
    BY <1>2, <1>3, <1>5 DEF Typed, IsGrown
  <2>2. /\ Append(q, w) \in Seq(Nat) /\ Len(Append(q, w)) = s
        /\ Append(q, w)[s] = w /\ \A t \in 1..n : Append(q, w)[t] = q[t]
    BY <1>5, <2>1, AppendIs
  <2> QED
    BY <2>1, <2>2
<1>9. /\ u.base \in Seq(Vecs) /\ u.overlay \in Seq(Vecs)
      /\ Len(u.base) + Len(u.overlay) = s
      /\ VectorAt(u, s) = p.vec /\ \A t \in 1..n : VectorAt(u, t) = VectorAt(b, t)
  <2>1. PICK q, o, w : /\ q = b.base /\ q \in Seq(Vecs) /\ o = b.overlay /\ o \in Seq(Vecs)
                       /\ w = p.vec /\ w \in Vecs /\ n = Len(q) + Len(o)
                       /\ u.base = q /\ u.overlay = Append(o, w)
    BY <1>1, <1>2, <1>3, <1>4 DEF Typed, IsGrown, Sized
  <2>2. /\ \A t \in 1..n : ~(t <= Len(q)) => Append(o, w)[t - Len(q)] = o[t - Len(q)]
        /\ ~(s <= Len(q)) /\ Append(o, w)[s - Len(q)] = w
        /\ Len(q) + Len(Append(o, w)) = s /\ Append(o, w) \in Seq(Vecs)
    <3>1. q \in Seq(Vecs) /\ o \in Seq(Vecs) /\ w \in Vecs /\ n = Len(q) + Len(o) /\ s = n + 1
      BY <1>5, <2>1
    <3>2. Append(o, w) \in Seq(Vecs)
      BY ONLY <3>1, AppendIs
    <3>3. /\ \A t \in 1..n : ~(t <= Len(q)) => Append(o, w)[t - Len(q)] = o[t - Len(q)]
          /\ ~(n + 1 <= Len(q)) /\ Append(o, w)[n + 1 - Len(q)] = w
          /\ Len(q) + Len(Append(o, w)) = n + 1
      BY ONLY <3>1, VectorsAfter
    <3> QED
      BY <3>1, <3>2, <3>3
  <2>3. \A t : VectorAt(u, t) = IF t <= Len(q) THEN q[t] ELSE Append(o, w)[t - Len(q)]
    BY <2>1 DEF VectorAt
  <2>4. \A t : VectorAt(b, t) = IF t <= Len(q) THEN q[t] ELSE o[t - Len(q)]
    BY <2>1 DEF VectorAt
  <2>5. VectorAt(u, s) = w
    BY <2>2, <2>3
  <2>6. ASSUME NEW t \in 1..n PROVE VectorAt(u, t) = VectorAt(b, t)
    <3>1. CASE t <= Len(q)
      BY <2>3, <2>4, <3>1
    <3>2. CASE ~(t <= Len(q))
      BY <2>2, <2>3, <2>4, <3>2
    <3> QED
      BY <3>1, <3>2
  <2> QED
    BY <2>1, <2>2, <2>5, <2>6
<1>10. PointAt(u, s) = p /\ \A t \in 1..n : PointAt(u, t) = PointAt(b, t)
  BY <1>3, <1>7, <1>8, <1>9 DEF PointAt
<1>11. /\ DOMAIN u.slotOf = DOMAIN b.slotOf \cup {i} /\ u.slotOf[i] = s
       /\ \A j \in DOMAIN b.slotOf : j # i /\ u.slotOf[j] = b.slotOf[j]
                                    /\ b.slotOf[j] \in 1..n /\ b.ids[b.slotOf[j]] = j
       /\ u.slotOf \in UNION {[S -> Nat] : S \in SUBSET Id}
  <2>1. PICK f, T : f = b.slotOf /\ T \in SUBSET Id /\ f \in [T -> Nat]
    BY <1>2 DEF Typed
  <2>2. u.slotOf = Put(f, i, s)
    BY <2>1 DEF IsGrown
  <2>3. Put(f, i, s) = [x \in T \cup {i} |-> IF x = i THEN s ELSE f[x]]
    BY <2>1 DEF Put
  <2>4. DOMAIN f = T /\ T \cup {i} \in SUBSET Id /\ s \in Nat
    BY <1>5, <2>1
  <2>5. Put(f, i, s) \in [T \cup {i} -> Nat]
    BY ONLY <2>1, <2>3, <2>4
  <2>6. Put(f, i, s) \in UNION {[S -> Nat] : S \in SUBSET Id}
    BY ONLY <2>4, <2>5
  <2>7. DOMAIN Put(f, i, s) = T \cup {i} /\ Put(f, i, s)[i] = s
        /\ \A j \in T : j # i => Put(f, i, s)[j] = f[j]
    BY ONLY <2>3
  <2>8. \A j \in T : j # i /\ f[j] \in 1..n /\ b.ids[f[j]] = j
    BY <1>1, <1>5, <2>1, <2>4 DEF Mapped
  <2> QED
    BY <2>1, <2>2, <2>4, <2>6, <2>7, <2>8
<1>12. Grew(u, b, i, p)
  BY <1>10, <1>11 DEF Grew, IsGrown
<1>13. Live(u) = Live(b) \cup {s}
  <2>1. ASSUME NEW t \in 1..n
        PROVE  IsLive(u, t) <=> IsLive(b, t)
    <3>1. u.ids[t] = b.ids[t] /\ t # s
      BY <1>5, <1>6
    <3>2. b.ids[t] = i => ~IsLive(u, t) /\ ~IsLive(b, t)
      BY <1>11, <3>1 DEF IsLive
    <3>3. b.ids[t] # i => (IsLive(u, t) <=> IsLive(b, t))
      BY <1>11, <3>1 DEF IsLive
    <3> QED
      BY <3>2, <3>3
  <2>2. IsLive(u, s)
    BY <1>6, <1>11 DEF IsLive
  <2>3. 1..s = 1..n \cup {s}
    BY <1>5
  <2> QED
    BY <1>5, <1>6, <2>1, <2>2, <2>3 DEF Live
<1>14. u \in Data
  <2>1. u.graph \in SUBSET (Nat \X Vecs)
    BY <1>2, <1>3, <1>5 DEF Typed, IsGrown
  <2>2. PICK X, w : X = b.indexes /\ X \in Indexes /\ w = u.pays[s] /\ w \in Pays
    BY <1>2, <1>3, <1>7 DEF Typed
  <2>3. u.indexes = InsertPayload(X, s, w)
    BY <2>2 DEF IsGrown
  <2>4. u.indexes \in Indexes
    BY <1>5, <2>2, <2>3, IndexIs
  <2> QED
    BY <1>2, <1>6, <1>7, <1>8, <1>9, <1>11, <2>1, <2>4, DataIs DEF Typed, IsGrown
<1>15. Sized(u)
  BY <1>6, <1>7, <1>8, <1>9 DEF Sized
<1>16. Mapped(u)
  <2> SUFFICES ASSUME NEW j \in DOMAIN u.slotOf
               PROVE  /\ u.slotOf[j] \in Slot(u) /\ u.ids[u.slotOf[j]] = j
                      /\ \A t \in Slot(u) : u.ids[t] = j => t <= u.slotOf[j]
                      /\ PointAt(u, u.slotOf[j]) \in Point
    BY DEF Mapped
  <2>1. CASE j = i
    BY <1>5, <1>6, <1>10, <1>11, <2>1
  <2>2. CASE j # i
    <3>1. j \in DOMAIN b.slotOf /\ u.slotOf[j] = b.slotOf[j] /\ b.slotOf[j] \in 1..n
      BY <1>11, <2>2
    <3>2. PointAt(b, b.slotOf[j]) \in Point /\ \A t \in 1..n : b.ids[t] = j => t <= b.slotOf[j]
      BY <1>1, <1>5, <3>1 DEF Mapped
    <3>3. \A t \in 1..s : u.ids[t] = j => t \in 1..n /\ b.ids[t] = j
      BY <1>5, <1>6, <2>2
    <3>4. u.ids[u.slotOf[j]] = j /\ u.slotOf[j] \in 1..s
      BY <1>5, <1>6, <1>11, <3>1
    <3> QED
      BY <1>6, <1>10, <3>1, <3>2, <3>3, <3>4
  <2> QED
    BY <2>1, <2>2
<1>17. Entombed(u)
  <2>1. u.dead = 1..n \ Live(b)
    BY <1>1, <1>5 DEF Entombed, IsGrown
  <2>2. 1..s = 1..n \cup {s} /\ s \notin 1..n
    BY <1>5
  <2> QED
    BY <1>6, <1>13, <2>1, <2>2 DEF Entombed
<1>18. Graphed(u)
  <2> SUFFICES ASSUME u.index
               PROVE  /\ \A m \in u.graph : m[1] \in Slot(u) /\ m = <<m[1], VectorAt(u, m[1])>>
                      /\ \A t \in Live(u) : <<t, VectorAt(u, t)>> \in u.graph
    BY DEF Graphed
  <2>1. b.index /\ u.graph = b.graph \cup {<<s, p.vec>>}
    BY DEF IsGrown
  <2>2. ASSUME NEW m \in b.graph
        PROVE  m[1] \in Slot(u) /\ m = <<m[1], VectorAt(u, m[1])>>
    <3>1. m[1] \in 1..n /\ m = <<m[1], VectorAt(b, m[1])>>
      BY <1>1, <1>5, <2>1 DEF Graphed
    <3>2. 1..n \subseteq 1..s
      BY <1>5
    <3> QED
      BY <1>6, <1>9, <3>1, <3>2
  <2>3. <<s, p.vec>> = <<s, VectorAt(u, s)>> /\ s \in Slot(u)
    BY <1>5, <1>6, <1>9
  <2>4. \A t \in Live(b) : <<t, VectorAt(u, t)>> \in b.graph
    BY <1>1, <1>5, <1>9, <2>1 DEF Graphed
  <2> QED
    BY <1>13, <2>1, <2>2, <2>3, <2>4
<1>19. PostedOf(u, Live(u))
  <2> SUFFICES ASSUME NEW k \in DOMAIN u.indexes, NEW q
               PROVE  q \in u.indexes[k].posts <=>
                         \E t \in Live(u) : q \in PostsOf(u.indexes[k], k, t, u.pays[t])
    BY DEF PostedOf
  <2>1. PICK X : X = b.indexes /\ X \in Indexes /\ u.indexes = InsertPayload(X, s, u.pays[s])
    BY <1>2 DEF IsGrown, Typed
  <2>2. k \in DOMAIN X /\ IsJoined(u.indexes[k], X[k], PostsOf(X[k], k, s, u.pays[s]))
    BY <2>1, IndexIs
  <2>3. \A t, pay : PostsOf(u.indexes[k], k, t, pay) = PostsOf(X[k], k, t, pay)
    BY <2>2, PostsSame DEF IsJoined
  <2>4. q \in X[k].posts <=> \E t \in Live(b) : q \in PostsOf(X[k], k, t, b.pays[t])
    BY <1>1, <2>1, <2>2 DEF PostedOf
  <2>5. \A t \in Live(b) : u.pays[t] = b.pays[t]
    BY <1>5, <1>7
  <2>6. q \in u.indexes[k].posts <=> q \in X[k].posts \/ q \in PostsOf(X[k], k, s, u.pays[s])
    BY <2>2 DEF IsJoined
  <2> QED
    BY <1>13, <2>3, <2>4, <2>5, <2>6
<1> QED
  BY <1>12, <1>14, <1>15, <1>16, <1>17, <1>18, <1>19 DEF Sound

(* apply_upsert.                                                            *)
LEMMA UpsertSound ==
    ASSUME NEW d, Sound(d), NEW i \in Id, NEW p \in Point
    PROVE  Sound(ApplyUpsert(d, <<i, p>>)) /\ Grew(ApplyUpsert(d, <<i, p>>), d, i, p)
<1> DEFINE b == Tombstone(d, i)
           u == ApplyUpsert(d, <<i, p>>)
<1>1. Sound(b) /\ Died(b, d, i)
  BY TombstoneSound
<1>2. Fields(b)
  BY <1>1, DataIs DEF Sound
<1>3. Fields(u) /\ IsGrown(u, b, i, p, Len(b.ids) + 1)
  BY <1>2, UpsertIs
<1> HIDE DEF b, u
<1>4. i \notin DOMAIN b.slotOf
  BY <1>1 DEF Died
<1>5. Sound(u) /\ Grew(u, b, i, p)
  BY <1>1, <1>3, <1>4, GrownSound
<1>6. Grew(u, d, i, p)
  BY <1>1, <1>5 DEF Grew, Died
<1> QED
  BY <1>5, <1>6 DEF u

-----------------------------------------------------------------------------
(* The folds over a batch, a set of ids and the live slots.                 *)

(* A has the slots after each point of the batch w.                         *)
IsUpserting(A, d, w) ==
    /\ A \in [0..Len(w) -> Sounds]
    /\ A[0] = d
    /\ \A k \in 1..Len(w) : A[k] = ApplyUpsert(A[k - 1], w[k])

(* apply_prepared goes through them.                                        *)
LEMMA UpsertTrace ==
    ASSUME NEW d, Sound(d),
           NEW n \in Nat, NEW w \in [1..n -> (Id \X Point)]
    PROVE  Len(w) = n /\ \E A : IsUpserting(A, d, w) /\ A[n] = ApplyPrepared(d, w)
<1> DEFINE N == Len(w)
           X == Sounds
           G == [k \in 1..N |-> [x \in X |-> ApplyUpsert(x, w[k])]]
           A == [m \in 0..N |-> Iterate(G, d, m)]
<1>0. N \in Nat /\ N = n /\ DOMAIN w = 1..N /\ \A k \in 1..N : w[k] \in (Id \X Point)
  OBVIOUS
<1>a. d \in X
  BY DEF Sounds, Sound
<1>1. Steps(G, X, N)
  <2> SUFFICES ASSUME NEW k \in 1..N PROVE G[k] \in [X -> X]
    BY DEF Steps
  <2>1. ASSUME NEW x \in X PROVE ApplyUpsert(x, w[k]) \in X
    <3>1. PICK i \in Id, p \in Point : w[k] = <<i, p>>
      BY <1>0
    <3> QED
      BY <2>1, <3>1, UpsertSound DEF Sounds, Sound
  <2> HIDE DEF X
  <2> QED
    BY <2>1
<1> HIDE DEF X
<1>2. /\ Iterate(G, d, 0) = d
      /\ \A m \in 0..N : Iterate(G, d, m) \in X
      /\ \A m \in 1..N : Iterate(G, d, m) = G[m][Iterate(G, d, m - 1)]
  <2> HIDE DEF G, N
  <2>1. Iterates(G, X, d, N)
    BY <1>0, <1>a, <1>1, IterateSteps
  <2> QED
    BY ONLY <2>1 DEF Iterates
<1>3. IsUpserting(A, d, w)
  <2>1. A \in [0..N -> X] /\ A[0] = d
    BY <1>0, <1>2
  <2>2. ASSUME NEW k \in 1..N
        PROVE  A[k] = ApplyUpsert(A[k - 1], w[k])
    <3>1. k \in 0..N /\ k - 1 \in 0..N
      BY <1>0
    <3>2. A[k] = G[k][A[k - 1]] /\ A[k - 1] \in X
      BY <3>1, <1>2
    <3> QED
      BY <3>2
  <2> QED
    BY <2>1, <2>2 DEF IsUpserting, X
<1>4. ApplyPrepared(d, w) = Iterate(G, d, N)
  <2> DEFINE IsSol(g) == g = [S \in SUBSET (1..N) |-> IF S = {} THEN d
                                ELSE ApplyUpsert(g[S \ {Max(S)}], w[Max(S)])]
             g0 == CHOOSE g : IsSol(g)
  <2>1. \E g : IsSol(g)
    <3>1. PICK f \in [SUBSET (1..N) -> X] : IsFold(f, G, d, N)
      <4> HIDE DEF G, N
      <4> QED
        BY <1>0, <1>a, <1>1, FoldExists
    <3>2. ASSUME NEW S \in SUBSET (1..N), S # {}
          PROVE  f[S] = ApplyUpsert(f[S \ {Max(S)}], w[Max(S)])
      <4>1. Max(S) \in S
        <5> HIDE DEF N
        <5> QED
          BY <3>2, <1>0, MaxExists
      <4>2. f[S \ {Max(S)}] \in X
        BY <3>1
      <4>3. f[S] = G[Max(S)][f[S \ {Max(S)}]]
        BY <3>1, <3>2 DEF IsFold
      <4> QED
        BY <4>1, <4>2, <4>3
    <3>3. f[{}] = d
      BY <3>1 DEF IsFold
    <3>4. IsSol(f)
      BY <3>1, <3>2, <3>3
    <3> QED
      BY <3>4
  <2>2. IsSol(g0)
    BY <2>1
  <2>3. ApplyPrepared(d, w) = g0[1..N]
    BY <1>0 DEF ApplyPrepared, FoldLeft, MapThenFoldSet
  <2>4. g0[{}] = d
    <3> HIDE DEF g0
    <3> QED
      BY <2>2
  <2>5. ASSUME NEW k \in 1..N, g0[1..(k - 1)] \in X
        PROVE  g0[1..k] = G[k][g0[1..(k - 1)]]
    <3>1. Max(1..k) = k /\ (1..k) \ {k} = 1..(k - 1)
      BY MaxOfInterval
    <3>2. 1..k \in SUBSET (1..N) /\ 1..k # {}
      <4>1. N \in Nat /\ k \in 1..N
        BY <1>0
      <4>2. k \in 1..k
        BY <4>1
      <4> HIDE DEF N
      <4> QED
        BY ONLY <4>1, <4>2
    <3>3. g0[1..k] = ApplyUpsert(g0[1..(k - 1)], w[k])
      <4> HIDE DEF g0
      <4> QED
        BY <2>2, <3>1, <3>2
    <3> QED
      BY <3>3, <2>5
  <2>6. g0[1..N] = Iterate(G, d, N)
    <3> HIDE DEF g0, G, N
    <3> QED
      BY <1>0, <1>a, <1>1, <2>4, <2>5, FoldIsIterate
  <2> QED
    BY <2>3, <2>6
<1>5. A[n] = ApplyPrepared(d, w)
  BY <1>0, <1>4
<1> QED
  BY <1>0, <1>3, <1>5

(* A has the slots after each deletion of w.                                *)
IsDeleting(A, d, w) ==
    /\ A \in [0..Len(w) -> Sounds]
    /\ A[0] = d
    /\ \A k \in 1..Len(w) : A[k] = Tombstone(A[k - 1], w[k])

(* delete_batch goes through them.                                          *)
LEMMA DeleteTrace ==
    ASSUME NEW d, Sound(d),
           NEW n \in Nat, NEW w \in [1..n -> Id]
    PROVE  Len(w) = n /\ \E A : IsDeleting(A, d, w) /\ A[n] = FoldLeft(Tombstone, d, w)
<1> DEFINE N == Len(w)
           X == Sounds
           G == [k \in 1..N |-> [x \in X |-> Tombstone(x, w[k])]]
           A == [m \in 0..N |-> Iterate(G, d, m)]
<1>0. N \in Nat /\ N = n /\ DOMAIN w = 1..N /\ \A k \in 1..N : w[k] \in Id
  OBVIOUS
<1>a. d \in X
  BY DEF Sounds, Sound
<1>1. Steps(G, X, N)
  <2> SUFFICES ASSUME NEW k \in 1..N PROVE G[k] \in [X -> X]
    BY DEF Steps
  <2>1. ASSUME NEW x \in X PROVE Tombstone(x, w[k]) \in X
    BY <1>0, <2>1, TombstoneSound DEF Sounds, Sound
  <2> HIDE DEF X
  <2> QED
    BY <2>1
<1> HIDE DEF X
<1>2. /\ Iterate(G, d, 0) = d
      /\ \A m \in 0..N : Iterate(G, d, m) \in X
      /\ \A m \in 1..N : Iterate(G, d, m) = G[m][Iterate(G, d, m - 1)]
  <2> HIDE DEF G, N
  <2>1. Iterates(G, X, d, N)
    BY <1>0, <1>a, <1>1, IterateSteps
  <2> QED
    BY ONLY <2>1 DEF Iterates
<1>3. IsDeleting(A, d, w)
  <2>1. A \in [0..N -> X] /\ A[0] = d
    BY <1>0, <1>2
  <2>2. ASSUME NEW k \in 1..N
        PROVE  A[k] = Tombstone(A[k - 1], w[k])
    <3>1. k \in 0..N /\ k - 1 \in 0..N
      BY <1>0
    <3>2. A[k] = G[k][A[k - 1]] /\ A[k - 1] \in X
      BY <3>1, <1>2
    <3> QED
      BY <3>2
  <2> QED
    BY <2>1, <2>2 DEF IsDeleting, X
<1>4. FoldLeft(Tombstone, d, w) = Iterate(G, d, N)
  <2> DEFINE IsSol(g) == g = [S \in SUBSET (1..N) |-> IF S = {} THEN d
                                ELSE Tombstone(g[S \ {Max(S)}], w[Max(S)])]
             g0 == CHOOSE g : IsSol(g)
  <2>1. \E g : IsSol(g)
    <3>1. PICK f \in [SUBSET (1..N) -> X] : IsFold(f, G, d, N)
      <4> HIDE DEF G, N
      <4> QED
        BY <1>0, <1>a, <1>1, FoldExists
    <3>2. ASSUME NEW S \in SUBSET (1..N), S # {}
          PROVE  f[S] = Tombstone(f[S \ {Max(S)}], w[Max(S)])
      <4>1. Max(S) \in S
        <5> HIDE DEF N
        <5> QED
          BY <3>2, <1>0, MaxExists
      <4>2. f[S \ {Max(S)}] \in X
        BY <3>1
      <4>3. f[S] = G[Max(S)][f[S \ {Max(S)}]]
        BY <3>1, <3>2 DEF IsFold
      <4> QED
        BY <4>1, <4>2, <4>3
    <3>3. f[{}] = d
      BY <3>1 DEF IsFold
    <3>4. IsSol(f)
      BY <3>1, <3>2, <3>3
    <3> QED
      BY <3>4
  <2>2. IsSol(g0)
    BY <2>1
  <2>3. FoldLeft(Tombstone, d, w) = g0[1..N]
    BY <1>0 DEF FoldLeft, MapThenFoldSet
  <2>4. g0[{}] = d
    <3> HIDE DEF g0
    <3> QED
      BY <2>2
  <2>5. ASSUME NEW k \in 1..N, g0[1..(k - 1)] \in X
        PROVE  g0[1..k] = G[k][g0[1..(k - 1)]]
    <3>1. Max(1..k) = k /\ (1..k) \ {k} = 1..(k - 1)
      BY MaxOfInterval
    <3>2. 1..k \in SUBSET (1..N) /\ 1..k # {}
      <4>1. N \in Nat /\ k \in 1..N
        BY <1>0
      <4>2. k \in 1..k
        BY <4>1
      <4> HIDE DEF N
      <4> QED
        BY ONLY <4>1, <4>2
    <3>3. g0[1..k] = Tombstone(g0[1..(k - 1)], w[k])
      <4> HIDE DEF g0
      <4> QED
        BY <2>2, <3>1, <3>2
    <3> QED
      BY <3>3, <2>5
  <2>6. g0[1..N] = Iterate(G, d, N)
    <3> HIDE DEF g0, G, N
    <3> QED
      BY <1>0, <1>a, <1>1, <2>4, <2>5, FoldIsIterate
  <2> QED
    BY <2>3, <2>6
<1>5. A[n] = FoldLeft(Tombstone, d, w)
  BY <1>0, <1>4
<1> QED
  BY <1>0, <1>3, <1>5

(* d with any indexes.                                                      *)
Reposted(d) == {x \in Data : \A f \in FieldNames \ {"indexes"} : x[f] = d[f]}

(* Posting a slot changes the indexes only.                                 *)
LEMMA PostedStays ==
    ASSUME NEW d, Sized(d), NEW x \in Reposted(d), NEW s \in Slot(d)
    PROVE  /\ Posted(x, s) \in Reposted(d)
           /\ Posted(x, s).indexes = InsertPayload(x.indexes, s, d.pays[s])
<1> DEFINE y == Posted(x, s)
<1>1. Fields(x) /\ Typed(x) /\ x \in Data /\ x.pays = d.pays /\ x.ids = d.ids
  BY DataIs DEF Reposted, FieldNames
<1>2. /\ Fields(y) /\ y.indexes = InsertPayload(x.indexes, s, d.pays[s])
      /\ \A f \in FieldNames \ {"indexes"} : y[f] = x[f]
  BY <1>1 DEF Posted, Fields, FieldNames
<1> HIDE DEF y
<1>3. y.indexes \in Indexes
  <2>1. PICK X, q, n : X = x.indexes /\ X \in Indexes /\ q = d.pays /\ q \in Seq(Pays) /\ n = Len(d.ids)
    BY <1>1 DEF Typed
  <2>2. Len(q) = n /\ s \in 1..n
    BY <2>1 DEF Sized, Slot
  <2>3. s \in Nat /\ q[s] \in Pays
    BY ONLY <2>1, <2>2
  <2>4. InsertPayload(X, s, q[s]) \in Indexes
    BY <2>1, <2>3, IndexIs
  <2> QED
    BY <1>2, <2>1, <2>4
<1>4. Typed(y)
  BY <1>1, <1>2, <1>3 DEF Typed, FieldNames
<1>5. y \in Data
  BY <1>2, <1>4, DataIs
<1> QED
  BY <1>2, <1>5 DEF Reposted, y

(* A has the indexes after each slot of w.                                  *)
IsPosting(A, d, w) ==
    /\ A \in [0..Len(w) -> Reposted(d)]
    /\ A[0] = d
    /\ \A k \in 1..Len(w) : A[k] = Posted(A[k - 1], w[k])

(* Declaring an index and installing a base go through them.                *)
LEMMA PostTrace ==
    ASSUME NEW d \in Data, Sized(d),
           NEW n \in Nat, NEW w \in [1..n -> Slot(d)]
    PROVE  Len(w) = n /\ \E A : IsPosting(A, d, w) /\ A[n] = FoldLeft(Posted, d, w)
<1> DEFINE N == Len(w)
           X == Reposted(d)
           G == [k \in 1..N |-> [x \in X |-> Posted(x, w[k])]]
           A == [m \in 0..N |-> Iterate(G, d, m)]
<1>0. N \in Nat /\ N = n /\ DOMAIN w = 1..N /\ \A k \in 1..N : w[k] \in Slot(d)
  OBVIOUS
<1>a. d \in X
  BY DEF Reposted
<1>1. Steps(G, X, N)
  <2> SUFFICES ASSUME NEW k \in 1..N PROVE G[k] \in [X -> X]
    BY DEF Steps
  <2>1. ASSUME NEW x \in X PROVE Posted(x, w[k]) \in X
    BY <1>0, <2>1, PostedStays
  <2> HIDE DEF X
  <2> QED
    BY <2>1
<1> HIDE DEF X
<1>2. /\ Iterate(G, d, 0) = d
      /\ \A m \in 0..N : Iterate(G, d, m) \in X
      /\ \A m \in 1..N : Iterate(G, d, m) = G[m][Iterate(G, d, m - 1)]
  <2> HIDE DEF G, N
  <2>1. Iterates(G, X, d, N)
    BY <1>0, <1>a, <1>1, IterateSteps
  <2> QED
    BY ONLY <2>1 DEF Iterates
<1>3. IsPosting(A, d, w)
  <2>1. A \in [0..N -> X] /\ A[0] = d
    BY <1>0, <1>2
  <2>2. ASSUME NEW k \in 1..N
        PROVE  A[k] = Posted(A[k - 1], w[k])
    <3>1. k \in 0..N /\ k - 1 \in 0..N
      BY <1>0
    <3>2. A[k] = G[k][A[k - 1]] /\ A[k - 1] \in X
      BY <3>1, <1>2
    <3> QED
      BY <3>2
  <2> QED
    BY <2>1, <2>2 DEF IsPosting, X
<1>4. FoldLeft(Posted, d, w) = Iterate(G, d, N)
  <2> DEFINE IsSol(g) == g = [S \in SUBSET (1..N) |-> IF S = {} THEN d
                                ELSE Posted(g[S \ {Max(S)}], w[Max(S)])]
             g0 == CHOOSE g : IsSol(g)
  <2>1. \E g : IsSol(g)
    <3>1. PICK f \in [SUBSET (1..N) -> X] : IsFold(f, G, d, N)
      <4> HIDE DEF G, N
      <4> QED
        BY <1>0, <1>a, <1>1, FoldExists
    <3>2. ASSUME NEW S \in SUBSET (1..N), S # {}
          PROVE  f[S] = Posted(f[S \ {Max(S)}], w[Max(S)])
      <4>1. Max(S) \in S
        <5> HIDE DEF N
        <5> QED
          BY <3>2, <1>0, MaxExists
      <4>2. f[S \ {Max(S)}] \in X
        BY <3>1
      <4>3. f[S] = G[Max(S)][f[S \ {Max(S)}]]
        BY <3>1, <3>2 DEF IsFold
      <4> QED
        BY <4>1, <4>2, <4>3
    <3>3. f[{}] = d
      BY <3>1 DEF IsFold
    <3>4. IsSol(f)
      BY <3>1, <3>2, <3>3
    <3> QED
      BY <3>4
  <2>2. IsSol(g0)
    BY <2>1
  <2>3. FoldLeft(Posted, d, w) = g0[1..N]
    BY <1>0 DEF FoldLeft, MapThenFoldSet
  <2>4. g0[{}] = d
    <3> HIDE DEF g0
    <3> QED
      BY <2>2
  <2>5. ASSUME NEW k \in 1..N, g0[1..(k - 1)] \in X
        PROVE  g0[1..k] = G[k][g0[1..(k - 1)]]
    <3>1. Max(1..k) = k /\ (1..k) \ {k} = 1..(k - 1)
      BY MaxOfInterval
    <3>2. 1..k \in SUBSET (1..N) /\ 1..k # {}
      <4>1. N \in Nat /\ k \in 1..N
        BY <1>0
      <4>2. k \in 1..k
        BY <4>1
      <4> HIDE DEF N
      <4> QED
        BY ONLY <4>1, <4>2
    <3>3. g0[1..k] = Posted(g0[1..(k - 1)], w[k])
      <4> HIDE DEF g0
      <4> QED
        BY <2>2, <3>1, <3>2
    <3> QED
      BY <3>3, <2>5
  <2>6. g0[1..N] = Iterate(G, d, N)
    <3> HIDE DEF g0, G, N
    <3> QED
      BY <1>0, <1>a, <1>1, <2>4, <2>5, FoldIsIterate
  <2> QED
    BY <2>3, <2>6
<1>5. A[n] = FoldLeft(Posted, d, w)
  BY <1>0, <1>4
<1> QED
  BY <1>0, <1>3, <1>5

-----------------------------------------------------------------------------
(* What the folds do.                                                       *)

(* The ids of the first m points of a batch.                                *)
WrittenIn(w, m) == {w[k][1] : k \in 1..m}

(* The first m points of w went to fresh slots, the last of an id counts,   *)
(* and the others are where they were.                                      *)
Wrote(r, d, w, m) ==
    /\ Sound(r) /\ Len(r.ids) = Len(d.ids) + m
    /\ \A t \in Slot(d) : r.ids[t] = d.ids[t]
    /\ \A k \in 1..m : r.ids[Len(d.ids) + k] = w[k][1]
    /\ DOMAIN r.slotOf = DOMAIN d.slotOf \cup WrittenIn(w, m)
    /\ \A i \in DOMAIN d.slotOf \ WrittenIn(w, m) :
          r.slotOf[i] = d.slotOf[i] /\ PointAt(r, r.slotOf[i]) = PointAt(d, d.slotOf[i])
    /\ \A k \in 1..m : (\A j \in 1..m : w[j][1] = w[k][1] => j <= k) =>
          r.slotOf[w[k][1]] = Len(d.ids) + k /\ PointAt(r, r.slotOf[w[k][1]]) = w[k][2]

(* One point more.                                                          *)
LEMMA WroteNext ==
    ASSUME NEW d, Sound(d), NEW w, NEW m \in Nat, NEW r, Wrote(r, d, w, m),
           NEW i \in Id, NEW p \in Point, w[m + 1] = <<i, p>>,
           NEW u, Sound(u), Grew(u, r, i, p)
    PROVE  Wrote(u, d, w, m + 1)
<1>1. PICK L, q : L = Len(d.ids) /\ L \in Nat /\ Slot(d) = 1..L /\ q = r.ids /\ q \in Seq(Id)
                  /\ Len(q) = L + m /\ u.ids = Append(q, i)
  <2>1. Len(d.ids) \in Nat /\ Slot(d) = 1..Len(d.ids)
    BY SizesAre DEF Sound
  <2>2. r.ids \in Seq(Id) /\ Len(r.ids) = Len(d.ids) + m /\ u.ids = Append(r.ids, i)
    BY DataIs DEF Wrote, Sound, Typed, Grew
  <2> QED
    BY <2>1, <2>2
<1>2. 1..(m + 1) = 1..m \cup {m + 1}
  OBVIOUS
<1>3. WrittenIn(w, m + 1) = WrittenIn(w, m) \cup {i}
  BY <1>2 DEF WrittenIn
<1>4. /\ Len(u.ids) = L + (m + 1) /\ \A t \in 1..L : u.ids[t] = q[t]
      /\ \A k \in 1..m : u.ids[L + k] = q[L + k]
      /\ u.ids[L + (m + 1)] = i
  <2>1. /\ Len(Append(q, i)) = L + (m + 1) /\ \A t \in 1..L : Append(q, i)[t] = q[t]
        /\ \A k \in 1..m : Append(q, i)[L + k] = q[L + k]
        /\ Append(q, i)[L + (m + 1)] = i
    <3>1. L \in Nat /\ q \in Seq(Id) /\ Len(q) = L + m /\ m \in Nat /\ i \in Id
      BY <1>1
    <3>2. /\ Len(Append(q, i)) = Len(q) + 1 /\ Append(q, i)[Len(q) + 1] = i
          /\ \A t \in 1..Len(q) : Append(q, i)[t] = q[t]
      BY ONLY <3>1, AppendIs
    <3>3. Len(q) + 1 = L + (m + 1)
      BY ONLY <3>1
    <3>4. \A t \in 1..L : t \in 1..Len(q)
      BY ONLY <3>1
    <3>5. \A k \in 1..m : L + k \in 1..Len(q)
      BY ONLY <3>1
    <3> QED
      BY ONLY <3>2, <3>3, <3>4, <3>5
  <2> QED
    BY <1>1, <2>1
<1>5. \A t \in Slot(d) : u.ids[t] = d.ids[t]
  BY <1>1, <1>4 DEF Wrote
<1>6. \A k \in 1..(m + 1) : u.ids[L + k] = w[k][1]
  <2>1. \A k \in 1..m : u.ids[L + k] = w[k][1]
    BY <1>1, <1>4 DEF Wrote
  <2> QED
    BY <1>2, <1>4, <2>1
<1>7. DOMAIN u.slotOf = DOMAIN d.slotOf \cup WrittenIn(w, m + 1)
  BY <1>3 DEF Wrote, Grew
<1>8. \A j \in DOMAIN d.slotOf \ WrittenIn(w, m + 1) :
         u.slotOf[j] = d.slotOf[j] /\ PointAt(u, u.slotOf[j]) = PointAt(d, d.slotOf[j])
  <2> SUFFICES ASSUME NEW j \in DOMAIN d.slotOf \ WrittenIn(w, m + 1)
               PROVE  u.slotOf[j] = d.slotOf[j] /\ PointAt(u, u.slotOf[j]) = PointAt(d, d.slotOf[j])
    OBVIOUS
  <2>1. j \in DOMAIN r.slotOf \ {i} /\ r.slotOf[j] = d.slotOf[j]
        /\ PointAt(r, r.slotOf[j]) = PointAt(d, d.slotOf[j])
    BY <1>3 DEF Wrote
  <2> QED
    BY <2>1 DEF Grew
<1>9. ASSUME NEW k \in 1..(m + 1), \A j \in 1..(m + 1) : w[j][1] = w[k][1] => j <= k
      PROVE  u.slotOf[w[k][1]] = L + k /\ PointAt(u, u.slotOf[w[k][1]]) = w[k][2]
  <2>1. CASE k = m + 1
    <3>1. u.slotOf[i] = L + (m + 1) /\ PointAt(u, u.slotOf[i]) = p
      <4>1. u.slotOf[i] = Len(q) + 1 /\ PointAt(u, u.slotOf[i]) = p
        BY <1>1 DEF Grew
      <4>2. Len(q) + 1 = L + (m + 1)
        <5>1. Len(q) = L + m /\ L \in Nat /\ m \in Nat
          BY <1>1
        <5> QED
          BY ONLY <5>1
      <4> QED
        BY <4>1, <4>2
    <3> QED
      BY <2>1, <3>1
  <2>2. CASE k # m + 1
    <3>1. k \in 1..m /\ ~(m + 1 <= k) /\ m + 1 \in 1..(m + 1)
      BY <2>2
    <3>2. w[k][1] # i
      BY <3>1, <1>9
    <3>3. r.slotOf[w[k][1]] = L + k /\ PointAt(r, r.slotOf[w[k][1]]) = w[k][2]
          /\ w[k][1] \in DOMAIN r.slotOf
      BY <1>1, <1>2, <1>9, <3>1 DEF Wrote, WrittenIn
    <3> QED
      BY <3>2, <3>3 DEF Grew
  <2> QED
    BY <2>1, <2>2
<1> QED
  BY <1>1, <1>4, <1>5, <1>6, <1>7, <1>8, <1>9 DEF Wrote

(* apply_prepared.                                                          *)
LEMMA PreparedIs ==
    ASSUME NEW d, Sound(d), NEW n \in Nat, NEW w \in [1..n -> Id \X Point]
    PROVE  Wrote(ApplyPrepared(d, w), d, w, n)
<1>1. PICK A : IsUpserting(A, d, w) /\ A[n] = ApplyPrepared(d, w) /\ Len(w) = n
  BY UpsertTrace
<1> DEFINE S == {m \in 0..n : Wrote(A[m], d, w, m)}
<1>2. 0 \in S
  <2>1. A[0] = d /\ 1..0 = {} /\ WrittenIn(w, 0) = {}
    BY <1>1 DEF IsUpserting, WrittenIn
  <2>2. Len(d.ids) \in Nat
    BY SizesAre DEF Sound
  <2>3. Wrote(d, d, w, 0)
    BY <2>1, <2>2 DEF Wrote
  <2> QED
    BY <2>1, <2>3
<1>3. \A m \in 0..n : m < n /\ m \in S => m + 1 \in S
  <2> SUFFICES ASSUME NEW m \in 0..n, m < n, Wrote(A[m], d, w, m)
               PROVE  m + 1 \in 0..n /\ Wrote(A[m + 1], d, w, m + 1)
    OBVIOUS
  <2>1. m + 1 \in 1..n /\ m + 1 \in 0..n /\ (m + 1) - 1 = m /\ m \in Nat
    OBVIOUS
  <2>2. A[m + 1] = ApplyUpsert(A[m], w[m + 1])
    BY <1>1, <2>1 DEF IsUpserting
  <2>3. PICK i \in Id, p \in Point : w[m + 1] = <<i, p>>
    BY <2>1
  <2>4. Sound(A[m + 1]) /\ Grew(A[m + 1], A[m], i, p)
    BY <2>2, <2>3, UpsertSound DEF Wrote
  <2> QED
    BY <2>1, <2>3, <2>4, WroteNext
<1>4. n \in S
  <2> HIDE DEF S
  <2>1. \A m \in 0..n : m \in S
    BY <1>2, <1>3, BoundedInduction
  <2> QED
    BY <2>1
<1> QED
  BY <1>1, <1>4

(* The points of the ids in S are gone, and the others are where they were. *)
Cut(r, d, S) ==
    /\ Sound(r) /\ r.ids = d.ids /\ DOMAIN r.slotOf = DOMAIN d.slotOf \ S
    /\ \A j \in DOMAIN r.slotOf :
          r.slotOf[j] = d.slotOf[j] /\ PointAt(r, r.slotOf[j]) = PointAt(d, d.slotOf[j])

(* The deletions of delete_batch.                                           *)
LEMMA DeletedIs ==
    ASSUME NEW d, Sound(d), NEW n \in Nat, NEW w \in [1..n -> Id]
    PROVE  Cut(FoldLeft(Tombstone, d, w), d, {w[k] : k \in 1..n})
<1>1. PICK A : IsDeleting(A, d, w) /\ A[n] = FoldLeft(Tombstone, d, w) /\ Len(w) = n
  BY DeleteTrace
<1> DEFINE T(m) == {w[k] : k \in 1..m}
           S == {m \in 0..n : Cut(A[m], d, T(m))}
<1>2. 0 \in S
  <2>1. A[0] = d /\ T(0) = {}
    BY <1>1 DEF IsDeleting
  <2>2. Cut(d, d, {})
    BY DEF Cut
  <2>3. Cut(A[0], d, T(0))
    <3> HIDE DEF T
    <3> QED
      BY <2>1, <2>2
  <2> HIDE DEF T
  <2> QED
    BY <2>3
<1>3. \A m \in 0..n : m < n /\ m \in S => m + 1 \in S
  <2> SUFFICES ASSUME NEW m \in 0..n, m < n, Cut(A[m], d, T(m))
               PROVE  m + 1 \in 0..n /\ Cut(A[m + 1], d, T(m + 1))
    OBVIOUS
  <2>1. m + 1 \in 1..n /\ m + 1 \in 0..n /\ (m + 1) - 1 = m /\ m \in Nat
    OBVIOUS
  <2>2. A[m + 1] = Tombstone(A[m], w[m + 1])
    BY <1>1, <2>1 DEF IsDeleting
  <2>3. Sound(A[m + 1]) /\ Died(A[m + 1], A[m], w[m + 1])
    BY <2>1, <2>2, TombstoneSound DEF Cut
  <2>4. T(m + 1) = T(m) \cup {w[m + 1]}
    <3>1. 1..(m + 1) = 1..m \cup {m + 1}
      BY <2>1
    <3> QED
      BY <3>1
  <2> HIDE DEF T
  <2>5. Cut(A[m + 1], d, T(m + 1))
    BY <2>3, <2>4 DEF Cut, Died
  <2> QED
    BY <2>1, <2>5
<1>4. n \in S
  <2> HIDE DEF S
  <2>1. \A m \in 0..n : m \in S
    BY <1>2, <1>3, BoundedInduction
  <2> QED
    BY <2>1
<1> QED
  BY <1>1, <1>4

(* The first m slots of w have been posted.                                 *)
PostedUpTo(x, d, w, m) ==
    /\ x \in Reposted(d) /\ DOMAIN x.indexes = DOMAIN d.indexes
    /\ \A k \in DOMAIN d.indexes :
          /\ x.indexes[k].kind = d.indexes[k].kind
          /\ \A q : q \in x.indexes[k].posts <=>
                       \/ q \in d.indexes[k].posts
                       \/ \E j \in 1..m : q \in PostsOf(d.indexes[k], k, w[j], d.pays[w[j]])

(* The posting of a sequence of slots.                                      *)
LEMMA PostedIs ==
    ASSUME NEW d \in Data, Sized(d), NEW n \in Nat, NEW w \in [1..n -> Slot(d)]
    PROVE  PostedUpTo(FoldLeft(Posted, d, w), d, w, n)
<1>1. PICK A : IsPosting(A, d, w) /\ A[n] = FoldLeft(Posted, d, w) /\ Len(w) = n
  BY PostTrace
<1> DEFINE S == {m \in 0..n : PostedUpTo(A[m], d, w, m)}
<1>2. 0 \in S
  <2>1. A[0] = d /\ 1..0 = {}
    BY <1>1 DEF IsPosting
  <2>2. PostedUpTo(d, d, w, 0)
    BY <2>1 DEF PostedUpTo, Reposted
  <2> QED
    BY <2>1, <2>2
<1>3. \A m \in 0..n : m < n /\ m \in S => m + 1 \in S
  <2> SUFFICES ASSUME NEW m \in 0..n, m < n, PostedUpTo(A[m], d, w, m)
               PROVE  m + 1 \in 0..n /\ PostedUpTo(A[m + 1], d, w, m + 1)
    OBVIOUS
  <2>1. m + 1 \in 1..n /\ m + 1 \in 0..n /\ (m + 1) - 1 = m /\ m \in Nat
    OBVIOUS
  <2>2. A[m + 1] = Posted(A[m], w[m + 1])
    BY <1>1, <2>1 DEF IsPosting
  <2>3. PICK x, s, y : /\ x = A[m] /\ s = w[m + 1] /\ y = Posted(x, s) /\ s \in Slot(d)
                       /\ PostedUpTo(x, d, w, m)
    BY <2>1
  <2>4. y \in Reposted(d) /\ y.indexes = InsertPayload(x.indexes, s, d.pays[s])
    BY <2>3, PostedStays DEF PostedUpTo
  <2>5. x.indexes \in Indexes
    BY <2>3, DataIs DEF PostedUpTo, Reposted, Typed
  <2>6. DOMAIN y.indexes = DOMAIN d.indexes
    BY <2>3, <2>4, <2>5, IndexIs DEF PostedUpTo
  <2>7. ASSUME NEW k \in DOMAIN d.indexes
        PROVE  /\ y.indexes[k].kind = d.indexes[k].kind
               /\ \A q : q \in y.indexes[k].posts <=>
                       \/ q \in d.indexes[k].posts
                       \/ \E j \in 1..(m + 1) : q \in PostsOf(d.indexes[k], k, w[j], d.pays[w[j]])
    <3>1. k \in DOMAIN x.indexes /\ x.indexes[k].kind = d.indexes[k].kind
      BY <2>3 DEF PostedUpTo
    <3>2. IsJoined(y.indexes[k], x.indexes[k], PostsOf(x.indexes[k], k, s, d.pays[s]))
      BY <2>4, <2>5, <3>1, IndexIs
    <3>3. PostsOf(x.indexes[k], k, s, d.pays[s]) = PostsOf(d.indexes[k], k, s, d.pays[s])
      BY <3>1, PostsSame
    <3>4. 1..(m + 1) = 1..m \cup {m + 1}
      BY <2>1
    <3>5. \A q : q \in x.indexes[k].posts <=>
                       \/ q \in d.indexes[k].posts
                       \/ \E j \in 1..m : q \in PostsOf(d.indexes[k], k, w[j], d.pays[w[j]])
      BY <2>3 DEF PostedUpTo
    <3> QED
      BY <2>3, <3>1, <3>2, <3>3, <3>4, <3>5 DEF IsJoined
  <2>8. PostedUpTo(y, d, w, m + 1)
    BY <2>4, <2>6, <2>7 DEF PostedUpTo
  <2> QED
    BY <2>1, <2>2, <2>3, <2>8
<1>4. n \in S
  <2> HIDE DEF S
  <2>1. \A m \in 0..n : m \in S
    BY <1>2, <1>3, BoundedInduction
  <2> QED
    BY <2>1
<1> QED
  BY <1>1, <1>4

-----------------------------------------------------------------------------
(* The live points in the order of their slots.                             *)

(* The elements of a finite set, in some order.                             *)
LEMMA ElementsOf ==
    ASSUME NEW S, IsFiniteSet(S)
    PROVE  /\ Cardinality(S) \in Nat /\ SetToSeq(S) \in [1..Cardinality(S) -> S]
           /\ {SetToSeq(S)[k] : k \in 1..Cardinality(S)} = S
<1> DEFINE n == Cardinality(S)
           f == SetToSeq(S)
<1>1. n \in Nat /\ ExistsBijection(1..n, S)
  BY FS_CardinalityType
<1>2. \E g \in [1..n -> S] : IsInjective(g)
  BY <1>1 DEF ExistsBijection, Bijection, Injection, IsInjective
<1>3. f \in [1..n -> S] /\ IsInjective(f)
  BY <1>2 DEF SetToSeq
<1> HIDE DEF f, n
<1>4. f \in Injection(1..n, S)
  BY <1>3 DEF Injection, IsInjective
<1>5. IsFiniteSet(1..n) /\ Cardinality(1..n) = n
  BY <1>1, FS_Interval
<1>6. f \in Surjection(1..n, S)
  BY <1>4, <1>5, FS_Injection DEF n
<1>7. {f[k] : k \in 1..n} = S
  BY <1>3, <1>6 DEF Surjection
<1> QED
  BY <1>1, <1>3, <1>7 DEF f, n

(* The numbers of q grow.                                                   *)
Rising(q) == \A i, j \in DOMAIN q : i < j => q[i] < q[j]

(* Numbers up to N can be put in order.                                     *)
LEMMA OrderExists ==
    ASSUME NEW N \in Nat, NEW S \in SUBSET (1..N)
    PROVE  \E c \in Nat : \E q \in [1..c -> S] :
              Rising(q) /\ \A s \in S : \E k \in 1..c : q[k] = s
<1> DEFINE U(n) == {s \in S : s <= n}
           Ordered(q, c, n) == Rising(q) /\ \A s \in U(n) : \E k \in 1..c : q[k] = s
           T == {n \in 0..N : \E c \in Nat : \E q \in [1..c -> U(n)] : Ordered(q, c, n)}
<1>0. \A s \in S : s \in Nat /\ s # 0 /\ s <= N
  OBVIOUS
<1>1. 0 \in T
  <2> DEFINE q0 == [k \in 1..0 |-> 0]
  <2>1. 1..0 = {} /\ U(0) = {}
    <3>1. \A s \in S : ~(s <= 0)
      BY <1>0
    <3>2. 1..0 = {}
      OBVIOUS
    <3> QED
      BY <3>1, <3>2
  <2>2. q0 \in [1..0 -> U(0)] /\ Ordered(q0, 0, 0)
    BY <2>1 DEF Rising
  <2> HIDE DEF q0, Ordered, U
  <2>3. \E q \in [1..0 -> U(0)] : Ordered(q, 0, 0)
    BY <2>2
  <2>4. \E c \in Nat : \E q \in [1..c -> U(0)] : Ordered(q, c, 0)
    BY ONLY <2>3
  <2>5. 0 \in 0..N
    OBVIOUS
  <2> QED
    BY <2>4, <2>5
<1>2. \A n \in 0..N : n < N /\ n \in T => n + 1 \in T
  <2> SUFFICES ASSUME NEW n \in 0..N, n < N,
                      NEW c \in Nat, NEW q \in [1..c -> U(n)], Ordered(q, c, n)
               PROVE  n + 1 \in 0..N /\ \E e \in Nat : \E r \in [1..e -> U(n + 1)] : Ordered(r, e, n + 1)
    OBVIOUS
  <2>1. n + 1 \in 0..N /\ n \in Nat /\ c \in Nat
    OBVIOUS
  <2>2. CASE n + 1 \notin S
    <3>1. U(n + 1) = U(n)
      <4>1. \A s \in S : s <= n + 1 <=> s <= n
        BY <1>0, <2>1, <2>2
      <4> QED
        BY <4>1
    <3>2. Ordered(q, c, n + 1)
      BY <3>1
    <3> HIDE DEF Ordered, U
    <3> QED
      BY <2>1, <3>1, <3>2
  <2>3. CASE n + 1 \in S
    <3> DEFINE r == [k \in 1..(c + 1) |-> IF k = c + 1 THEN n + 1 ELSE q[k]]
    <3>1. U(n + 1) = U(n) \cup {n + 1}
      <4>1. \A s \in S : s <= n + 1 <=> s <= n \/ s = n + 1
        BY <1>0, <2>1
      <4>2. n + 1 <= n + 1
        BY <2>1
      <4> QED
        BY <2>3, <4>1, <4>2
    <3>2. 1..(c + 1) = 1..c \cup {c + 1} /\ c + 1 \notin 1..c /\ c + 1 \in Nat
      BY <2>1
    <3>3. r \in [1..(c + 1) -> U(n + 1)]
      BY <3>1, <3>2
    <3>4. Rising(r)
      <4> SUFFICES ASSUME NEW i \in 1..(c + 1), NEW j \in 1..(c + 1), i < j
                   PROVE  r[i] < r[j]
        BY DEF Rising
      <4>1. i \in 1..c /\ r[i] = q[i] /\ q[i] \in Nat /\ q[i] <= n
        <5>1. i \in 1..c /\ i # c + 1
          BY <2>1
        <5>2. q[i] \in U(n)
          BY <5>1
        <5> QED
          BY <1>0, <5>1, <5>2
      <4>2. CASE j = c + 1
        BY <2>1, <4>1, <4>2
      <4>3. CASE j # c + 1
        <5>1. j \in 1..c /\ r[j] = q[j] /\ DOMAIN q = 1..c
          BY <2>1, <4>3
        <5> QED
          BY <4>1, <5>1 DEF Rising
      <4> QED
        BY <4>2, <4>3
    <3>5. \A s \in U(n + 1) : \E k \in 1..(c + 1) : r[k] = s
      <4> SUFFICES ASSUME NEW s \in U(n + 1) PROVE \E k \in 1..(c + 1) : r[k] = s
        OBVIOUS
      <4>1. CASE s = n + 1
        BY <3>2, <4>1
      <4>2. CASE s # n + 1
        <5>1. PICK k \in 1..c : q[k] = s
          BY <3>1, <4>2
        <5> QED
          BY <3>2, <5>1
      <4> QED
        BY <4>1, <4>2
    <3>6. Ordered(r, c + 1, n + 1)
      BY <3>4, <3>5
    <3> HIDE DEF Ordered, U, r
    <3> QED
      BY <2>1, <3>2, <3>3, <3>6
  <2> QED
    BY <2>2, <2>3
<1>3. N \in T
  <2> HIDE DEF T
  <2>1. \A n \in 0..N : n \in T
    BY <1>1, <1>2, BoundedInduction
  <2> QED
    BY <2>1
<1>4. U(N) = S
  BY <1>0
<1> QED
  BY <1>3, <1>4

(* InOrder puts the numbers of a finite set in order.                       *)
LEMMA InOrderIs ==
    ASSUME NEW N \in Nat, NEW S \in SUBSET (1..N)
    PROVE  /\ Cardinality(S) \in Nat /\ InOrder(S) \in [1..Cardinality(S) -> S]
           /\ Rising(InOrder(S))
           /\ \A s \in S : \E k \in 1..Cardinality(S) : InOrder(S)[k] = s
<1>1. PICK c \in Nat : \E q \in [1..c -> S] : Rising(q) /\ \A s \in S : \E k \in 1..c : q[k] = s
  BY OrderExists
<1>2. \A e \in Nat : \A q \in [1..e -> S] : Rising(q) => q \in Injection(1..e, S)
  <2> SUFFICES ASSUME NEW e \in Nat, NEW q \in [1..e -> S], Rising(q),
                      NEW i \in 1..e, NEW j \in 1..e, i # j
               PROVE  q[i] # q[j]
    BY DEF Injection, IsInjective
  <2>1. q[i] \in 1..N /\ q[j] \in 1..N /\ DOMAIN q = 1..e
    OBVIOUS
  <2>2. i < j => q[i] < q[j]
    BY <2>1 DEF Rising
  <2>3. j < i => q[j] < q[i]
    BY <2>1 DEF Rising
  <2> QED
    BY <2>1, <2>2, <2>3
<1>3. Cardinality(S) = c /\ IsFiniteSet(S)
  <2>1. PICK q \in [1..c -> S] : Rising(q) /\ \A s \in S : \E k \in 1..c : q[k] = s
    BY <1>1
  <2>2. q \in Injection(1..c, S) /\ q \in Surjection(1..c, S)
    BY <1>2, <2>1 DEF Surjection
  <2>3. ExistsBijection(1..c, S)
    BY <2>2 DEF ExistsBijection, Bijection
  <2>4. IsFiniteSet(1..c) /\ Cardinality(1..c) = c
    BY FS_Interval
  <2> QED
    BY <2>3, <2>4, FS_Bijection
<1> DEFINE f == InOrder(S)
<1>4. f \in [1..c -> S] /\ Rising(f)
  <2>1. \E q \in [1..c -> S] : Rising(q)
    BY <1>1
  <2> QED
    BY <1>3, <2>1 DEF InOrder, Rising
<1> HIDE DEF f
<1>5. f \in Surjection(1..c, S)
  <2>1. f \in Injection(1..c, S)
    BY <1>2, <1>4
  <2>2. IsFiniteSet(1..c) /\ Cardinality(1..c) = c
    BY FS_Interval
  <2> QED
    BY <1>3, <2>1, <2>2, FS_Injection
<1>6. \A s \in S : \E k \in 1..c : f[k] = s
  BY <1>5 DEF Surjection
<1> QED
  BY <1>3, <1>4, <1>6 DEF f

(* The batch w has the live points of d, in the order of their slots.       *)
Enumerates(w, n, d) ==
    /\ n \in Nat /\ w \in [1..n -> Id \X Point] /\ n = Cardinality(Live(d))
    /\ \A i \in DOMAIN d.slotOf : \E k \in 1..n : w[k][1] = i
    /\ \A k \in 1..n : w[k][1] \in DOMAIN d.slotOf /\ w[k][2] = PointAt(d, d.slotOf[w[k][1]])
    /\ \A j, k \in 1..n : j < k => d.slotOf[w[j][1]] < d.slotOf[w[k][1]]

(* live_points has them so.                                                 *)
LEMMA LivePointsAre ==
    ASSUME NEW d, Sound(d)
    PROVE  \E n : Enumerates(LivePoints(d), n, d)
<1> DEFINE S == Live(d)
           n == Cardinality(S)
           q == InOrder(S)
           w == LivePoints(d)
<1>1. Mapped(d) /\ d \in Data /\ Sized(d)
  BY DEF Sound
<1>2. PICK N \in Nat : S \in SUBSET (1..N) /\ Slot(d) = 1..N
  BY <1>1, SizesAre DEF Live
<1>3. n \in Nat /\ q \in [1..n -> S] /\ Rising(q) /\ \A s \in S : \E k \in 1..n : q[k] = s
  BY <1>2, InOrderIs
<1>4. w = [k \in DOMAIN q |-> <<d.ids[q[k]], PointAt(d, q[k])>>]
  BY DEF LivePoints
<1>5. \A s \in S : d.ids[s] \in DOMAIN d.slotOf /\ d.slotOf[d.ids[s]] = s
  BY <1>1, LiveIs
<1>6. \A i \in DOMAIN d.slotOf : d.slotOf[i] \in S /\ d.ids[d.slotOf[i]] = i /\ i \in Id
                                 /\ PointAt(d, d.slotOf[i]) \in Point
  BY <1>1, LiveIs, SizesAre DEF Mapped
<1> HIDE DEF S, n, q, w
<1>7. DOMAIN q = 1..n
  BY <1>3
<1>8. ASSUME NEW k \in 1..n
      PROVE  /\ w[k] = <<d.ids[q[k]], PointAt(d, q[k])>>
             /\ w[k][1] \in DOMAIN d.slotOf /\ d.slotOf[w[k][1]] = q[k]
             /\ w[k][2] = PointAt(d, d.slotOf[w[k][1]])
             /\ w[k] \in Id \X Point
  <2>1. w[k] = <<d.ids[q[k]], PointAt(d, q[k])>> /\ q[k] \in S
    BY <1>3, <1>4, <1>7
  <2>2. d.ids[q[k]] \in DOMAIN d.slotOf /\ d.slotOf[d.ids[q[k]]] = q[k]
    BY <1>5, <2>1
  <2> QED
    BY <1>6, <2>1, <2>2
<1>9. w \in [1..n -> Id \X Point]
  BY <1>4, <1>7, <1>8
<1>10. \A i \in DOMAIN d.slotOf : \E k \in 1..n : w[k][1] = i
  <2> SUFFICES ASSUME NEW i \in DOMAIN d.slotOf PROVE \E k \in 1..n : w[k][1] = i
    OBVIOUS
  <2>1. PICK k \in 1..n : q[k] = d.slotOf[i]
    BY <1>3, <1>6
  <2> QED
    BY <1>6, <1>8, <2>1
<1>11. ASSUME NEW j \in 1..n, NEW k \in 1..n, j < k
       PROVE  d.slotOf[w[j][1]] < d.slotOf[w[k][1]]
  BY <1>3, <1>7, <1>8, <1>11 DEF Rising
<1>12. Enumerates(w, n, d)
  BY <1>3, <1>8, <1>9, <1>10, <1>11 DEF Enumerates, n, S
<1> QED
  BY <1>12 DEF w

-----------------------------------------------------------------------------
(* The indexes are filled, the graph is built again.                        *)

(* Sound, the postings aside.                                               *)
Firm(d) == d \in Data /\ Sized(d) /\ Mapped(d) /\ Entombed(d) /\ Graphed(d)

(* Slots with the same points in the same order.                            *)
Renumbered(e, d) ==
    /\ Sound(e) /\ DOMAIN e.slotOf = DOMAIN d.slotOf
    /\ \A i \in DOMAIN d.slotOf : PointAt(e, e.slotOf[i]) = PointAt(d, d.slotOf[i])
    /\ \A i, j \in DOMAIN d.slotOf : e.slotOf[i] <= e.slotOf[j] <=> d.slotOf[i] <= d.slotOf[j]

(* Slots in the same places: what leaves all but the postings and the graph.*)
Untouched(e, d) ==
    /\ Sound(e) /\ e.ids = d.ids /\ e.slotOf = d.slotOf
    /\ \A i \in DOMAIN d.slotOf : PointAt(e, e.slotOf[i]) = PointAt(d, d.slotOf[i])

(* The slots do not depend on the indexes.                                  *)
LEMMA RepostedIs ==
    ASSUME NEW d, NEW x \in Reposted(d)
    PROVE  /\ x.ids = d.ids /\ x.slotOf = d.slotOf /\ x.dead = d.dead /\ x.pays = d.pays
           /\ x.sparses = d.sparses /\ x.base = d.base /\ x.overlay = d.overlay
           /\ x.index = d.index /\ x.graph = d.graph /\ x \in Data
           /\ \A s : VectorAt(x, s) = VectorAt(d, s) /\ PointAt(x, s) = PointAt(d, s)
           /\ Slot(x) = Slot(d) /\ Live(x) = Live(d)
<1>1. /\ x.ids = d.ids /\ x.slotOf = d.slotOf /\ x.dead = d.dead /\ x.pays = d.pays
      /\ x.sparses = d.sparses /\ x.base = d.base /\ x.overlay = d.overlay
      /\ x.index = d.index /\ x.graph = d.graph /\ x \in Data
  BY DEF Reposted, FieldNames
<1>2. \A s : VectorAt(x, s) = VectorAt(d, s)
  BY <1>1 DEF VectorAt
<1>3. \A s : PointAt(x, s) = PointAt(d, s)
  BY <1>1, <1>2 DEF PointAt
<1>4. Slot(x) = Slot(d)
  BY <1>1 DEF Slot
<1>5. Live(x) = Live(d)
  BY <1>1, <1>4 DEF Live, IsLive
<1> QED
  BY <1>1, <1>2, <1>3, <1>4, <1>5

(* Posting the live slots makes the postings exact.                         *)
LEMMA PostedSound ==
    ASSUME NEW d, Firm(d),
           \A k \in DOMAIN d.indexes : \A q \in d.indexes[k].posts :
              \E s \in Live(d) : q \in PostsOf(d.indexes[k], k, s, d.pays[s]),
           NEW n \in Nat, NEW w \in [1..n -> Live(d)],
           \A s \in Live(d) : \E k \in 1..n : w[k] = s
    PROVE  Untouched(FoldLeft(Posted, d, w), d)
<1> DEFINE x == FoldLeft(Posted, d, w)
<1>1. w \in [1..n -> Slot(d)]
  BY DEF Live
<1>2. PostedUpTo(x, d, w, n)
  BY <1>1, PostedIs DEF Firm
<1> HIDE DEF x
<1>3. x \in Reposted(d)
  BY <1>2 DEF PostedUpTo
<1>4. /\ x.ids = d.ids /\ x.slotOf = d.slotOf /\ x.dead = d.dead /\ x.pays = d.pays
      /\ x.sparses = d.sparses /\ x.base = d.base /\ x.overlay = d.overlay
      /\ x.index = d.index /\ x.graph = d.graph /\ x \in Data
      /\ \A s : VectorAt(x, s) = VectorAt(d, s) /\ PointAt(x, s) = PointAt(d, s)
      /\ Slot(x) = Slot(d) /\ Live(x) = Live(d)
  BY <1>3, RepostedIs
<1>5. Sized(x)
  BY <1>4 DEF Firm, Sized
<1>6. Mapped(x)
  BY <1>4 DEF Firm, Mapped
<1>7. Entombed(x) /\ Graphed(x)
  BY <1>4 DEF Firm, Entombed, Graphed
<1>8. PostedOf(x, Live(x))
  <2> SUFFICES ASSUME NEW k \in DOMAIN x.indexes, NEW q
               PROVE  q \in x.indexes[k].posts <=>
                         \E s \in Live(d) : q \in PostsOf(x.indexes[k], k, s, d.pays[s])
    BY <1>4 DEF PostedOf
  <2>1. /\ k \in DOMAIN d.indexes /\ x.indexes[k].kind = d.indexes[k].kind
        /\ q \in x.indexes[k].posts <=>
              \/ q \in d.indexes[k].posts
              \/ \E j \in 1..n : q \in PostsOf(d.indexes[k], k, w[j], d.pays[w[j]])
    BY <1>2 DEF PostedUpTo
  <2>2. \A s : PostsOf(x.indexes[k], k, s, d.pays[s]) = PostsOf(d.indexes[k], k, s, d.pays[s])
    BY <2>1, PostsSame
  <2>3. (\E j \in 1..n : q \in PostsOf(d.indexes[k], k, w[j], d.pays[w[j]])) <=>
           \E s \in Live(d) : q \in PostsOf(d.indexes[k], k, s, d.pays[s])
    OBVIOUS
  <2> QED
    BY <2>1, <2>2, <2>3
<1> QED
  BY <1>4, <1>5, <1>6, <1>7, <1>8 DEF Untouched, Sound, x

(* create_payload_index.                                                    *)
LEMMA DeclaredSound ==
    ASSUME NEW d, Sound(d), NEW z \in Indexable, z[1] \notin DOMAIN d.indexes
    PROVE  Untouched(Declared(d, z[1], z[2]), d)
<1> DEFINE key == z[1]
           kind == z[2]
           e == [d EXCEPT !.indexes = Put(@, key, EmptyIndex(kind))]
           S == Live(d)
           w == InOrder(S)
           n == Cardinality(S)
<1>1. Fields(d) /\ Typed(d) /\ Firm(d)
  BY DataIs DEF Sound, Firm
<1>2. /\ Fields(e) /\ e.indexes = Put(d.indexes, key, EmptyIndex(kind))
      /\ \A f \in FieldNames \ {"indexes"} : e[f] = d[f]
  BY <1>1 DEF Fields, FieldNames
<1>3. Declared(d, z[1], z[2]) = FoldLeft(Posted, e, w)
  BY DEF Declared
<1>4. PICK N \in Nat : S \in SUBSET (1..N)
  BY <1>1, SizesAre DEF Live, Firm
<1>5. n \in Nat /\ w \in [1..n -> S] /\ \A s \in S : \E k \in 1..n : w[k] = s
  BY <1>4, InOrderIs
<1>6. key \in Keys /\ kind \in Kinds /\ EmptyIndex(kind) = [kind |-> kind, posts |-> {}]
  BY SlotsAssumption DEF SlotsAssumption, Keys, Kinds, EmptyIndex
<1>7. key \notin DOMAIN d.indexes
  OBVIOUS
<1> HIDE DEF e, w, n, S, key, kind
<1>8. /\ e.indexes \in Indexes /\ DOMAIN e.indexes = DOMAIN d.indexes \cup {key}
      /\ \A k \in DOMAIN d.indexes : e.indexes[k] = d.indexes[k]
      /\ e.indexes[key].posts = {}
  <2>1. PICK X, K : X = d.indexes /\ K \in SUBSET Keys
                    /\ X \in [K -> [kind : Kinds, posts : SUBSET (Terms \X Nat)]]
    BY <1>1 DEF Typed, Indexes, Shapes
  <2>a. \A k \in K : IsDeclared(k, X[k].kind)
    BY <1>1, <2>1 DEF Typed, Indexes
  <2>2. EmptyIndex(kind) \in [kind : Kinds, posts : SUBSET (Terms \X Nat)]
    BY <1>6
  <2>3. PICK E : E = EmptyIndex(kind)
    OBVIOUS
  <2>4. E.posts = {}
    BY <1>6, <2>3
  <2>5. Put(X, key, E) = [x \in K \cup {key} |-> IF x = key THEN E ELSE X[x]]
    BY <2>1 DEF Put
  <2>6. Put(X, key, E) \in [K \cup {key} -> [kind : Kinds, posts : SUBSET (Terms \X Nat)]]
    BY <2>1, <2>2, <2>3, <2>5
  <2>7. K \cup {key} \in SUBSET Keys
    BY <1>6, <2>1
  <2>9. key \notin K
    BY <1>7, <2>1
  <2>8. Put(X, key, E) \in Indexes
    <3> DEFINE Y == Put(X, key, E)
    <3>1. Y \in Shapes /\ DOMAIN Y = K \cup {key}
      BY <2>5, <2>6, <2>7 DEF Shapes
    <3>2. \A k \in K : Y[k] = X[k]
      BY <2>5, <2>9
    <3>3. Y[key].kind = kind
      BY <1>6, <2>3, <2>5
    <3> HIDE DEF Y
    <3>4. IsDeclared(key, kind)
      BY DEF IsDeclared, key, kind
    <3>5. \A k \in DOMAIN Y : IsDeclared(k, Y[k].kind)
      BY <2>a, <3>1, <3>2, <3>3, <3>4
    <3> QED
      BY <3>1, <3>5 DEF Indexes, Y
  <2> QED
    BY <1>2, <2>1, <2>3, <2>4, <2>5, <2>8, <2>9
<1>9. e \in Data
  <2>1. Typed(e)
    BY <1>1, <1>2, <1>8 DEF Typed, FieldNames
  <2> QED
    BY <1>2, <2>1, DataIs
<1>10. e \in Reposted(d)
  BY <1>2, <1>9 DEF Reposted
<1>11. /\ e.ids = d.ids /\ e.slotOf = d.slotOf /\ e.dead = d.dead /\ e.pays = d.pays
       /\ e.sparses = d.sparses /\ e.base = d.base /\ e.overlay = d.overlay
       /\ e.index = d.index /\ e.graph = d.graph
       /\ \A s : VectorAt(e, s) = VectorAt(d, s) /\ PointAt(e, s) = PointAt(d, s)
       /\ Slot(e) = Slot(d) /\ Live(e) = S
  BY <1>10, RepostedIs DEF S
<1>12. Firm(e)
  <2>1. Sized(e) /\ Mapped(e)
    BY <1>1, <1>11 DEF Firm, Sized, Mapped
  <2>2. Entombed(e) /\ Graphed(e)
    BY <1>1, <1>11 DEF Firm, Entombed, Graphed, S
  <2> QED
    BY <1>9, <2>1, <2>2 DEF Firm
<1>13. ASSUME NEW k \in DOMAIN e.indexes, NEW q \in e.indexes[k].posts
       PROVE  \E s \in Live(e) : q \in PostsOf(e.indexes[k], k, s, e.pays[s])
  <2>1. k # key
    BY <1>8, <1>13
  <2>2. k \in DOMAIN d.indexes /\ e.indexes[k] = d.indexes[k]
    BY <1>8, <2>1
  <2>3. PostedOf(d, S)
    BY DEF Sound, S
  <2> QED
    BY <1>11, <2>2, <2>3 DEF PostedOf
<1>14. Untouched(FoldLeft(Posted, e, w), e)
  BY <1>5, <1>11, <1>12, <1>13, PostedSound
<1> QED
  BY <1>3, <1>11, <1>14 DEF Untouched

(* reindex.                                                                 *)
LEMMA ReindexedSound ==
    ASSUME NEW d, Sound(d)
    PROVE  Untouched(Reindexed(d), d)
<1> DEFINE e == Reindexed(d)
<1>1. Fields(d) /\ Typed(d)
  BY DataIs DEF Sound
<1>2. /\ Fields(e) /\ e.index = ~d.gated
      /\ e.graph = IF d.gated THEN {} ELSE {<<s, VectorAt(d, s)>> : s \in Live(d)}
      /\ \A f \in FieldNames \ {"index", "graph"} : e[f] = d[f]
  BY <1>1 DEF Fields, FieldNames, Reindexed
<1> HIDE DEF e
<1>3. /\ e.ids = d.ids /\ e.slotOf = d.slotOf /\ e.dead = d.dead /\ e.pays = d.pays
      /\ e.sparses = d.sparses /\ e.base = d.base /\ e.overlay = d.overlay
      /\ e.gated = d.gated /\ e.indexes = d.indexes
  BY <1>2 DEF FieldNames
<1>4. \A s : VectorAt(e, s) = VectorAt(d, s)
  BY <1>3 DEF VectorAt
<1>5. \A s : PointAt(e, s) = PointAt(d, s)
  BY <1>3, <1>4 DEF PointAt
<1>6. Slot(e) = Slot(d)
  BY <1>3 DEF Slot
<1>7. Live(e) = Live(d)
  BY <1>3, <1>6 DEF Live, IsLive
<1>8. e \in Data
  <2>1. \A s \in Live(d) : s \in Nat /\ VectorAt(d, s) \in Vecs
    BY SizesAre DEF Sound, Live
  <2>2. e.graph \in SUBSET (Nat \X Vecs)
    BY <1>2, <2>1
  <2>3. Typed(e)
    BY <1>1, <1>2, <1>3, <2>2 DEF Typed
  <2> QED
    BY <1>2, <2>3, DataIs
<1>9. Sized(e) /\ Mapped(e)
  BY <1>3, <1>5, <1>6 DEF Sound, Sized, Mapped
<1>10. Entombed(e) /\ PostedOf(e, Live(e))
  BY <1>3, <1>6, <1>7 DEF Sound, Entombed, PostedOf
<1>11. Graphed(e)
  <2> SUFFICES ASSUME ~d.gated
               PROVE  /\ \A n \in e.graph : n[1] \in Slot(e) /\ n = <<n[1], VectorAt(e, n[1])>>
                      /\ \A s \in Live(e) : <<s, VectorAt(e, s)>> \in e.graph
    BY <1>2 DEF Graphed
  <2>1. e.graph = {<<s, VectorAt(d, s)>> : s \in Live(d)} /\ Live(d) \subseteq Slot(d)
    BY <1>2 DEF Live
  <2> QED
    BY <1>4, <1>6, <1>7, <2>1
<1> QED
  BY <1>3, <1>5, <1>8, <1>9, <1>10, <1>11 DEF Untouched, Sound, e

-----------------------------------------------------------------------------
(* The live points again.                                                   *)

(* The indexes of a collection without points.                              *)
EmptyIndexes(ixs) == [k \in DOMAIN ixs |-> EmptyIndex(ixs[k].kind)]

(* They have their type, and no postings.                                   *)
LEMMA EmptyIndexesAre ==
    ASSUME NEW X \in Indexes
    PROVE  /\ EmptyIndexes(X) \in Indexes
           /\ \A k \in DOMAIN EmptyIndexes(X) : EmptyIndexes(X)[k].posts = {}
<1>1. PICK K \in SUBSET Keys : X \in [K -> [kind : Kinds, posts : SUBSET (Terms \X Nat)]]
  BY DEF Indexes, Shapes
<1>2. ASSUME NEW k \in K
      PROVE  /\ EmptyIndexes(X)[k].kind = X[k].kind
             /\ EmptyIndexes(X)[k] \in [kind : Kinds, posts : SUBSET (Terms \X Nat)]
             /\ EmptyIndexes(X)[k].posts = {}
  <2>1. EmptyIndexes(X)[k] = [kind |-> X[k].kind, posts |-> {}] /\ X[k].kind \in Kinds
    BY <1>1 DEF EmptyIndexes, EmptyIndex
  <2> QED
    BY <2>1
<1>3. DOMAIN EmptyIndexes(X) = K
  BY <1>1 DEF EmptyIndexes
<1>4. EmptyIndexes(X) \in [K -> [kind : Kinds, posts : SUBSET (Terms \X Nat)]]
  BY <1>1, <1>2 DEF EmptyIndexes
<1>5. \A k \in DOMAIN EmptyIndexes(X) : IsDeclared(k, EmptyIndexes(X)[k].kind)
  BY <1>1, <1>2, <1>3 DEF Indexes
<1> QED
  BY <1>2, <1>3, <1>4, <1>5 DEF Indexes, Shapes

(* The fields of a collection without points.                               *)
LEMMA NoPointsIs ==
    \A X : LET e == NoPoints(X) IN
       /\ Fields(e) /\ e.ids = <<>> /\ e.slotOf = <<>> /\ e.dead = {} /\ e.pays = <<>>
       /\ e.sparses = <<>> /\ e.base = <<>> /\ e.overlay = <<>> /\ e.index = TRUE
       /\ e.gated = FALSE /\ e.graph = {} /\ e.indexes = EmptyIndexes(X)
  BY DEF NoPoints, Fields, FieldNames, EmptyIndexes

(* It is sound.                                                             *)
LEMMA NoPointsSound ==
    ASSUME NEW X \in Indexes
    PROVE  /\ Sound(NoPoints(X)) /\ Slot(NoPoints(X)) = {}
           /\ DOMAIN NoPoints(X).slotOf = {} /\ Len(NoPoints(X).ids) = 0
<1> DEFINE e == NoPoints(X)
<1>1. /\ Fields(e) /\ e.ids = <<>> /\ e.slotOf = <<>> /\ e.dead = {} /\ e.pays = <<>>
      /\ e.sparses = <<>> /\ e.base = <<>> /\ e.overlay = <<>> /\ e.index = TRUE
      /\ e.gated = FALSE /\ e.graph = {} /\ e.indexes = EmptyIndexes(X)
  BY NoPointsIs
<1> HIDE DEF e
<1>2. e.indexes \in Indexes /\ \A k \in DOMAIN e.indexes : e.indexes[k].posts = {}
  BY <1>1, EmptyIndexesAre
<1>3. DOMAIN e.slotOf = {} /\ e.slotOf \in UNION {[S -> Nat] : S \in SUBSET Id}
  <2>1. DOMAIN <<>> = {} /\ <<>> \in [{} -> Nat] /\ {} \in SUBSET Id
    OBVIOUS
  <2>2. <<>> \in UNION {[S -> Nat] : S \in SUBSET Id}
    BY <2>1
  <2> QED
    BY <1>1, <2>1, <2>2
<1>4. /\ <<>> \in Seq(Id) /\ <<>> \in Seq(Pays) /\ <<>> \in Seq(Nat) /\ <<>> \in Seq(Vecs)
      /\ Len(<<>>) = 0
  OBVIOUS
<1>5. e \in Data
  <2>1. Typed(e)
    BY <1>1, <1>2, <1>3, <1>4 DEF Typed
  <2> QED
    BY <1>1, <2>1, DataIs
<1>6. Sized(e)
  BY <1>1, <1>4 DEF Sized
<1>7. Slot(e) = {} /\ Live(e) = {}
  BY <1>1, <1>4 DEF Slot, Live
<1>8. Mapped(e) /\ Entombed(e)
  BY <1>1, <1>3, <1>7 DEF Mapped, Entombed
<1>9. Graphed(e) /\ PostedOf(e, Live(e))
  BY <1>1, <1>2, <1>7 DEF Graphed, PostedOf
<1> QED
  BY <1>1, <1>3, <1>4, <1>5, <1>6, <1>7, <1>8, <1>9 DEF Sound, e

(* No two of the live points have one id.                                   *)
LEMMA EnumeratedOnce ==
    ASSUME NEW d, Sound(d), NEW w, NEW n, Enumerates(w, n, d)
    PROVE  \A j, k \in 1..n : w[j][1] = w[k][1] => j = k
<1> SUFFICES ASSUME NEW j \in 1..n, NEW k \in 1..n, w[j][1] = w[k][1], j # k
             PROVE  FALSE
  OBVIOUS
<1>0. n \in Nat
  BY DEF Enumerates
<1>1. j < k \/ k < j
  BY <1>0
<1>2. PICK s : s = d.slotOf[w[j][1]] /\ s = d.slotOf[w[k][1]] /\ s \in Nat
  <2>1. w[j][1] \in DOMAIN d.slotOf
    BY DEF Enumerates
  <2>2. Slot(d) \subseteq Nat
    BY SizesAre DEF Sound
  <2>3. d.slotOf[w[j][1]] \in Slot(d)
    BY <2>1 DEF Sound, Mapped
  <2> QED
    BY <2>2, <2>3
<1>3. (j < k => s < s) /\ (k < j => s < s)
  BY <1>2 DEF Enumerates
<1>4. ~(s < s)
  BY ONLY <1>2
<1> QED
  BY <1>1, <1>3, <1>4

(* Slots numbered as the live points are, with the points they have.        *)
LEMMA NumberedAgain ==
    ASSUME NEW d, Sound(d), NEW w, NEW n, Enumerates(w, n, d),
           NEW e, Sound(e), DOMAIN e.slotOf = DOMAIN d.slotOf,
           \A k \in 1..n : e.slotOf[w[k][1]] = k /\ PointAt(e, k) = w[k][2]
    PROVE  Renumbered(e, d)
<1>1. ASSUME NEW i \in DOMAIN d.slotOf
      PROVE  \E k \in 1..n : /\ w[k][1] = i /\ e.slotOf[i] = k
                             /\ PointAt(e, k) = PointAt(d, d.slotOf[i])
  <2>1. PICK k \in 1..n : w[k][1] = i
    BY DEF Enumerates
  <2>2. w[k][2] = PointAt(d, d.slotOf[w[k][1]])
    BY DEF Enumerates
  <2>3. e.slotOf[w[k][1]] = k /\ PointAt(e, k) = w[k][2]
    OBVIOUS
  <2> QED
    BY <2>1, <2>2, <2>3
<1>2. \A i \in DOMAIN d.slotOf : PointAt(e, e.slotOf[i]) = PointAt(d, d.slotOf[i])
  BY <1>1
<1>3. \A i \in DOMAIN d.slotOf : d.slotOf[i] \in Nat
  BY SizesAre DEF Sound, Mapped
<1>4. ASSUME NEW i \in DOMAIN d.slotOf, NEW j \in DOMAIN d.slotOf
      PROVE  e.slotOf[i] <= e.slotOf[j] <=> d.slotOf[i] <= d.slotOf[j]
  <2>1. PICK k \in 1..n : w[k][1] = i /\ e.slotOf[i] = k
    BY <1>1
  <2>2. PICK m \in 1..n : w[m][1] = j /\ e.slotOf[j] = m
    BY <1>1
  <2>3. (k < m => d.slotOf[i] < d.slotOf[j]) /\ (m < k => d.slotOf[j] < d.slotOf[i])
    BY <2>1, <2>2 DEF Enumerates
  <2>4. k = m => i = j
    BY <2>1, <2>2
  <2>5. PICK a, b : a = d.slotOf[i] /\ b = d.slotOf[j] /\ a \in Nat /\ b \in Nat
    BY <1>3
  <2>6. n \in Nat /\ k \in Nat /\ m \in Nat
    BY DEF Enumerates
  <2>7. (k < m => a < b) /\ (m < k => b < a) /\ (k = m => a = b)
    BY <2>3, <2>4, <2>5
  <2>8. k <= m <=> a <= b
    BY ONLY <2>5, <2>6, <2>7
  <2> QED
    BY <2>1, <2>2, <2>5, <2>8
<1> QED
  BY <1>2, <1>4 DEF Renumbered

(* compact.                                                                 *)
LEMMA CompactedSound ==
    ASSUME NEW d, Sound(d)
    PROVE  Renumbered(Compacted(d), d)
<1> DEFINE w == LivePoints(d)
           b == NoPoints(d.indexes)
           e == ApplyPrepared(b, w)
<1>1. PICK n : Enumerates(w, n, d)
  BY LivePointsAre
<1>2. d.indexes \in Indexes
  BY DataIs DEF Sound, Typed
<1>3. Sound(b) /\ Slot(b) = {} /\ DOMAIN b.slotOf = {} /\ Len(b.ids) = 0
  BY <1>2, NoPointsSound
<1>4. Compacted(d) = e
  BY DEF Compacted
<1> HIDE DEF w, b
<1>5. Wrote(e, b, w, n)
  BY <1>1, <1>3, PreparedIs DEF Enumerates
<1> HIDE DEF e
<1>6. DOMAIN e.slotOf = DOMAIN d.slotOf
  <2>1. DOMAIN e.slotOf = DOMAIN b.slotOf \cup WrittenIn(w, n)
    BY <1>5 DEF Wrote
  <2>2. /\ \A k \in 1..n : w[k][1] \in DOMAIN d.slotOf
        /\ \A i \in DOMAIN d.slotOf : \E k \in 1..n : w[k][1] = i
    BY <1>1 DEF Enumerates
  <2>3. WrittenIn(w, n) = DOMAIN d.slotOf
    BY ONLY <2>2 DEF WrittenIn
  <2> QED
    BY <1>3, <2>1, <2>3
<1>7. ASSUME NEW k \in 1..n
      PROVE  e.slotOf[w[k][1]] = k /\ PointAt(e, k) = w[k][2]
  <2>1. \A j \in 1..n : w[j][1] = w[k][1] => j <= k
    <3>1. \A j \in 1..n : w[j][1] = w[k][1] => j = k
      BY <1>1, EnumeratedOnce
    <3>2. k <= k
      BY <1>1 DEF Enumerates
    <3> QED
      BY <3>1, <3>2
  <2>2. e.slotOf[w[k][1]] = Len(b.ids) + k /\ PointAt(e, e.slotOf[w[k][1]]) = w[k][2]
    BY <1>5, <2>1 DEF Wrote
  <2>3. 0 + k = k
    BY <1>1 DEF Enumerates
  <2> QED
    BY <1>3, <2>2, <2>3
<1>8. Sound(e)
  BY <1>5 DEF Wrote
<1> QED
  BY <1>1, <1>4, <1>6, <1>7, <1>8, NumberedAgain

(* The base before its payloads are posted, for the live points w.          *)
IsLoaded(e, d, w, n, g) ==
    /\ Fields(e)
    /\ e.ids = [k \in 1..n |-> w[k][1]]
    /\ e.pays = [k \in 1..n |-> w[k][2].pay]
    /\ e.sparses = [k \in 1..n |-> w[k][2].sparse]
    /\ e.base = [k \in 1..n |-> w[k][2].vec] /\ e.overlay = <<>> /\ e.dead = {}
    /\ e.slotOf = [i \in DOMAIN d.slotOf |-> CHOOSE k \in 1..n : w[k][1] = i]
    /\ e.index = ~g /\ e.gated = g
    /\ e.graph = IF g THEN {} ELSE {<<k, w[k][2].vec>> : k \in 1..n}
    /\ e.indexes = EmptyIndexes(d.indexes)

(* Loading the live points gives these fields.                              *)
LEMMA LoadedIs ==
    ASSUME NEW d, NEW w, NEW g, NEW n, DOMAIN w = 1..n
    PROVE  IsLoaded(Loaded(d, w, g), d, w, n, g)
<1> DEFINE b == NoPoints(d.indexes)
           e == Loaded(d, w, g)
<1>1. Fields(b) /\ b.overlay = <<>> /\ b.dead = {} /\ b.indexes = EmptyIndexes(d.indexes)
  BY NoPointsIs
<1>2. PICK ids, pays, sparses, base, slotOf, graph :
         /\ ids = [k \in 1..n |-> w[k][1]]
         /\ pays = [k \in 1..n |-> w[k][2].pay]
         /\ sparses = [k \in 1..n |-> w[k][2].sparse]
         /\ base = [k \in 1..n |-> w[k][2].vec]
         /\ slotOf = [i \in DOMAIN d.slotOf |-> CHOOSE k \in 1..n : w[k][1] = i]
         /\ graph = IF g THEN {} ELSE {<<k, w[k][2].vec>> : k \in 1..n}
  OBVIOUS
<1>3. e = [b EXCEPT !.ids = ids, !.pays = pays, !.sparses = sparses, !.base = base,
                    !.slotOf = slotOf, !.index = ~g, !.gated = g, !.graph = graph]
  BY <1>2 DEF Loaded
<1> HIDE DEF b, e
<1>4. /\ Fields(e) /\ e.ids = ids /\ e.pays = pays /\ e.sparses = sparses /\ e.base = base
      /\ e.slotOf = slotOf /\ e.index = ~g /\ e.gated = g /\ e.graph = graph
      /\ e.overlay = b.overlay /\ e.dead = b.dead /\ e.indexes = b.indexes
  BY ONLY <1>1, <1>3 DEF Fields, FieldNames
<1> QED
  BY <1>1, <1>2, <1>4 DEF e, IsLoaded

(* It is sound but for the postings, which are empty.                       *)
LEMMA LoadedFirm ==
    ASSUME NEW d, Sound(d), NEW w, NEW n, Enumerates(w, n, d), NEW g \in BOOLEAN
    PROVE  LET e == Loaded(d, w, g) IN
           /\ Firm(e) /\ Live(e) = 1..n /\ DOMAIN e.slotOf = DOMAIN d.slotOf
           /\ \A k \in 1..n : e.slotOf[w[k][1]] = k /\ PointAt(e, k) = w[k][2]
           /\ \A k \in DOMAIN e.indexes : e.indexes[k].posts = {}
<1> DEFINE e == Loaded(d, w, g)
<1>1. n \in Nat /\ DOMAIN w = 1..n /\ \A k \in 1..n : w[k] \in Id \X Point
  BY DEF Enumerates
<1>2. /\ Fields(e)
      /\ e.ids = [k \in 1..n |-> w[k][1]]
      /\ e.pays = [k \in 1..n |-> w[k][2].pay]
      /\ e.sparses = [k \in 1..n |-> w[k][2].sparse]
      /\ e.base = [k \in 1..n |-> w[k][2].vec] /\ e.overlay = <<>> /\ e.dead = {}
      /\ e.slotOf = [i \in DOMAIN d.slotOf |-> CHOOSE k \in 1..n : w[k][1] = i]
      /\ e.index = ~g /\ e.gated = g
      /\ e.graph = IF g THEN {} ELSE {<<k, w[k][2].vec>> : k \in 1..n}
      /\ e.indexes = EmptyIndexes(d.indexes)
  <2>1. IsLoaded(e, d, w, n, g)
    BY <1>1, LoadedIs
  <2> HIDE DEF e
  <2> QED
    BY <2>1 DEF IsLoaded
<1> HIDE DEF e
<1>3. ASSUME NEW k \in 1..n
      PROVE  /\ w[k][1] \in Id /\ w[k][2] \in Point
             /\ w[k][2].vec \in Vecs /\ w[k][2].pay \in Pays /\ w[k][2].sparse \in Nat
             /\ w[k][2] = [vec |-> w[k][2].vec, pay |-> w[k][2].pay, sparse |-> w[k][2].sparse]
  <2>1. w[k][1] \in Id /\ w[k][2] \in Point
    BY <1>1
  <2>2. PICK p \in Point : p = w[k][2]
    BY <2>1
  <2>3. p.vec \in Vecs /\ p.pay \in Pays /\ p.sparse \in Nat
        /\ p = [vec |-> p.vec, pay |-> p.pay, sparse |-> p.sparse]
    BY SlotsAssumption DEF SlotsAssumption, Vecs, Pays
  <2> QED
    BY <2>1, <2>2, <2>3
<1>4. /\ e.ids \in Seq(Id) /\ e.pays \in Seq(Pays) /\ e.sparses \in Seq(Nat)
      /\ e.base \in Seq(Vecs) /\ e.overlay \in Seq(Vecs)
      /\ Len(e.ids) = n /\ Len(e.pays) = n /\ Len(e.sparses) = n
      /\ Len(e.base) = n /\ Len(e.overlay) = 0
  <2>1. \A S, f : f \in [1..n -> S] => f \in Seq(S) /\ Len(f) = n
    BY <1>1
  <2>2. e.ids \in [1..n -> Id] /\ e.pays \in [1..n -> Pays]
    BY <1>2, <1>3
  <2>3. e.sparses \in [1..n -> Nat] /\ e.base \in [1..n -> Vecs]
    BY <1>2, <1>3
  <2>4. <<>> \in Seq(Vecs) /\ Len(<<>>) = 0
    OBVIOUS
  <2> QED
    BY <1>2, <2>1, <2>2, <2>3, <2>4
<1>5. ASSUME NEW k \in 1..n
      PROVE  PointAt(e, k) = w[k][2] /\ VectorAt(e, k) = w[k][2].vec
  <2>1. k <= n
    BY <1>1
  <2>2. VectorAt(e, k) = w[k][2].vec
    BY <1>2, <1>4, <2>1 DEF VectorAt
  <2>3. e.pays[k] = w[k][2].pay /\ e.sparses[k] = w[k][2].sparse
    BY <1>2
  <2> QED
    BY <1>3, <2>2, <2>3 DEF PointAt
<1>6. ASSUME NEW k \in 1..n
      PROVE  w[k][1] \in DOMAIN d.slotOf /\ e.slotOf[w[k][1]] = k
  <2>1. w[k][1] \in DOMAIN d.slotOf
    BY DEF Enumerates
  <2>2. PICK i : i = w[k][1]
    OBVIOUS
  <2>3. e.slotOf[i] = CHOOSE j \in 1..n : w[j][1] = i
    BY <1>2, <2>1, <2>2
  <2>4. (CHOOSE j \in 1..n : w[j][1] = i) \in 1..n
        /\ w[CHOOSE j \in 1..n : w[j][1] = i][1] = i
    BY <2>2
  <2>5. \A j \in 1..n : w[j][1] = w[k][1] => j = k
    BY EnumeratedOnce
  <2> QED
    BY <2>1, <2>2, <2>3, <2>4, <2>5
<1>7. \A i \in DOMAIN d.slotOf : \E k \in 1..n : w[k][1] = i /\ e.slotOf[i] = k
  <2> SUFFICES ASSUME NEW i \in DOMAIN d.slotOf
               PROVE  \E k \in 1..n : w[k][1] = i /\ e.slotOf[i] = k
    OBVIOUS
  <2>1. PICK k \in 1..n : w[k][1] = i
    BY DEF Enumerates
  <2>2. e.slotOf[w[k][1]] = k
    BY <1>6
  <2> QED
    BY <2>1, <2>2
<1>8. DOMAIN e.slotOf = DOMAIN d.slotOf /\ e.slotOf \in UNION {[S -> Nat] : S \in SUBSET Id}
  <2>1. DOMAIN e.slotOf = DOMAIN d.slotOf /\ DOMAIN d.slotOf \subseteq Id
    BY <1>2, SizesAre DEF Sound
  <2>2. PICK f, D : f = e.slotOf /\ D = DOMAIN d.slotOf
                    /\ f = [i \in D |-> CHOOSE k \in 1..n : w[k][1] = i]
    BY <1>2
  <2>3. ASSUME NEW i \in D PROVE f[i] \in Nat
    <3>1. PICK k \in 1..n : e.slotOf[i] = k
      BY <1>7, <2>2
    <3>2. k \in Nat
      BY <1>1
    <3> QED
      BY <2>2, <3>1, <3>2
  <2>4. f \in [D -> Nat]
    BY <2>2, <2>3
  <2>5. f \in UNION {[S -> Nat] : S \in SUBSET Id}
    BY <2>1, <2>2, <2>4
  <2> QED
    BY <2>1, <2>2, <2>5
<1>9. Slot(e) = 1..n /\ \A k \in 1..n : e.ids[k] = w[k][1]
  <2>1. Slot(e) = 1..n
    BY <1>4 DEF Slot
  <2>2. \A k \in 1..n : e.ids[k] = w[k][1]
    BY <1>2
  <2> QED
    BY <2>1, <2>2
<1>10. Live(e) = 1..n
  <2>1. \A k \in 1..n : IsLive(e, k)
    BY <1>6, <1>8, <1>9 DEF IsLive
  <2> QED
    BY <1>9, <2>1 DEF Live
<1>11. e.indexes \in Indexes /\ \A k \in DOMAIN e.indexes : e.indexes[k].posts = {}
  <2>1. d.indexes \in Indexes
    BY DataIs DEF Sound, Typed
  <2> QED
    BY <1>2, <2>1, EmptyIndexesAre
<1>12. e \in Data
  <2>1. e.graph \in SUBSET (Nat \X Vecs)
    <3>1. \A k \in 1..n : k \in Nat
      BY <1>1
    <3>2. \A k \in 1..n : <<k, w[k][2].vec>> \in Nat \X Vecs
      BY <1>3, <3>1
    <3> QED
      BY <1>2, <3>2
  <2>2. Typed(e)
    BY <1>2, <1>4, <1>8, <1>11, <2>1 DEF Typed
  <2> QED
    BY <1>2, <2>2, DataIs
<1>13. Sized(e)
  BY <1>1, <1>4 DEF Sized
<1>14. Mapped(e)
  <2> SUFFICES ASSUME NEW i \in DOMAIN e.slotOf
               PROVE  /\ e.slotOf[i] \in 1..n /\ e.ids[e.slotOf[i]] = i
                      /\ \A s \in 1..n : e.ids[s] = i => s <= e.slotOf[i]
                      /\ PointAt(e, e.slotOf[i]) \in Point
    BY <1>9 DEF Mapped
  <2>1. PICK k \in 1..n : w[k][1] = i /\ e.slotOf[i] = k
    BY <1>7, <1>8
  <2>2. \A s \in 1..n : e.ids[s] = i => s = k
    BY <1>9, <2>1, EnumeratedOnce
  <2>3. k <= k
    BY <1>1
  <2> QED
    BY <1>3, <1>5, <1>9, <2>1, <2>2, <2>3
<1>15. Entombed(e)
  BY <1>2, <1>9, <1>10 DEF Entombed
<1>16. Graphed(e)
  <2> SUFFICES ASSUME ~g
               PROVE  /\ \A m \in e.graph : m[1] \in 1..n /\ m = <<m[1], VectorAt(e, m[1])>>
                      /\ \A s \in 1..n : <<s, VectorAt(e, s)>> \in e.graph
    BY <1>2, <1>9, <1>10 DEF Graphed
  <2>1. e.graph = {<<k, w[k][2].vec>> : k \in 1..n}
    BY <1>2
  <2> QED
    BY <1>5, <2>1
<1>17. Firm(e)
  BY <1>12, <1>13, <1>14, <1>15, <1>16 DEF Firm
<1> QED
  BY <1>5, <1>6, <1>8, <1>10, <1>11, <1>17 DEF e

(* install_base.                                                            *)
LEMMA BasedSound ==
    ASSUME NEW d, Sound(d), NEW g \in BOOLEAN
    PROVE  Renumbered(Based(d, g), d)
<1> DEFINE w == LivePoints(d)
           e == Loaded(d, w, g)
           q == [k \in DOMAIN w |-> k]
           x == FoldLeft(Posted, e, q)
<1>1. PICK n : Enumerates(w, n, d)
  BY LivePointsAre
<1>2. Based(d, g) = x
  BY DEF Based
<1> HIDE DEF w
<1>3. /\ Firm(e) /\ Live(e) = 1..n /\ DOMAIN e.slotOf = DOMAIN d.slotOf
      /\ \A k \in 1..n : e.slotOf[w[k][1]] = k /\ PointAt(e, k) = w[k][2]
      /\ \A k \in DOMAIN e.indexes : e.indexes[k].posts = {}
  BY <1>1, LoadedFirm
<1> HIDE DEF e
<1>4. n \in Nat /\ DOMAIN w = 1..n
  BY <1>1 DEF Enumerates
<1>5. q \in [1..n -> Live(e)] /\ \A s \in Live(e) : \E k \in 1..n : q[k] = s
  BY <1>3, <1>4
<1> HIDE DEF q
<1>6. Untouched(x, e)
  <2>1. \A k \in DOMAIN e.indexes : \A r \in e.indexes[k].posts :
           \E s \in Live(e) : r \in PostsOf(e.indexes[k], k, s, e.pays[s])
    BY <1>3
  <2> QED
    <3>1. Firm(e) /\ n \in Nat
      BY <1>3, <1>4
    <3> HIDE DEF x
    <3>2. x = FoldLeft(Posted, e, q)
      BY DEF x
    <3>3. Untouched(FoldLeft(Posted, e, q), e)
      BY ONLY <3>1, <2>1, <1>5, PostedSound
    <3> QED
      BY <3>2, <3>3
<1> HIDE DEF x
<1>7. ASSUME NEW k \in 1..n
      PROVE  x.slotOf[w[k][1]] = k /\ PointAt(x, k) = w[k][2]
  <2>1. w[k][1] \in DOMAIN e.slotOf
    BY <1>1, <1>3 DEF Enumerates
  <2>2. x.slotOf = e.slotOf /\ PointAt(x, x.slotOf[w[k][1]]) = PointAt(e, e.slotOf[w[k][1]])
    BY <1>6, <2>1 DEF Untouched
  <2> QED
    BY <1>3, <2>2
<1>8. Sound(x) /\ DOMAIN x.slotOf = DOMAIN d.slotOf
  BY <1>3, <1>6 DEF Untouched
<1> QED
  BY <1>1, <1>2, <1>7, <1>8, NumberedAgain

-----------------------------------------------------------------------------
(* The slots stand for the points.                                          *)

(* The points f that callers asked for are those in the slots of d.         *)
Stands(d, f) ==
    /\ Sound(d) /\ f = [i \in DOMAIN f |-> f[i]] /\ DOMAIN f = DOMAIN d.slotOf
    /\ \A i \in DOMAIN d.slotOf : f[i] = PointAt(d, d.slotOf[i])

(* What a step does to the slots: a batch is written, ids are deleted, the  *)
(* slots stay, or the live ones are numbered again.                         *)
IsUpsert(e, d, batch, n) ==
    n \in Nat /\ batch \in [1..n -> Id \X Point] /\ Wrote(e, d, batch, n)

(* The points g are those of f, the batch put in.                           *)
IsPut(g, f, batch, n) ==
    g = [i \in DOMAIN f \cup WrittenIn(batch, n) |->
           IF i \in WrittenIn(batch, n) THEN LastIn(batch, i) ELSE f[i]]

(* upsert_batch, as the history has it.                                     *)
LEMMA UpsertStands ==
    ASSUME NEW d, NEW f, Stands(d, f), NEW e, NEW batch, NEW n, IsUpsert(e, d, batch, n),
           NEW g, IsPut(g, f, batch, n)
    PROVE  Stands(e, g)
<1>0. g = [i \in DOMAIN f \cup WrittenIn(batch, n) |->
             IF i \in WrittenIn(batch, n) THEN LastIn(batch, i) ELSE f[i]]
  BY DEF IsPut
<1>1. n \in Nat /\ batch \in [1..n -> Id \X Point] /\ Wrote(e, d, batch, n) /\ Sound(e)
  BY DEF IsUpsert, Wrote
<1>2. DOMAIN g = DOMAIN e.slotOf
  BY <1>0, <1>1 DEF Wrote, Stands
<1>3. ASSUME NEW i \in WrittenIn(batch, n)
      PROVE  g[i] = PointAt(e, e.slotOf[i])
  <2> DEFINE K == {k \in 1..n : batch[k][1] = i}
             m == Max(K)
  <2>1. K \in SUBSET (1..n) /\ K # {}
    BY DEF WrittenIn
  <2>2. m \in K /\ \A y \in K : m >= y
    <3> HIDE DEF K
    <3> QED
      BY <1>1, <2>1, MaxExists
  <2>3. LastIn(batch, i) = batch[m][2]
    <3>1. DOMAIN batch = 1..n
      BY <1>1
    <3> QED
      BY <3>1 DEF LastIn
  <2> HIDE DEF m
  <2>4. m \in 1..n /\ batch[m][1] = i
    BY <2>2
  <2>5. \A j \in 1..n : batch[j][1] = i => j <= m
    <3> SUFFICES ASSUME NEW j \in 1..n, batch[j][1] = i PROVE j <= m
      OBVIOUS
    <3>1. m >= j /\ m \in Nat /\ j \in Nat
      BY <1>1, <2>2
    <3> QED
      BY <3>1
  <2>6. PointAt(e, e.slotOf[i]) = batch[m][2]
    BY <1>1, <2>4, <2>5 DEF Wrote
  <2> QED
    BY <1>0, <2>3, <2>6
<1>4. ASSUME NEW i \in DOMAIN f \ WrittenIn(batch, n)
      PROVE  g[i] = PointAt(e, e.slotOf[i])
  BY <1>0, <1>1 DEF Wrote, Stands
<1>5. g = [i \in DOMAIN g |-> g[i]] /\ DOMAIN g = DOMAIN f \cup WrittenIn(batch, n)
  BY <1>0
<1>6. \A i \in DOMAIN e.slotOf : g[i] = PointAt(e, e.slotOf[i])
  BY <1>2, <1>3, <1>4, <1>5
<1> QED
  BY <1>1, <1>2, <1>5, <1>6 DEF Stands

(* delete_batch.                                                            *)
LEMMA DeleteStands ==
    ASSUME NEW d, NEW f, Stands(d, f), NEW S, NEW e, Cut(e, d, S)
    PROVE  Stands(e, Restrict(f, DOMAIN f \ S))
  BY DEF Stands, Cut, Restrict

(* What leaves the points alone.                                            *)
LEMMA OtherStands ==
    ASSUME NEW d, NEW f, Stands(d, f), NEW e, Untouched(e, d) \/ Renumbered(e, d)
    PROVE  Stands(e, f)
<1>1. CASE Untouched(e, d)
  BY <1>1 DEF Stands, Untouched
<1>2. CASE Renumbered(e, d)
  BY <1>2 DEF Stands, Renumbered
<1> QED
  BY <1>1, <1>2

(* The step of an action, on sound slots.                                   *)
LEMMA UpsertStep ==
    ASSUME Sound(data), NEW batch \in Batches, UpsertBatch(batch)
    PROVE  \E n : /\ IsUpsert(data', data, batch, n)
                  /\ {batch[k][1] : k \in DOMAIN batch} = WrittenIn(batch, n)
<1>1. PICK n \in 1..2 : batch \in [1..n -> Id \X Point]
  BY DEF Batches
<1>2. n \in Nat /\ DOMAIN batch = 1..n
  BY <1>1
<1>3. Wrote(ApplyPrepared(data, batch), data, batch, n)
  BY <1>1, <1>2, PreparedIs
<1> QED
  BY <1>1, <1>2, <1>3 DEF UpsertBatch, IsUpsert, WrittenIn

(* The same of delete_batch.                                                *)
LEMMA DeleteStep ==
    ASSUME Sound(data), NEW S \in SUBSET Id, DeleteBatch(S)
    PROVE  Cut(data', data, S)
<1>1. IsFiniteSet(S)
  BY SlotsAssumption, FS_Subset DEF SlotsAssumption
<1>2. PICK n, w : /\ n = Cardinality(S) /\ w = SetToSeq(S) /\ n \in Nat
                  /\ w \in [1..n -> S] /\ {w[k] : k \in 1..n} = S
  BY <1>1, ElementsOf
<1>3. w \in [1..n -> Id]
  BY <1>2
<1>4. Cut(FoldLeft(Tombstone, data, w), data, {w[k] : k \in 1..n})
  BY <1>2, <1>3, DeletedIs
<1> QED
  BY <1>2, <1>4 DEF DeleteBatch

(* The same of what writes no point.                                        *)
LEMMA OtherStep ==
    ASSUME Sound(data)
    PROVE  /\ \A x \in Indexable : CreatePayloadIndex(x[1], x[2]) => Untouched(data', data)
           /\ Reindex => Untouched(data', data)
           /\ Compact => Renumbered(data', data)
           /\ Reopen => Renumbered(data', data)
<1>1. \A x \in Indexable : CreatePayloadIndex(x[1], x[2]) => Untouched(data', data)
  BY DeclaredSound DEF CreatePayloadIndex
<1>2. Reindex => Untouched(data', data)
  BY ReindexedSound DEF Reindex
<1>3. Compact => Renumbered(data', data)
  BY CompactedSound DEF Compact
<1>4. Reopen => Renumbered(data', data)
  BY CompactedSound, BasedSound DEF Reopen
<1> QED
  BY <1>1, <1>2, <1>3, <1>4

(* The scan has its type.                                                   *)
Scans == [on : BOOLEAN, done : BOOLEAN, first : BOOLEAN, cursor : SUBSET Id,
          got : SUBSET Id, again : SUBSET Id, steady : SUBSET Id, lost : BOOLEAN]
OneCursor(sc) == sc.cursor = {} \/ \E c \in Id : sc.cursor = {c}

(* The inductive invariant: the slots are sound and hold the points.        *)
HoldInv == Stands(data, points) /\ scan \in Scans /\ OneCursor(scan)

(* They do at the start.                                                    *)
LEMMA HoldStart == Init => HoldInv
<1> SUFFICES ASSUME Init PROVE HoldInv
  OBVIOUS
<1>1. <<>> \in Indexes
  <2>1. <<>> \in [{} -> [kind : Kinds, posts : SUBSET (Terms \X Nat)]] /\ {} \in SUBSET Keys
    OBVIOUS
  <2> QED
    BY <2>1 DEF Indexes, Shapes
<1>2. Sound(data) /\ DOMAIN data.slotOf = {}
  BY <1>1, NoPointsSound DEF Init
<1>3. points = <<>> /\ DOMAIN <<>> = {} /\ <<>> = [i \in {} |-> 0]
  BY DEF Init
<1>4. DOMAIN points = {} /\ points = [i \in DOMAIN points |-> points[i]]
  BY <1>3
<1>5. Stands(data, points)
  BY <1>2, <1>4 DEF Stands
<1>6. scan \in Scans /\ OneCursor(scan)
  BY DEF Init, NoScan, Scans, OneCursor
<1> QED
  BY <1>5, <1>6 DEF HoldInv

(* Writing to ids of S leaves the scan its type.                            *)
LEMMA TouchType ==
    ASSUME NEW S, NEW gone, scan \in Scans, OneCursor(scan), Touch(S, gone)
    PROVE  scan' \in Scans /\ OneCursor(scan')
<1>1. CASE scan.done
  BY <1>1 DEF Touch, NoScan, Scans, OneCursor
<1>2. CASE ~scan.done
  <2>1. PICK lost \in BOOLEAN : lost = (scan.lost \/ scan.cursor \cap gone # {})
    OBVIOUS
  <2>2. scan' = [scan EXCEPT !.steady = @ \ S, !.got = @ \ S, !.again = @ \ S, !.lost = lost]
    BY <1>2, <2>1 DEF Touch
  <2> QED
    BY <2>1, <2>2 DEF Scans, OneCursor
<1> QED
  BY <1>1, <1>2

(* The page of the rest, and what is behind it.                             *)
IsPage(page, rest, more, S) ==
    /\ more \in BOOLEAN
    /\ \E c \in Nat, m \in Nat :
          /\ rest \in [1..c -> S] /\ Rising(rest) /\ \A s \in S : \E k \in 1..c : rest[k] = s
          /\ m <= c /\ page \in [1..m -> S] /\ \A k \in 1..m : page[k] = rest[k]
          /\ more => m # 0 /\ Last(page) = rest[m]
          /\ ~more => m = c

(* The page that scroll cuts is one.                                        *)
LEMMA PageIs ==
    ASSUME NEW N \in Nat, NEW S \in SUBSET (1..N)
    PROVE  LET rest == InOrder(S)
               more == Len(rest) > PageSize
           IN  IsPage(SubSeq(rest, 1, IF more THEN PageSize ELSE Len(rest)), rest, more, S)
<1> DEFINE rest == InOrder(S)
           more == Len(rest) > PageSize
           m == IF more THEN PageSize ELSE Len(rest)
           page == SubSeq(rest, 1, m)
<1>1. PICK c : c = Cardinality(S) /\ c \in Nat /\ rest \in [1..c -> S] /\ Rising(rest)
               /\ \A s \in S : \E k \in 1..c : rest[k] = s
  BY InOrderIs
<1> HIDE DEF rest
<1>2. Len(rest) = c /\ rest \in Seq(S)
  BY <1>1
<1>3. PageSize \in Nat /\ PageSize # 0
  BY SlotsAssumption DEF SlotsAssumption
<1>4. m \in Nat /\ m <= c /\ (more => m # 0) /\ (~more => m = c) /\ more \in BOOLEAN
  BY <1>1, <1>2, <1>3
<1> HIDE DEF m, more
<1>5. /\ page \in [1..m -> S] /\ \A k \in 1..m : page[k] = rest[k]
      /\ Len(page) = m
  <2>1. page = [k \in 1..m |-> rest[1 + k - 1]]
    BY <1>4
  <2>2. \A k \in 1..m : 1 + k - 1 = k /\ k \in 1..c
    BY <1>1, <1>4
  <2>3. \A k \in 1..m : page[k] = rest[k] /\ rest[k] \in S
    BY <1>1, <2>1, <2>2
  <2>4. page \in [1..m -> S]
    BY <2>1, <2>2, <2>3
  <2> HIDE DEF page
  <2> QED
    BY <1>4, <2>3, <2>4
<1>6. more => Last(page) = rest[m]
  <2>1. m # 0 => m \in 1..m
    BY <1>4
  <2> HIDE DEF page
  <2> QED
    BY <1>4, <1>5, <2>1 DEF Last
<1> HIDE DEF page
<1>7. IsPage(page, rest, more, S)
  BY <1>1, <1>4, <1>5, <1>6 DEF IsPage
<1> QED
  BY <1>7 DEF page, m, more, rest

(* Where a page starts.                                                     *)
From == IF scan.first THEN 1 ELSE ResumeAt(data, CHOOSE i \in scan.cursor : TRUE)
Behind == {s \in Live(data) : s >= From}

(* What a page makes of the scan.                                           *)
Scrolled(page, more) ==
    LET ids == {data.ids[page[k]] : k \in DOMAIN page}
    IN  [scan EXCEPT !.first = FALSE, !.on = more, !.done = ~more,
                     !.got = @ \cup (ids \cap scan.steady),
                     !.again = @ \cup (ids \cap scan.got),
                     !.cursor = IF more THEN {data.ids[Last(page)]} ELSE {}]

(* scroll makes that of the scan.                                           *)
LEMMA PageStep ==
    ASSUME Sound(data), ScrollPage
    PROVE  \E page, rest, more : IsPage(page, rest, more, Behind) /\ scan' = Scrolled(page, more)
<1> DEFINE rest == InOrder(Behind)
           more == Len(rest) > PageSize
           page == SubSeq(rest, 1, IF more THEN PageSize ELSE Len(rest))
<1>1. PICK N \in Nat : Behind \in SUBSET (1..N)
  BY SizesAre DEF Sound, Behind, Live
<1>2. IsPage(page, rest, more, Behind)
  BY <1>1, PageIs
<1>3. scan' = Scrolled(page, more)
  BY DEF ScrollPage, Scrolled, Behind, From
<1> HIDE DEF page, rest, more
<1> QED
  BY <1>2, <1>3

(* A page leaves the scan its type.                                         *)
LEMMA ScrolledType ==
    ASSUME Sound(data), scan \in Scans, NEW page, NEW rest, NEW more,
           IsPage(page, rest, more, Behind)
    PROVE  Scrolled(page, more) \in Scans /\ OneCursor(Scrolled(page, more))
<1> DEFINE ids == {data.ids[page[k]] : k \in DOMAIN page}
           new == IF more THEN {data.ids[Last(page)]} ELSE {}
<1>1. \A s \in Behind : data.ids[s] \in Id
  BY SizesAre DEF Sound, Behind, Live
<1>2. more \in BOOLEAN
  BY DEF IsPage
<1>3. new = {} \/ \E c \in Id : new = {c}
  <2>1. more => Last(page) \in Behind
    <3>1. PICK c \in Nat, m \in Nat :
             /\ rest \in [1..c -> Behind] /\ m <= c /\ (more => m # 0 /\ Last(page) = rest[m])
      BY DEF IsPage
    <3>2. m # 0 => m \in 1..c
      BY <3>1
    <3> QED
      BY <3>1, <3>2
  <2> QED
    BY <1>1, <1>2, <2>1
<1> HIDE DEF ids, new
<1>4. Scrolled(page, more) =
        [scan EXCEPT !.first = FALSE, !.on = more, !.done = ~more,
                     !.got = @ \cup (ids \cap scan.steady),
                     !.again = @ \cup (ids \cap scan.got), !.cursor = new]
  BY DEF Scrolled, ids, new
<1>5. Scrolled(page, more) \in Scans /\ Scrolled(page, more).cursor = new
  <2>1. PICK got, again : /\ got = scan.got \cup (ids \cap scan.steady)
                          /\ again = scan.again \cup (ids \cap scan.got)
    OBVIOUS
  <2>2. got \in SUBSET Id /\ again \in SUBSET Id /\ new \in SUBSET Id
    BY <1>3, <2>1 DEF Scans
  <2>3. Scrolled(page, more) = [scan EXCEPT !.first = FALSE, !.on = more, !.done = ~more,
                                            !.got = got, !.again = again, !.cursor = new]
    BY <1>4, <2>1
  <2> QED
    BY <1>2, <2>2, <2>3 DEF Scans
<1> QED
  BY <1>3, <1>5 DEF OneCursor

(* Every step keeps them.                                                   *)
LEMMA HoldNext == HoldInv /\ [Next]_vars => HoldInv'
<1> SUFFICES ASSUME HoldInv, [Next]_vars PROVE HoldInv'
  OBVIOUS
<1>0. Stands(data, points) /\ Sound(data) /\ scan \in Scans /\ OneCursor(scan)
  BY DEF HoldInv, Stands
<1>a. ASSUME NEW S, NEW gone, Touch(S, gone)
      PROVE  scan' \in Scans /\ OneCursor(scan')
  BY <1>0, <1>a, TouchType
<1>1. ASSUME NEW batch \in Batches, UpsertBatch(batch)
      PROVE  HoldInv'
  <2>1. PICK n : IsUpsert(data', data, batch, n)
                 /\ {batch[k][1] : k \in DOMAIN batch} = WrittenIn(batch, n)
    BY <1>0, <1>1, UpsertStep
  <2>2. points' = [i \in DOMAIN points \cup WrittenIn(batch, n) |->
                      IF i \in WrittenIn(batch, n) THEN LastIn(batch, i) ELSE points[i]]
    BY <1>1, <2>1 DEF UpsertBatch
  <2>3. Stands(data', points')
    <3>1. IsPut(points', points, batch, n)
      BY <2>2 DEF IsPut
    <3> QED
      BY <1>0, <2>1, <3>1, UpsertStands
  <2>4. Touch(WrittenIn(batch, n), WrittenIn(batch, n))
    BY <1>1, <2>1 DEF UpsertBatch
  <2> QED
    BY <2>3, <2>4, <1>a DEF HoldInv
<1>2. ASSUME NEW S \in SUBSET Id, DeleteBatch(S)
      PROVE  HoldInv'
  <2>1. Cut(data', data, S)
    BY <1>0, <1>2, DeleteStep
  <2>2. points' = Restrict(points, DOMAIN points \ S) /\ Touch(S, {})
    BY <1>2 DEF DeleteBatch
  <2>3. Stands(data', points')
    BY <1>0, <2>1, <2>2, DeleteStands
  <2> QED
    BY <2>2, <2>3, <1>a DEF HoldInv
<1>3. ASSUME Untouched(data', data) \/ Renumbered(data', data), points' = points,
             NEW gone, Touch({}, gone)
      PROVE  HoldInv'
  <2>1. Stands(data', points')
    BY <1>0, <1>3, OtherStands
  <2> QED
    BY <1>3, <2>1, <1>a DEF HoldInv
<1>4. ASSUME NEW x \in Indexable, CreatePayloadIndex(x[1], x[2])
      PROVE  HoldInv'
  <2>1. Untouched(data', data)
    BY <1>0, <1>4, OtherStep
  <2> QED
    BY <1>3, <1>4, <2>1 DEF CreatePayloadIndex
<1>5. CASE Reindex
  <2>1. Untouched(data', data)
    BY <1>0, <1>5, OtherStep
  <2> QED
    BY <1>3, <1>5, <2>1 DEF Reindex
<1>6. CASE Compact \/ Reopen
  <2>1. Renumbered(data', data)
    BY <1>0, <1>6, OtherStep
  <2> QED
    BY <1>3, <1>6, <2>1 DEF Compact, Reopen
<1>7. CASE StartScan
  <2>1. data' = data /\ points' = points
        /\ scan' = [NoScan EXCEPT !.on = TRUE, !.steady = DOMAIN data.slotOf]
    BY <1>7 DEF StartScan
  <2>2. DOMAIN data.slotOf \subseteq Id
    BY <1>0, SizesAre DEF Sound
  <2>3. scan' \in Scans /\ OneCursor(scan')
    BY <2>1, <2>2 DEF NoScan, Scans, OneCursor
  <2> QED
    BY <1>0, <2>1, <2>3 DEF HoldInv
<1>8. CASE ScrollPage
  <2>1. data' = data /\ points' = points
    BY <1>8 DEF ScrollPage
  <2>2. scan' \in Scans /\ OneCursor(scan')
    BY <1>0, <1>8, PageStep, ScrolledType
  <2> QED
    BY <1>0, <2>1, <2>2 DEF HoldInv
<1>9. CASE UNCHANGED vars
  BY <1>0, <1>9 DEF vars, HoldInv
<1> QED
  BY <1>1, <1>2, <1>4, <1>5, <1>6, <1>7, <1>8, <1>9 DEF Next

(* They always do.                                                          *)
LEMMA Holding == Spec => []HoldInv
  BY HoldStart, HoldNext, PTL DEF Spec

-----------------------------------------------------------------------------
(* What follows.                                                            *)

(* The type invariant is part of it.                                        *)
LEMMA HoldTypes == HoldInv => TypeOK
<1> SUFFICES ASSUME HoldInv PROVE TypeOK
  OBVIOUS
<1>1. Sound(data) /\ Stands(data, points) /\ scan \in Scans /\ OneCursor(scan)
  BY DEF HoldInv, Stands
<1>2. Typed(data) /\ Sized(data) /\ Mapped(data) /\ data \in Data
  BY <1>1, DataIs DEF Sound
<1>3. \A s \in DOMAIN data.pays : data.pays[s] \in Pays
  <2>1. data.pays \in Seq(Pays)
    BY <1>2 DEF Typed
  <2> QED
    BY <2>1
<1>4. data.dead \subseteq Slot(data)
  BY <1>1 DEF Sound, Entombed
<1>5. DOMAIN data.slotOf \subseteq Id
  BY <1>2, SizesAre
<1>6. points \in UNION {[S -> Point] : S \in SUBSET Id}
  <2>1. \A i \in DOMAIN points : i \in Id /\ points[i] \in Point
    BY <1>1, <1>2, <1>5 DEF Stands, Mapped
  <2>2. points \in [DOMAIN points -> Point] /\ DOMAIN points \in SUBSET Id
    BY <1>1, <2>1 DEF Stands
  <2> QED
    BY <2>2
<1>7. scan.steady \subseteq Id /\ Cardinality(scan.cursor) <= 1
  <2>1. scan.steady \subseteq Id
    BY <1>1 DEF Scans
  <2>2. CASE scan.cursor = {}
    <3>1. Cardinality({}) = 0
      BY FS_EmptySet
    <3> QED
      BY <2>1, <2>2, <3>1
  <2>3. CASE \E c \in Id : scan.cursor = {c}
    <3>1. PICK c : scan.cursor = {c}
      BY <2>3
    <3>2. Cardinality({c}) = 1
      BY FS_Singleton
    <3>3. Cardinality(scan.cursor) = 1
      BY <3>1, <3>2
    <3> QED
      BY <2>1, <3>3
  <2> QED
    BY <1>1, <2>2, <2>3 DEF OneCursor
<1> QED
  BY <1>2, <1>3, <1>4, <1>5, <1>6, <1>7 DEF TypeOK, Typed, Sized, Mapped, Pays

(* The slots stand for the points: whatever upserts, deletions, compactions,*)
(* declarations, reindexings and reopenings a collection has been through,  *)
(* `get` finds each id's last point and no other (collection.rs).           *)
THEOREM HoldPoints == Spec => []SlotsHoldPoints
<1>1. HoldInv => SlotsHoldPoints
  <2> SUFFICES ASSUME HoldInv PROVE SlotsHoldPoints
    OBVIOUS
  <2>1. Stands(data, points)
    BY DEF HoldInv
  <2>2. [i \in DOMAIN data.slotOf |-> PointAt(data, data.slotOf[i])] = points
    BY <2>1 DEF Stands
  <2> QED
    BY <2>2, HoldTypes DEF SlotsHoldPoints
<1> QED
  BY <1>1, Holding, PTL

(* A graph with at most a node for each slot has at most as many.           *)
LEMMA GraphSize ==
    ASSUME NEW d, Sound(d), d.index
    PROVE  Cardinality(d.graph) <= Cardinality(Live(d)) + Cardinality(d.dead)
<1> DEFINE S == Slot(d)
           f == [n \in d.graph |-> n[1]]
<1>1. S = 1..Len(d.ids) /\ Len(d.ids) \in Nat
  BY SizesAre DEF Sound
<1>2. IsFiniteSet(S)
  BY <1>1, FS_Interval
<1>3. \A n \in d.graph : n[1] \in S /\ n = <<n[1], VectorAt(d, n[1])>>
  BY DEF Sound, Graphed
<1>4. Live(d) \in SUBSET S /\ d.dead = S \ Live(d)
  BY DEF Sound, Entombed, Live
<1> HIDE DEF S
<1>5. f \in Injection(d.graph, S)
  <2>1. f \in [d.graph -> S]
    BY <1>3
  <2>2. \A a, b \in d.graph : f[a] = f[b] => a = b
    BY <1>3
  <2> QED
    BY <2>1, <2>2 DEF Injection, IsInjective
<1>6. Cardinality(d.graph) <= Cardinality(S) /\ IsFiniteSet(d.graph)
  BY <1>2, <1>5, FS_Injection
<1>7. IsFiniteSet(Live(d)) /\ IsFiniteSet(d.dead)
  BY <1>2, <1>4, FS_Subset
<1>8. Cardinality(S) = Cardinality(Live(d)) + Cardinality(d.dead)
  <2>1. Live(d) \cup d.dead = S /\ Live(d) \cap d.dead = {}
    BY <1>4
  <2> HIDE DEF f
  <2>2. /\ Cardinality(Live(d) \cup d.dead) =
             Cardinality(Live(d)) + Cardinality(d.dead) - Cardinality(Live(d) \cap d.dead)
    BY <1>7, FS_Union
  <2>3. Cardinality({}) = 0
    BY FS_EmptySet
  <2>4. PICK a, b : /\ a = Cardinality(Live(d)) /\ b = Cardinality(d.dead)
                    /\ a \in Nat /\ b \in Nat
    BY <1>7, FS_CardinalityType
  <2>5. Cardinality(S) = a + b - 0
    BY <2>1, <2>2, <2>3, <2>4
  <2>6. a + b - 0 = a + b
    BY ONLY <2>4
  <2> QED
    BY <2>4, <2>5, <2>6
<1> QED
  BY <1>6, <1>8

(* A search that asks the graph for as many more hits as there are          *)
(* tombstones misses no live point: each live slot is a node with its own   *)
(* vector, and the nodes are no more than live slots and tombstones         *)
(* (collection.rs, the over-fetch of search).                               *)
THEOREM GraphServes == Spec => []GraphServesSearch
<1>1. HoldInv => GraphServesSearch
  <2> SUFFICES ASSUME HoldInv, data.index
               PROVE  /\ {n \in data.graph : IsLive(data, n[1])} =
                            {<<s, VectorAt(data, s)>> : s \in Live(data)}
                      /\ Cardinality(data.graph) <= Cardinality(Live(data)) + Cardinality(data.dead)
    BY DEF GraphServesSearch
  <2>1. Sound(data)
    BY DEF HoldInv, Stands
  <2>2. /\ \A n \in data.graph : n[1] \in Slot(data) /\ n = <<n[1], VectorAt(data, n[1])>>
        /\ \A s \in Live(data) : <<s, VectorAt(data, s)>> \in data.graph
    BY <2>1 DEF Sound, Graphed
  <2>3. \A s : s \in Live(data) <=> s \in Slot(data) /\ IsLive(data, s)
    BY DEF Live
  <2>4. {n \in data.graph : IsLive(data, n[1])} = {<<s, VectorAt(data, s)>> : s \in Live(data)}
    <3>1. ASSUME NEW n \in data.graph, IsLive(data, n[1])
          PROVE  n \in {<<s, VectorAt(data, s)>> : s \in Live(data)}
      BY <2>2, <2>3, <3>1
    <3>2. ASSUME NEW s \in Live(data)
          PROVE  <<s, VectorAt(data, s)>> \in {n \in data.graph : IsLive(data, n[1])}
      BY <2>2, <2>3
    <3> QED
      BY <3>1, <3>2
  <2> QED
    BY <2>1, <2>4, GraphSize
<1> QED
  BY <1>1, Holding, PTL

(* A payload index posts the values of the live slots, all of them and      *)
(* nothing else, so that the planner can trust it (filter/index.rs).        *)
THEOREM PostingsAreExact == Spec => []PostingsExact
<1>1. HoldInv => PostingsExact
  <2> SUFFICES ASSUME HoldInv, NEW k \in DOMAIN data.indexes
               PROVE  data.indexes[k].posts =
                         UNION {PostsOf(data.indexes[k], k, s, data.pays[s]) : s \in Live(data)}
    BY DEF PostingsExact
  <2>1. PostedOf(data, Live(data))
    BY DEF HoldInv, Stands, Sound
  <2>2. \A q : q \in data.indexes[k].posts <=>
                  \E s \in Live(data) : q \in PostsOf(data.indexes[k], k, s, data.pays[s])
    BY <2>1 DEF PostedOf
  <2> QED
    BY <2>2
<1> QED
  BY <1>1, Holding, PTL

-----------------------------------------------------------------------------
(* A scan covers each point once.                                           *)

(* l is the last slot that carried the id c.                                *)
IsLast(d, c, l) ==
    l \in Slot(d) /\ d.ids[l] = c /\ \A s \in Slot(d) : d.ids[s] = c => s <= l

(* A page after the cursor starts behind it.                                *)
LEMMA ResumeIs ==
    ASSUME NEW d, Sound(d), NEW c, NEW l, IsLast(d, c, l)
    PROVE  ResumeAt(d, c) = l + 1
<1>1. Slot(d) \subseteq Nat /\ Slot(d) = 1..Len(d.ids) /\ Len(d.ids) \in Nat
  BY SizesAre DEF Sound
<1>2. \A a, b \in Nat : a <= b /\ b <= a => a = b
  OBVIOUS
<1>3. CASE c \in DOMAIN d.slotOf
  <2>1. d.slotOf[c] \in Slot(d) /\ d.ids[d.slotOf[c]] = c /\ l <= d.slotOf[c]
    BY <1>3 DEF Sound, Mapped, IsLast
  <2>2. d.slotOf[c] <= l /\ l \in Slot(d)
    BY <2>1 DEF IsLast
  <2>3. d.slotOf[c] = l
    BY <1>1, <1>2, <2>1, <2>2
  <2> QED
    BY <1>3, <2>3 DEF ResumeAt
<1>4. CASE c \notin DOMAIN d.slotOf
  <2> DEFINE old == {s \in Slot(d) : d.ids[s] = c}
  <2>1. old \in SUBSET (1..Len(d.ids)) /\ l \in old /\ old # {}
    BY <1>1 DEF IsLast
  <2>2. ResumeAt(d, c) = Max(old) + 1
    BY <1>4, <2>1 DEF ResumeAt
  <2>3. \A s \in old : s <= l /\ s \in Nat
    BY <1>1 DEF IsLast
  <2> HIDE DEF old
  <2>4. Max(old) \in old /\ \A y \in old : Max(old) >= y
    BY <1>1, <2>1, MaxExists
  <2>5. Max(old) = l
    <3>1. PICK a : a = Max(old) /\ a >= l /\ a <= l /\ a \in Nat /\ l \in Nat
      BY <2>1, <2>3, <2>4
    <3>2. a = l
      BY ONLY <3>1
    <3> QED
      BY <3>1, <3>2
  <2> QED
    BY <2>2, <2>5
<1> QED
  BY <1>3, <1>4

(* What a scan has returned: none of them twice, and, of the ids it owes,   *)
(* those up to the last slot of the cursor's.                               *)
Covered(sc, d) ==
    /\ sc.again = {}
    /\ sc.done => sc.got = sc.steady
    /\ sc.on =>
          /\ ~sc.done /\ sc.steady \subseteq DOMAIN d.slotOf /\ sc.got \subseteq sc.steady
          /\ sc.first => sc.got = {} /\ sc.cursor = {}
          /\ ~sc.first => \E c \in Id : \E l : /\ sc.cursor = {c} /\ IsLast(d, c, l)
                                               /\ \A i \in sc.steady : i \in sc.got <=> d.slotOf[i] <= l

(* The inductive invariant of a scan that is not lost.                      *)
CoverInv == HoldInv /\ (~scan.lost => Covered(scan, data))

(* The slots e keep the place of the id c among those of the other ids.     *)
Follows(e, d, S, c) ==
    \A l : IsLast(d, c, l) =>
       \E m : /\ IsLast(e, c, m)
              /\ \A i \in DOMAIN d.slotOf \ S : d.slotOf[i] <= l <=> e.slotOf[i] <= m

(* A write that leaves the cursor its place.                                *)
LEMMA TouchCovers ==
    ASSUME NEW S, NEW gone, scan \in Scans, ~scan.lost => Covered(scan, data), Touch(S, gone),
           NEW e, scan.on => DOMAIN data.slotOf \ S \subseteq DOMAIN e.slotOf,
           \A c \in Id \ gone : scan.on /\ scan.cursor = {c} => Follows(e, data, S, c)
    PROVE  ~scan'.lost => Covered(scan', e)
<1> SUFFICES ASSUME ~scan'.lost PROVE Covered(scan', e)
  OBVIOUS
<1>0. ~scan.done => /\ ~scan.lost /\ scan.cursor \cap gone = {} /\ Covered(scan, data)
                    /\ \A c \in Id : scan.on /\ scan.cursor = {c} => Follows(e, data, S, c)
  <2> SUFFICES ASSUME ~scan.done PROVE ~scan.lost /\ scan.cursor \cap gone = {}
    OBVIOUS
  <2>1. PICK lost : lost = (scan.lost \/ scan.cursor \cap gone # {})
    OBVIOUS
  <2>2. scan' = [scan EXCEPT !.steady = @ \ S, !.got = @ \ S, !.again = @ \ S, !.lost = lost]
    BY <2>1 DEF Touch
  <2>3. scan'.lost = lost
    BY <2>2 DEF Scans
  <2> QED
    BY <2>1, <2>3
<1>1. CASE scan.done
  BY <1>1 DEF Touch, NoScan, Covered
<1>2. CASE ~scan.done /\ ~scan.on
  <2>1. scan'.again = scan.again \ S /\ scan'.on = scan.on /\ scan'.done = scan.done
    BY <1>2 DEF Touch, Scans
  <2> QED
    BY <1>0, <1>2, <2>1 DEF Covered
<1>3. CASE ~scan.done /\ scan.on
  <2>1. /\ scan'.again = scan.again \ S /\ scan'.got = scan.got \ S
        /\ scan'.steady = scan.steady \ S /\ scan'.on /\ ~scan'.done
        /\ scan'.first = scan.first /\ scan'.cursor = scan.cursor
    BY <1>3 DEF Touch, Scans
  <2>2. scan.steady \subseteq DOMAIN data.slotOf /\ scan.got \subseteq scan.steady /\ scan.again = {}
    BY <1>0, <1>3 DEF Covered
  <2>3. /\ scan'.again = {} /\ scan'.steady \subseteq DOMAIN e.slotOf
        /\ scan'.got \subseteq scan'.steady
    BY <1>3, <2>1, <2>2
  <2>4. scan'.first => scan'.got = {} /\ scan'.cursor = {}
    BY <1>0, <1>3, <2>1 DEF Covered
  <2>5. ASSUME ~scan'.first
        PROVE  \E c \in Id : \E l : /\ scan'.cursor = {c} /\ IsLast(e, c, l)
                                    /\ \A i \in scan'.steady : i \in scan'.got <=> e.slotOf[i] <= l
    <3>1. PICK c, l : /\ c \in Id /\ scan.cursor = {c} /\ IsLast(data, c, l)
                      /\ \A i \in scan.steady : i \in scan.got <=> data.slotOf[i] <= l
      BY <1>0, <1>3, <2>1, <2>5 DEF Covered
    <3>2. PICK m : /\ IsLast(e, c, m)
                   /\ \A i \in DOMAIN data.slotOf \ S : data.slotOf[i] <= l <=> e.slotOf[i] <= m
      BY <1>0, <1>3, <3>1 DEF Follows
    <3>3. \A i \in scan'.steady : i \in scan'.got <=> e.slotOf[i] <= m
      BY <2>1, <2>2, <3>1, <3>2
    <3> QED
      BY <2>1, <3>1, <3>2, <3>3
  <2> QED
    BY <2>1, <2>3, <2>4, <2>5 DEF Covered
<1> QED
  BY <1>1, <1>2, <1>3

(* A batch of other ids does.                                               *)
LEMMA UpsertFollows ==
    ASSUME NEW d, Sound(d), NEW e, NEW batch, NEW n, IsUpsert(e, d, batch, n),
           NEW c, c \notin WrittenIn(batch, n)
    PROVE  Follows(e, d, WrittenIn(batch, n), c)
<1> SUFFICES ASSUME NEW l, IsLast(d, c, l)
             PROVE  /\ IsLast(e, c, l)
                    /\ \A i \in DOMAIN d.slotOf \ WrittenIn(batch, n) :
                          d.slotOf[i] <= l <=> e.slotOf[i] <= l
  BY DEF Follows
<1>1. Wrote(e, d, batch, n) /\ n \in Nat /\ Sound(e)
  BY DEF IsUpsert, Wrote
<1>2. PICK L : L = Len(d.ids) /\ L \in Nat /\ Slot(d) = 1..L
  BY SizesAre DEF Sound
<1>3. Len(e.ids) = L + n /\ Slot(e) = 1..(L + n)
  BY <1>1, <1>2 DEF Wrote, Slot
<1>4. ASSUME NEW s \in 1..(L + n)
      PROVE  s \in 1..L \/ \E k \in 1..n : s = L + k
  <2>1. CASE s <= L
    BY <1>2, <2>1
  <2>2. CASE ~(s <= L)
    <3>1. s - L \in 1..n /\ s = L + (s - L)
      BY <1>1, <1>2, <2>2
    <3> QED
      BY <3>1
  <2> QED
    BY <2>1, <2>2
<1>5. \A s \in Slot(e) : e.ids[s] = c => s \in Slot(d) /\ d.ids[s] = c
  <2> SUFFICES ASSUME NEW s \in 1..(L + n), e.ids[s] = c
               PROVE  s \in 1..L /\ d.ids[s] = c
    BY <1>2, <1>3
  <2>1. \A k \in 1..n : e.ids[L + k] = batch[k][1] /\ batch[k][1] # c
    BY <1>1, <1>2 DEF Wrote, WrittenIn
  <2>2. s \in 1..L
    BY <1>4, <2>1
  <2> QED
    BY <1>1, <1>2, <2>2 DEF Wrote
<1>6. l \in Slot(e) /\ e.ids[l] = c
  <2>1. l \in Slot(d) /\ d.ids[l] = c
    BY DEF IsLast
  <2>2. l \in Slot(e)
    BY <1>1, <1>2, <1>3, <2>1
  <2> QED
    BY <1>1, <2>1, <2>2 DEF Wrote
<1>7. IsLast(e, c, l)
  BY <1>5, <1>6 DEF IsLast
<1>8. \A i \in DOMAIN d.slotOf \ WrittenIn(batch, n) : e.slotOf[i] = d.slotOf[i]
  BY <1>1 DEF Wrote
<1> QED
  BY <1>7, <1>8

(* So do slots that stay where they are.                                    *)
LEMMA StayFollows ==
    ASSUME NEW d, NEW e, NEW S, NEW c, e.ids = d.ids,
           \A i \in DOMAIN d.slotOf \ S : e.slotOf[i] = d.slotOf[i]
    PROVE  Follows(e, d, S, c)
<1>1. Slot(e) = Slot(d)
  BY DEF Slot
<1> QED
  BY <1>1 DEF Follows, IsLast

(* And slots numbered again, where the id is live.                          *)
LEMMA RenumberedFollows ==
    ASSUME NEW d, Sound(d), NEW e, Renumbered(e, d), NEW c \in DOMAIN d.slotOf
    PROVE  Follows(e, d, {}, c)
<1> SUFFICES ASSUME NEW l, IsLast(d, c, l)
             PROVE  \E m : /\ IsLast(e, c, m)
                           /\ \A i \in DOMAIN d.slotOf : d.slotOf[i] <= l <=> e.slotOf[i] <= m
  BY DEF Follows
<1>1. l = d.slotOf[c]
  <2>1. Slot(d) \subseteq Nat
    BY SizesAre DEF Sound
  <2>2. d.slotOf[c] \in Slot(d) /\ d.ids[d.slotOf[c]] = c /\ l <= d.slotOf[c] /\ l \in Slot(d)
    BY DEF Sound, Mapped, IsLast
  <2>3. d.slotOf[c] <= l
    BY <2>2 DEF IsLast
  <2>4. \A a, b \in Nat : a <= b /\ b <= a => a = b
    OBVIOUS
  <2> QED
    BY <2>1, <2>2, <2>3, <2>4
<1>2. IsLast(e, c, e.slotOf[c])
  BY DEF Renumbered, Sound, Mapped, IsLast
<1>3. \A i \in DOMAIN d.slotOf : d.slotOf[i] <= l <=> e.slotOf[i] <= e.slotOf[c]
  BY <1>1 DEF Renumbered
<1> QED
  BY <1>2, <1>3

(* The elements of a page are those of the rest up to its last.             *)
LEMMA PageHas ==
    ASSUME NEW S \in SUBSET Nat, NEW page, NEW rest, NEW more, IsPage(page, rest, more, S)
    PROVE  /\ more \in BOOLEAN /\ (more => Last(page) \in S)
           /\ \A s : (\E k \in DOMAIN page : page[k] = s) <=>
                        s \in S /\ (more => s <= Last(page))
<1>1. PICK c \in Nat, m \in Nat :
          /\ rest \in [1..c -> S] /\ Rising(rest) /\ \A s \in S : \E k \in 1..c : rest[k] = s
          /\ m <= c /\ page \in [1..m -> S] /\ \A k \in 1..m : page[k] = rest[k]
          /\ more => m # 0 /\ Last(page) = rest[m]
          /\ ~more => m = c
  BY DEF IsPage
<1>2. more \in BOOLEAN
  BY DEF IsPage
<1>3. m # 0 => m \in 1..c
  BY <1>1
<1>4. more => Last(page) \in S
  BY <1>1, <1>3
<1>5. DOMAIN page = 1..m /\ DOMAIN rest = 1..c /\ \A k \in 1..m : k \in 1..c
  BY <1>1
<1>6. ASSUME NEW k \in 1..c, more
      PROVE  k <= m <=> rest[k] <= Last(page)
  <2>1. PICK a, b : a = rest[k] /\ b = rest[m] /\ a \in Nat /\ b \in Nat /\ Last(page) = b /\ m \in 1..c
    BY <1>1, <1>3, <1>6
  <2>2. (k < m => a < b) /\ (m < k => b < a) /\ (k = m => a = b)
    BY <1>1, <1>5, <2>1 DEF Rising
  <2>3. k \in Nat /\ m \in Nat
    BY <1>1
  <2>4. k <= m <=> a <= b
    BY ONLY <2>1, <2>2, <2>3
  <2> QED
    BY <2>1, <2>4
<1>7. ASSUME NEW s, NEW k \in DOMAIN page, page[k] = s
      PROVE  s \in S /\ (more => s <= Last(page))
  <2>1. k \in 1..m /\ k \in 1..c /\ s = rest[k] /\ s \in S /\ k <= m
    BY <1>1, <1>5, <1>7
  <2> QED
    BY <1>6, <2>1
<1>8. ASSUME NEW s \in S, more => s <= Last(page)
      PROVE  \E k \in DOMAIN page : page[k] = s
  <2>1. PICK k \in 1..c : rest[k] = s
    BY <1>1
  <2>2. CASE more
    <3>1. k <= m
      BY <1>6, <1>8, <2>1, <2>2
    <3>2. k \in 1..m
      BY <1>1, <3>1
    <3> QED
      BY <1>1, <1>5, <2>1, <3>2
  <2>3. CASE ~more
    BY <1>1, <1>5, <2>1, <2>3
  <2> QED
    BY <2>2, <2>3
<1> QED
  BY <1>2, <1>4, <1>7, <1>8

(* Before a page, the scan has returned what is before it.                  *)
LEMMA BeforePage ==
    ASSUME CoverInv, scan.on, ~scan.lost
    PROVE  /\ From \in Nat
           /\ \A i \in scan.steady : i \in scan.got <=> ~(data.slotOf[i] >= From)
<1>1. Sound(data) /\ Covered(scan, data) /\ Slot(data) \subseteq Nat /\ Slot(data) = 1..Len(data.ids)
  BY SizesAre DEF CoverInv, HoldInv, Stands, Sound
<1>2. scan.steady \subseteq DOMAIN data.slotOf
  BY <1>1 DEF Covered
<1>3. \A i \in scan.steady : data.slotOf[i] \in Slot(data) /\ data.slotOf[i] \in Nat
  BY <1>1, <1>2 DEF Sound, Mapped
<1>4. CASE scan.first
  <2>1. From = 1 /\ scan.got = {}
    BY <1>1, <1>4 DEF From, Covered
  <2>2. \A s \in Slot(data) : s >= 1
    BY <1>1
  <2> QED
    BY <1>3, <2>1, <2>2
<1>5. CASE ~scan.first
  <2>1. PICK c, l : /\ scan.cursor = {c} /\ IsLast(data, c, l)
                    /\ \A i \in scan.steady : i \in scan.got <=> data.slotOf[i] <= l
    BY <1>1, <1>5 DEF Covered
  <2>2. (CHOOSE i \in scan.cursor : TRUE) = c
    BY <2>1
  <2>3. From = l + 1 /\ l \in Nat
    BY <1>1, <1>5, <2>1, <2>2, ResumeIs DEF From, IsLast
  <2>4. \A a \in Nat : a <= l <=> ~(a >= l + 1)
    BY <2>3
  <2> QED
    BY <1>3, <2>1, <2>3, <2>4
<1> QED
  BY <1>4, <1>5

(* After it, what is up to its end.                                         *)
LEMMA PageCovers ==
    ASSUME CoverInv, scan.on, ~scan.lost, NEW page, NEW rest, NEW more, IsPage(page, rest, more, Behind)
    PROVE  Covered(Scrolled(page, more), data)
<1> DEFINE ids == {data.ids[page[k]] : k \in DOMAIN page}
           z == Last(page)
           sc == Scrolled(page, more)
<1>1. /\ Sound(data) /\ Covered(scan, data) /\ scan \in Scans /\ Mapped(data)
      /\ Slot(data) \subseteq Nat /\ Behind \in SUBSET Nat /\ Behind \subseteq Live(data)
  BY SizesAre DEF CoverInv, HoldInv, Stands, Sound, Behind, Live
<1>2. From \in Nat /\ \A i \in scan.steady : i \in scan.got <=> ~(data.slotOf[i] >= From)
  BY BeforePage
<1>3. /\ more \in BOOLEAN /\ (more => z \in Behind)
      /\ \A s : (\E k \in DOMAIN page : page[k] = s) <=> s \in Behind /\ (more => s <= z)
  BY <1>1, PageHas
<1>4. /\ scan.steady \subseteq DOMAIN data.slotOf /\ scan.got \subseteq scan.steady /\ scan.again = {}
  BY <1>1 DEF Covered
<1>5. /\ sc.first = FALSE /\ sc.on = more /\ sc.done = ~more /\ sc.steady = scan.steady
      /\ sc.got = scan.got \cup (ids \cap scan.steady)
      /\ sc.again = scan.again \cup (ids \cap scan.got)
      /\ sc.cursor = IF more THEN {data.ids[z]} ELSE {}
  <2>1. PICK got, again, cur : /\ got = scan.got \cup (ids \cap scan.steady)
                               /\ again = scan.again \cup (ids \cap scan.got)
                               /\ cur = IF more THEN {data.ids[z]} ELSE {}
    OBVIOUS
  <2>2. sc = [scan EXCEPT !.first = FALSE, !.on = more, !.done = ~more,
                          !.got = got, !.again = again, !.cursor = cur]
    BY <2>1 DEF Scrolled
  <2> HIDE DEF sc, ids, z
  <2>3. /\ sc.first = FALSE /\ sc.on = more /\ sc.done = ~more /\ sc.steady = scan.steady
        /\ sc.got = got /\ sc.again = again /\ sc.cursor = cur
    BY <1>1, <2>2 DEF Scans
  <2> QED
    BY <2>1, <2>3
<1> HIDE DEF sc, z
<1>6. ASSUME NEW i \in scan.steady
      PROVE  i \in ids <=> data.slotOf[i] >= From /\ (more => data.slotOf[i] <= z)
  <2>1. i \in DOMAIN data.slotOf /\ data.slotOf[i] \in Live(data) /\ data.ids[data.slotOf[i]] = i
    BY <1>1, <1>4, LiveIs DEF Mapped
  <2>2. \A s \in Live(data) : data.ids[s] = i => data.slotOf[i] = s
    BY <1>1, LiveIs
  <2>3. i \in ids <=> \E k \in DOMAIN page : page[k] = data.slotOf[i]
    <3>1. ASSUME NEW k \in DOMAIN page, data.ids[page[k]] = i
          PROVE  page[k] = data.slotOf[i]
      <4>1. page[k] \in Behind
        BY <1>3
      <4> QED
        BY <1>1, <2>2, <3>1, <4>1
    <3> QED
      BY <2>1, <3>1
  <2>4. data.slotOf[i] \in Behind <=> data.slotOf[i] >= From
    BY <2>1 DEF Behind
  <2> QED
    BY <1>3, <2>3, <2>4
<1> HIDE DEF ids
<1>7. sc.again = {}
  BY <1>2, <1>4, <1>5, <1>6
<1>8. CASE ~more
  <2>1. sc.got = sc.steady /\ ~sc.on
    BY <1>2, <1>4, <1>5, <1>6, <1>8
  <2>2. Covered(sc, data)
    BY ONLY <1>7, <2>1 DEF Covered
  <2> QED
    BY <2>2 DEF sc
<1>9. CASE more
  <2> DEFINE c == data.ids[z]
  <2>1. z \in Behind /\ z \in Live(data) /\ z \in Nat /\ z >= From
    BY <1>1, <1>3, <1>9 DEF Behind
  <2>2. c \in DOMAIN data.slotOf /\ data.slotOf[c] = z /\ c \in Id
    BY <1>1, <2>1, LiveIs, SizesAre DEF Sound
  <2>3. IsLast(data, c, z)
    BY <1>1, <2>2 DEF Mapped, IsLast
  <2>4. ASSUME NEW i \in scan.steady
        PROVE  i \in sc.got <=> data.slotOf[i] <= z
    <3>1. PICK a : a = data.slotOf[i] /\ a \in Nat
      BY <1>1, <1>4 DEF Mapped
    <3>2. i \in sc.got <=> ~(a >= From) \/ (a >= From /\ a <= z)
      BY <1>2, <1>4, <1>5, <1>6, <1>9, <3>1
    <3>3. z >= From /\ z \in Nat /\ From \in Nat /\ a \in Nat
      BY <1>2, <2>1, <3>1
    <3>4. (~(a >= From) \/ (a >= From /\ a <= z)) <=> a <= z
      BY ONLY <3>3
    <3> QED
      BY <3>1, <3>2, <3>4
  <2>5. sc.got \subseteq sc.steady /\ sc.on /\ ~sc.done /\ ~sc.first /\ sc.cursor = {c}
    BY <1>4, <1>5, <1>9
  <2> HIDE DEF c
  <2>6. \E x \in Id : \E l : /\ sc.cursor = {x} /\ IsLast(data, x, l)
                             /\ \A i \in sc.steady : i \in sc.got <=> data.slotOf[i] <= l
    BY <1>5, <2>2, <2>3, <2>4, <2>5
  <2>7. sc.steady \subseteq DOMAIN data.slotOf
    BY <1>4, <1>5
  <2>8. Covered(sc, data)
    BY ONLY <1>7, <2>5, <2>6, <2>7 DEF Covered
  <2> QED
    BY <2>8 DEF sc
<1> QED
  BY <1>3, <1>8, <1>9

(* Every step keeps that.                                                   *)
LEMMA CoverNext == CoverInv /\ [Next]_vars => CoverInv'
<1> SUFFICES ASSUME CoverInv, [Next]_vars PROVE CoverInv'
  OBVIOUS
<1>0. HoldInv' /\ Sound(data) /\ scan \in Scans /\ (~scan.lost => Covered(scan, data)) /\ Mapped(data)
  BY HoldNext DEF CoverInv, HoldInv, Stands, Sound
<1>1. ASSUME NEW batch \in Batches, UpsertBatch(batch)
      PROVE  ~scan'.lost => Covered(scan', data')
  <2>1. PICK n : IsUpsert(data', data, batch, n)
                 /\ {batch[k][1] : k \in DOMAIN batch} = WrittenIn(batch, n)
    BY <1>0, <1>1, UpsertStep
  <2>2. Touch(WrittenIn(batch, n), WrittenIn(batch, n))
    BY <1>1, <2>1 DEF UpsertBatch
  <2>4. DOMAIN data.slotOf \ WrittenIn(batch, n) \subseteq DOMAIN data'.slotOf
    BY <2>1 DEF IsUpsert, Wrote
  <2>5. \A c \in Id \ WrittenIn(batch, n) : Follows(data', data, WrittenIn(batch, n), c)
    BY <1>0, <2>1, UpsertFollows
  <2> QED
    BY <1>0, <2>2, <2>4, <2>5, TouchCovers
<1>2. ASSUME NEW S \in SUBSET Id, DeleteBatch(S)
      PROVE  ~scan'.lost => Covered(scan', data')
  <2>1. Cut(data', data, S) /\ Touch(S, {})
    BY <1>0, <1>2, DeleteStep DEF DeleteBatch
  <2>2. /\ data'.ids = data.ids /\ DOMAIN data.slotOf \ S \subseteq DOMAIN data'.slotOf
        /\ \A i \in DOMAIN data.slotOf \ S : data'.slotOf[i] = data.slotOf[i]
    BY <2>1 DEF Cut
  <2>3. \A c \in Id : Follows(data', data, S, c)
    BY <2>2, StayFollows
  <2> QED
    BY <1>0, <2>1, <2>2, <2>3, TouchCovers
<1>3. ASSUME Untouched(data', data), Touch({}, {})
      PROVE  ~scan'.lost => Covered(scan', data')
  <2>1. data'.ids = data.ids /\ data'.slotOf = data.slotOf
    BY <1>3 DEF Untouched
  <2>2. \A c \in Id : Follows(data', data, {}, c)
    BY <2>1, StayFollows
  <2>3. DOMAIN data.slotOf \ {} \subseteq DOMAIN data'.slotOf
    BY <2>1
  <2> QED
    BY <1>0, <1>3, <2>2, <2>3, TouchCovers
<1>4. ASSUME Renumbered(data', data), Touch({}, Dangling)
      PROVE  ~scan'.lost => Covered(scan', data')
  <2>1. ASSUME NEW c \in Id \ Dangling
        PROVE  Follows(data', data, {}, c)
    <3>1. c \in DOMAIN data.slotOf
      BY DEF Dangling
    <3> QED
      BY <1>0, <1>4, <3>1, RenumberedFollows
  <2>2. DOMAIN data.slotOf \ {} \subseteq DOMAIN data'.slotOf
    BY <1>4 DEF Renumbered
  <2> QED
    BY <1>0, <1>4, <2>1, <2>2, TouchCovers
<1>5. ASSUME NEW x \in Indexable, CreatePayloadIndex(x[1], x[2])
      PROVE  ~scan'.lost => Covered(scan', data')
  <2>1. Untouched(data', data)
    BY <1>0, <1>5, OtherStep
  <2> QED
    BY <1>3, <1>5, <2>1 DEF CreatePayloadIndex
<1>6. CASE Reindex
  <2>1. Untouched(data', data)
    BY <1>0, <1>6, OtherStep
  <2>2. ~scan'.lost => Covered(scan', data')
    BY <1>3, <1>6, <2>1 DEF Reindex
  <2> QED
    BY <1>0, <2>2 DEF CoverInv
<1>7. CASE Compact \/ Reopen
  <2>1. Renumbered(data', data)
    BY <1>0, <1>7, OtherStep
  <2>2. ~scan'.lost => Covered(scan', data')
    BY <1>4, <1>7, <2>1 DEF Compact, Reopen
  <2> QED
    BY <1>0, <2>2 DEF CoverInv
<1>8. CASE StartScan
  <2>1. data' = data /\ scan' = [NoScan EXCEPT !.on = TRUE, !.steady = DOMAIN data.slotOf]
    BY <1>8 DEF StartScan
  <2>2. /\ scan'.again = {} /\ scan'.on /\ ~scan'.done /\ scan'.first /\ scan'.got = {}
        /\ scan'.cursor = {} /\ scan'.steady = DOMAIN data.slotOf
    BY <2>1 DEF NoScan
  <2>3. Covered(scan', data')
    BY <2>1, <2>2 DEF Covered
  <2> QED
    BY <1>0, <2>3 DEF CoverInv
<1>9. CASE ScrollPage
  <2>1. data' = data /\ scan.on
    BY <1>9 DEF ScrollPage
  <2>2. PICK page, rest, more : IsPage(page, rest, more, Behind) /\ scan' = Scrolled(page, more)
    BY <1>0, <1>9, PageStep
  <2>3. ~scan.lost => Covered(Scrolled(page, more), data)
    BY <2>1, <2>2, PageCovers
  <2>4. ~scan'.lost => Covered(scan', data')
    <3>1. scan'.lost = scan.lost
      BY <1>0, <1>9 DEF ScrollPage, Scans
    <3> QED
      BY <2>1, <2>2, <2>3, <3>1
  <2> QED
    BY <1>0, <2>4 DEF CoverInv
<1>10. CASE UNCHANGED vars
  BY <1>0, <1>10 DEF vars, CoverInv
<1>11. ASSUME NEW batch \in Batches, UpsertBatch(batch) PROVE CoverInv'
  BY <1>0, <1>1, <1>11 DEF CoverInv
<1>12. ASSUME NEW S \in SUBSET Id, DeleteBatch(S) PROVE CoverInv'
  BY <1>0, <1>2, <1>12 DEF CoverInv
<1>13. ASSUME NEW x \in Indexable, CreatePayloadIndex(x[1], x[2]) PROVE CoverInv'
  BY <1>0, <1>5, <1>13 DEF CoverInv
<1> QED
  BY <1>6, <1>7, <1>8, <1>9, <1>10, <1>11, <1>12, <1>13 DEF Next

(* API-022: a scan covers every live vector once.  Of the points that were  *)
(* there when it began and that nobody wrote, a finished scan has returned  *)
(* all, and no page returned one a second time, whatever happens to other   *)
(* points, the graph and the indexes between its pages, compactions         *)
(* included, unless its cursor was upserted, or deleted and compacted away. *)
THEOREM ScanCovers == Spec => []ScanCoversOnce
<1>1. Init => CoverInv
  <2>1. Init => Covered(scan, data)
    BY DEF Init, NoScan, Covered
  <2> QED
    BY <2>1, HoldStart DEF CoverInv
<1>2. CoverInv => ScanCoversOnce
  BY DEF CoverInv, Covered, ScanCoversOnce
<1> QED
  BY <1>1, <1>2, CoverNext, PTL DEF Spec

-----------------------------------------------------------------------------
(* Searches.  The best of a set in an order.                                *)

(* The lesser of two numbers.                                               *)
LEMMA LeastIs ==
    ASSUME NEW a \in Nat, NEW b \in Nat
    PROVE  /\ Least(a, b) \in Nat /\ Least(a, b) <= a /\ Least(a, b) <= b
           /\ Least(a, b) = a \/ Least(a, b) = b
  BY DEF Least

(* All elements in order, each once.                                        *)
LEMMA SortedSeq ==
    ASSUME NEW S, IsFiniteSet(S), NEW R, IsOrder(S, R)
    PROVE  /\ Sorted(S, R) \in Seq(S) /\ Len(Sorted(S, R)) = Cardinality(S)
           /\ Cardinality(S) \in Nat
           /\ IsInjective(Sorted(S, R)) /\ Range(Sorted(S, R)) = S
<1> DEFINE n == Cardinality(S)
           q == Sorted(S, R)
<1>1. /\ n \in Nat /\ q \in [1..n -> S] /\ {q[k] : k \in 1..n} = S
      /\ \A j, k \in 1..n : q[j] = q[k] => j = k
  BY SortedIs
<1> HIDE DEF n, q
<1>2. q \in Seq(S) /\ Len(q) = n /\ DOMAIN q = 1..n
  BY <1>1
<1>3. IsInjective(q) /\ Range(q) = S
  BY <1>1, <1>2 DEF IsInjective, Range
<1> QED
  BY <1>1, <1>2, <1>3 DEF n, q

(* The first n of a sequence, or all.                                       *)
LEMMA FirstIs ==
    ASSUME NEW S, NEW q \in Seq(S), IsInjective(q), NEW n \in Nat
    PROVE  /\ First(q, n) \in Seq(S) /\ Len(First(q, n)) = Least(n, Len(q))
           /\ IsInjective(First(q, n)) /\ Range(First(q, n)) \subseteq Range(q)
<1> DEFINE m == Least(n, Len(q))
<1>0. Len(q) \in Nat
  OBVIOUS
<1>1. m \in Nat /\ m <= Len(q)
  BY <1>0, LeastIs
<1> HIDE DEF m
<1>2. SubSeq(q, 1, m) = [k \in 1..m |-> q[k]]
  BY <1>1
<1>3. \A k \in 1..m : k \in 1..Len(q) /\ k \in DOMAIN q /\ q[k] \in S
  BY <1>1
<1> DEFINE a == [k \in 1..m |-> q[k]]
<1>4. a \in [1..m -> S] /\ DOMAIN a = 1..m
  BY <1>3
<1>5. IsInjective(a)
  BY <1>3 DEF IsInjective
<1>6. Range(a) \subseteq Range(q)
  BY <1>3 DEF Range
<1>7. First(q, n) = a
  BY <1>2 DEF First, m
<1> HIDE DEF a
<1>8. a \in Seq(S) /\ Len(a) = m
  BY <1>1, <1>4
<1> QED
  BY <1>5, <1>6, <1>7, <1>8 DEF m

(* Sequence a has the n best of S, or all of S, each once.                  *)
IsBest(a, S, n) ==
    /\ a \in Seq(S) /\ Len(a) = Least(n, Cardinality(S))
    /\ IsInjective(a) /\ Range(a) \subseteq S

(* Sorting and cutting yields that.                                         *)
LEMMA BestIs ==
    ASSUME NEW S, IsFiniteSet(S), NEW R, IsOrder(S, R), NEW n \in Nat
    PROVE  IsBest(First(Sorted(S, R), n), S, n)
<1> DEFINE q == Sorted(S, R)
<1>1. q \in Seq(S) /\ Len(q) = Cardinality(S) /\ IsInjective(q) /\ Range(q) = S
  BY SortedSeq
<1> HIDE DEF q
<1>2. /\ First(q, n) \in Seq(S) /\ Len(First(q, n)) = Least(n, Len(q))
      /\ IsInjective(First(q, n)) /\ Range(First(q, n)) \subseteq Range(q)
  BY <1>1, FirstIs
<1> QED
  BY <1>1, <1>2 DEF IsBest, q

(* An order orders subsets.                                                 *)
LEMMA OrderWithin ==
    ASSUME NEW S, NEW R, IsOrder(S, R), NEW T \in SUBSET S
    PROVE  IsOrder(T, R)
  BY DEF IsOrder

-----------------------------------------------------------------------------
(* The dense lane.                                                          *)

(* Vectors are scores.                                                      *)
LEMMA ScoresAre ==
    ASSUME NEW d, Sound(d)
    PROVE  \A s \in Slot(d) : VectorAt(d, s) \in Int /\ s \in Nat
<1>1. \A v \in Vecs : v \in Int
  BY SearchAssumption DEF SearchAssumption, Vecs
<1>2. \A s \in Slot(d) : VectorAt(d, s) \in Vecs /\ s \in Nat
  BY SizesAre DEF Sound
<1> QED
  BY <1>1, <1>2

(* By score, then by slot, is an order.                                     *)
LEMMA BetterOrders ==
    ASSUME NEW d, Sound(d)
    PROVE  IsOrder(Slot(d), Better(d)) /\ IsFiniteSet(Slot(d))
<1>1. \A s \in Slot(d) : VectorAt(d, s) \in Int /\ s \in Nat
  BY ScoresAre
<1>2. \A s, t \in Slot(d) : <<s, t>> \in Better(d) <=>
         \/ VectorAt(d, s) > VectorAt(d, t)
         \/ VectorAt(d, s) = VectorAt(d, t) /\ s < t
  BY DEF Better
<1>3. \A s \in Slot(d) : <<s, s>> \notin Better(d)
  BY <1>1, <1>2
<1>4. \A s, t \in Slot(d) : s # t => <<s, t>> \in Better(d) \/ <<t, s>> \in Better(d)
  BY <1>1, <1>2
<1>5. \A r, s, t \in Slot(d) : <<r, s>> \in Better(d) /\ <<s, t>> \in Better(d) => <<r, t>> \in Better(d)
  BY <1>1, <1>2
<1>6. IsFiniteSet(Slot(d))
  <2>1. Len(d.ids) \in Nat
    BY SizesAre DEF Sound
  <2> QED
    BY <2>1, FS_Interval DEF Slot
<1> QED
  BY <1>3, <1>4, <1>5, <1>6 DEF IsOrder

(* Slots ranked by score and cut.                                           *)
LEMMA ByScoreIs ==
    ASSUME NEW d, Sound(d), NEW S \in SUBSET Slot(d), NEW n \in Nat
    PROVE  IsBest(First(ByScore(d, S), n), S, n) /\ Cardinality(S) \in Nat /\ IsFiniteSet(S)
<1>1. IsOrder(Slot(d), Better(d)) /\ IsFiniteSet(Slot(d))
  BY BetterOrders
<1>2. IsOrder(S, Better(d)) /\ IsFiniteSet(S)
  BY <1>1, OrderWithin, FS_Subset
<1>3. Cardinality(S) \in Nat
  BY <1>2, FS_CardinalityType
<1> QED
  BY <1>2, <1>3, BestIs DEF ByScore

(* A search without a filter fills its limit.                               *)
LEMMA UnfilteredFills ==
    ASSUME NEW d, Sound(d), NEW limit \in Nat, NEW a \in Unfiltered(d, limit)
    PROVE  IsBest(a, Live(d), limit)
<1> DEFINE L == Live(d)
           exact == First(ByScore(d, L), limit)
           lives(found) == First(ByScore(d, found \cap L), limit)
<1>1. L \in SUBSET Slot(d)
  BY DEF Live
<1>2. IsBest(exact, L, limit) /\ Cardinality(L) \in Nat /\ IsFiniteSet(L)
  BY <1>1, ByScoreIs
<1>3. ASSUME NEW found, ~(Len(lives(found)) < Least(limit, Cardinality(L)))
      PROVE  IsBest(lives(found), L, limit)
  <2> DEFINE T == found \cap L
             b == lives(found)
  <2>1. IsBest(First(ByScore(d, T), limit), T, limit) /\ Cardinality(T) \in Nat
    BY <1>1, ByScoreIs
  <2>2. Cardinality(T) <= Cardinality(L)
    BY <1>2, FS_Subset
  <2>3. ~(Len(b) < Least(limit, Cardinality(L))) /\ IsBest(b, T, limit) /\ T \subseteq L
    BY <1>3, <2>1
  <2> HIDE DEF T, b, L
  <2>4. Len(b) = Least(limit, Cardinality(L))
    BY <1>2, <2>1, <2>2, <2>3 DEF IsBest, Least
  <2>5. b \in Seq(L) /\ Range(b) \subseteq L /\ IsInjective(b)
    BY <2>3 DEF IsBest
  <2> QED
    BY <2>4, <2>5 DEF IsBest, b, L
<1>4. \/ a = exact
      \/ \E found : a = IF Len(lives(found)) < Least(limit, Cardinality(L)) THEN exact ELSE lives(found)
  BY DEF Unfiltered
<1> HIDE DEF L, exact, lives
<1> QED
  BY <1>2, <1>3, <1>4 DEF L

(* A collection may have payload indexes from the start.                    *)
LEMMA SearchStart == SearchInit => HoldInv
<1> SUFFICES ASSUME SearchInit PROVE HoldInv
  OBVIOUS
<1> DEFINE K == {x[1] : x \in Indexable}
           kind(k) == (CHOOSE x \in Indexable : x[1] = k)[2]
           given == [k \in K |-> [kind |-> kind(k)]]
           X == [k \in K |-> [kind |-> kind(k), posts |-> {}]]
<1>1. \A k \in K : IsDeclared(k, kind(k)) /\ kind(k) \in Kinds
  <2> SUFFICES ASSUME NEW k \in K PROVE IsDeclared(k, kind(k)) /\ kind(k) \in Kinds
    OBVIOUS
  <2>1. \E x \in Indexable : x[1] = k
    OBVIOUS
  <2> DEFINE c == CHOOSE x \in Indexable : x[1] = k
  <2>2. c \in Indexable /\ c[1] = k
    BY <2>1
  <2>3. kind(k) = c[2]
    OBVIOUS
  <2> HIDE DEF c
  <2>4. c[2] \in Kinds
    BY <2>2, SlotsAssumption DEF SlotsAssumption, Kinds
  <2> HIDE DEF kind
  <2> QED
    BY <2>2, <2>3, <2>4 DEF IsDeclared
<1>2. data = NoPoints(given) /\ points = <<>> /\ scan = NoScan
  BY DEF SearchInit
<1> HIDE DEF kind
<1>3. NoPoints(given) = NoPoints(X)
  <2>1. DOMAIN given = K /\ DOMAIN X = K /\ \A k \in K : given[k].kind = X[k].kind
    OBVIOUS
  <2> HIDE DEF given, X
  <2>2. EmptyIndexes(given) = EmptyIndexes(X)
    BY <2>1 DEF EmptyIndexes
  <2> QED
    BY <2>2 DEF NoPoints, EmptyIndexes
<1>4. X \in Indexes
  <2>1. \A k \in K : X[k] \in [kind : Kinds, posts : SUBSET (Terms \X Nat)] /\ X[k].kind = kind(k)
    BY <1>1
  <2>2. K \in SUBSET Keys /\ DOMAIN X = K /\ X \in [K -> [kind : Kinds, posts : SUBSET (Terms \X Nat)]]
    BY <2>1 DEF Keys
  <2> HIDE DEF K, X
  <2> QED
    BY <1>1, <2>1, <2>2 DEF Indexes, Shapes
<1> HIDE DEF X, given
<1>5. Sound(data) /\ DOMAIN data.slotOf = {}
  BY <1>2, <1>3, <1>4, NoPointsSound
<1>6. DOMAIN points = {} /\ points = [i \in DOMAIN points |-> points[i]]
  BY <1>2
<1>7. Stands(data, points)
  BY <1>5, <1>6 DEF Stands
<1>8. scan \in Scans /\ OneCursor(scan)
  BY <1>2 DEF NoScan, Scans, OneCursor
<1> QED
  BY <1>7, <1>8 DEF HoldInv

(* The writers are those of Slots, and a query writes nothing.              *)
LEMMA SearchStays == HoldInv /\ [SearchNext]_<<vars, query>> => HoldInv'
<1> SUFFICES ASSUME HoldInv, [SearchNext]_<<vars, query>> PROVE [Next]_vars
  BY HoldNext
<1>1. ASSUME NEW i \in Id, NEW p \in Point, UpsertBatch(<< <<i, p>> >>) PROVE Next
  <2>1. << <<i, p>> >> \in Batches
    <3>1. << <<i, p>> >> \in [1..1 -> Id \X Point] /\ 1 \in 1..2
      OBVIOUS
    <3> QED
      BY <3>1 DEF Batches
  <2> QED
    BY <1>1, <2>1 DEF Next
<1>2. ASSUME NEW i \in DOMAIN data.slotOf, DeleteBatch({i}) PROVE Next
  <2>1. i \in Id
    BY SizesAre DEF HoldInv, Stands, Sound
  <2>2. {i} \in SUBSET Id
    BY <2>1
  <2> QED
    BY <1>2, <2>2 DEF Next
<1>3. Compact \/ Reindex => Next
  BY DEF Next
<1>4. RankSparse \/ ProjectSparse \/ RankDense \/ RankSparseLane \/ Fuse => UNCHANGED vars
  BY DEF RankSparse, ProjectSparse, RankDense, RankSparseLane, Fuse
<1> QED
  BY <1>1, <1>2, <1>3, <1>4 DEF SearchNext

LEMMA SearchHolding == SearchSpec => []HoldInv
  BY SearchStart, SearchStays, PTL DEF SearchSpec

(* The slots of the graph's nodes.                                          *)
Nodes(d) == {x[1] : x \in d.graph}

(* A graph that returns all it was asked for returns enough live points: it *)
(* has all of them and no more dead ones than there are tombstones.         *)
LEMMA FetchEnough ==
    ASSUME Sound(data), data.index, NEW limit \in Nat,
           NEW found \in GraphFinds(data, Fetch(data, limit)),
           Cardinality(found) >= Least(Fetch(data, limit), Cardinality(Nodes(data)))
    PROVE  Cardinality(found \cap Live(data)) >= Least(limit, Cardinality(Live(data)))
<1> DEFINE N == Nodes(data)
           L == Live(data)
           D == data.dead
<1>1. L \subseteq N /\ IsFiniteSet(N) /\ IsFiniteSet(D) /\ N \ L \subseteq D
  <2>1. /\ N \subseteq Slot(data) /\ L \subseteq Slot(data) /\ D = Slot(data) \ L
        /\ \A s \in L : <<s, VectorAt(data, s)>> \in data.graph
    BY DEF Sound, Graphed, Entombed, Live, Nodes
  <2>2. IsFiniteSet(Slot(data))
    BY SizesAre, FS_Interval DEF Sound, Slot
  <2>3. \A s \in L : <<s, VectorAt(data, s)>>[1] \in N
    BY <2>1 DEF Nodes
  <2> HIDE DEF N, L, D
  <2> QED
    BY <2>1, <2>2, <2>3, FS_Subset
<1>2. found \subseteq N
  BY DEF GraphFinds, Nodes
<1>3. Cardinality(found) >= Least(limit + Cardinality(D), Cardinality(N))
  BY DEF Fetch
<1> HIDE DEF N, L, D
<1>4. /\ IsFiniteSet(L) /\ IsFiniteSet(found) /\ IsFiniteSet(N \ L) /\ IsFiniteSet(found \cap L)
      /\ IsFiniteSet(found \ L)
  BY <1>1, <1>2, FS_Subset
<1>5. /\ Cardinality(L) \in Nat /\ Cardinality(found) \in Nat /\ Cardinality(D) \in Nat
      /\ Cardinality(N \ L) \in Nat /\ Cardinality(found \cap L) \in Nat
      /\ Cardinality(found \ L) \in Nat /\ Cardinality(N) \in Nat
  BY <1>1, <1>4, FS_CardinalityType
<1>6. Cardinality(N \ L) = Cardinality(N) - Cardinality(L) /\ Cardinality(N \ L) <= Cardinality(D)
  <2>1. N \cap L = L
    BY <1>1
  <2> QED
    BY <1>1, <2>1, FS_Difference, FS_Subset
<1>7. Cardinality(found \ L) <= Cardinality(N \ L)
  <2>1. found \ L \subseteq N \ L
    BY <1>2
  <2> QED
    BY <1>4, <2>1, FS_Subset
<1>8. Cardinality(found \ L) = Cardinality(found) - Cardinality(found \cap L)
  BY <1>4, FS_Difference
<1>9. Cardinality(found \cap L) >= Least(limit, Cardinality(L))
  BY <1>1, <1>3, <1>5, <1>6, <1>7, <1>8 DEF Least
<1> QED
  BY <1>9 DEF L

(* CORE-035: the graph may find any of its nodes and may be full of         *)
(* tombstones; a search without a filter returns as many live points as it  *)
(* was asked for, or all there are, each once; and it takes the scan for    *)
(* that only where the graph returned fewer nodes than it was asked for     *)
(* (execute_query).                                                         *)
THEOREM SearchFills == SearchSpec => []SearchFillsLimit
<1>1. HoldInv => SearchFillsLimit
  <2> SUFFICES ASSUME HoldInv, NEW limit \in Limits
               PROVE  /\ \A a \in Unfiltered(data, limit) :
                            /\ Len(a) = Least(limit, Cardinality(Live(data)))
                            /\ IsInjective(a) /\ Range(a) \subseteq Live(data)
                      /\ data.index =>
                         \A found \in GraphFinds(data, Fetch(data, limit)) :
                            Cardinality(found) >= Least(Fetch(data, limit), Cardinality(Nodes(data))) =>
                               Cardinality(found \cap Live(data)) >= Least(limit, Cardinality(Live(data)))
    BY DEF SearchFillsLimit, Nodes
  <2>1. Sound(data)
    BY DEF HoldInv, Stands
  <2>2. limit \in Nat
    BY SearchAssumption DEF SearchAssumption
  <2>3. \A a \in Unfiltered(data, limit) : IsBest(a, Live(data), limit)
    BY <2>1, <2>2, UnfilteredFills
  <2> QED
    BY <2>1, <2>2, <2>3, FetchEnough DEF IsBest
<1> QED
  BY <1>1, SearchHolding, PTL

-----------------------------------------------------------------------------
(* The planner.                                                             *)

(* Stored values are of the kind of the index on their key, f64 can tell    *)
(* the integers among them and those asked for apart, and no value asked    *)
(* for is a float (MatchValue has none).                                    *)
Exact(n) == AsFloat(n) = n
ValueFits(kind, v) ==
    /\ kind = "keyword" => v.t = "str"
    /\ kind = "integer" => v.t = "int" /\ Exact(v.v)
    /\ kind = "float" => IsNumber(v)
AskedFits(m) == m.t # "float" /\ (m.t = "int" => Exact(m.v))
Conforming ==
    /\ \A p \in Point, x \in Indexable : HasKey(p.pay, x[1]) => ValueFits(x[2], p.pay[x[1]])
    /\ \A f \in Filters : \A c \in f.must :
          /\ c.op = "eq" => AskedFits(c.value)
          /\ c.op = "in" => \A m \in c.values : AskedFits(m)

(* Then what an index answers has every slot that matches.                  *)
LEMMA EqFinds ==
    ASSUME NEW idx, idx.kind \in Kinds, NEW v, ValueFits(idx.kind, v), NEW m, AskedFits(m),
           NEW s, \A q \in PostingKeys(idx.kind, v) : <<q, s>> \in idx.posts,
           MatchesStored(m, v)
    PROVE  s \in EqBitmap(idx, m)
<1>0. \A q : <<q, s>> \in idx.posts => s \in SlotsOf(idx, {q})
  BY DEF SlotsOf
<1>1. CASE idx.kind = "keyword"
  <2>1. v.t = "str" /\ PostingKeys(idx.kind, v) = {v.v}
    BY <1>1 DEF ValueFits, PostingKeys
  <2>2. m.t = "str" /\ m.v = v.v
    BY <2>1 DEF MatchesStored, IsNumber
  <2>3. EqBitmap(idx, m) = SlotsOf(idx, {m.v})
    BY <1>1, <2>2 DEF EqBitmap
  <2> QED
    BY <1>0, <2>1, <2>2, <2>3
<1>2. CASE idx.kind = "integer"
  <2>1. v.t = "int" /\ Exact(v.v) /\ PostingKeys(idx.kind, v) = {v.v}
    BY <1>2 DEF ValueFits, PostingKeys
  <2>2. m.t = "int" /\ m.v = v.v
    BY <2>1 DEF MatchesStored, F64, Exact, AskedFits
  <2>3. EqBitmap(idx, m) = SlotsOf(idx, {m.v})
    BY <1>2, <2>2 DEF EqBitmap
  <2> QED
    BY <1>0, <2>1, <2>2, <2>3
<1>3. CASE idx.kind = "float"
  <2>1. IsNumber(v) /\ PostingKeys(idx.kind, v) = {F64(v)}
    BY <1>3 DEF ValueFits, PostingKeys
  <2>2. m.t = "int" /\ AsFloat(m.v) = F64(v)
    BY <2>1 DEF MatchesStored, F64, IsNumber, AskedFits
  <2>3. EqBitmap(idx, m) = SlotsOf(idx, {AsFloat(m.v)})
    BY <1>3, <2>2 DEF EqBitmap
  <2> QED
    BY <1>0, <2>1, <2>2, <2>3
<1> QED
  BY <1>1, <1>2, <1>3 DEF Kinds

LEMMA AnswerFinds ==
    ASSUME NEW ixs, NEW f \in Filters, NEW c \in f.must, Conforming, Answerable(ixs, c),
           ixs[c.key].kind \in Kinds, NEW pay, LeafMatches(c, pay),
           ValueFits(ixs[c.key].kind, pay[c.key]),
           NEW s, PostsOf(ixs[c.key], c.key, s, pay) \subseteq ixs[c.key].posts
    PROVE  s \in Answer(ixs, c)
<1> DEFINE idx == ixs[c.key]
           v == pay[c.key]
<1>1. \A q \in PostingKeys(idx.kind, v) : <<q, s>> \in idx.posts
  BY DEF LeafMatches, PostsOf
<1>2. ValueFits(idx.kind, v) /\ idx.kind \in Kinds
  OBVIOUS
<1>3. \E q \in PostingKeys(idx.kind, v) : TRUE
  BY <1>2 DEF PostingKeys, ValueFits, Kinds
<1>4. \A q, S : q \in S /\ <<q, s>> \in idx.posts => s \in SlotsOf(idx, S)
  BY DEF SlotsOf
<1>5. \A q : <<q, s>> \in idx.posts => q \in KeysIn(idx)
  BY DEF KeysIn
<1>6. /\ c.op = "eq" => AskedFits(c.value)
      /\ c.op = "in" => \A m \in c.values : AskedFits(m)
  BY DEF Conforming
<1>a. /\ \/ c.op = "eq" /\ MatchesStored(c.value, v)
         \/ c.op = "in" /\ \E m \in c.values : MatchesStored(m, v)
         \/ c.op = "range" /\ IsNumber(v) /\ InRange(c.range, F64(v))
         \/ c.op = "exists"
      /\ c.op = "range" => idx.kind # "keyword"
  BY DEF LeafMatches, Answerable
<1>b. /\ c.op = "eq" => Answer(ixs, c) = EqBitmap(idx, c.value)
      /\ c.op = "in" => Answer(ixs, c) = UNION {EqBitmap(idx, m) : m \in c.values}
      /\ c.op = "range" => Answer(ixs, c) = RangeBitmap(idx, c.range)
      /\ c.op = "exists" => Answer(ixs, c) = SlotsOf(idx, KeysIn(idx))
  BY DEF Answer
<1> HIDE DEF idx, v
<1>7. CASE c.op = "eq"
  <2>1. MatchesStored(c.value, v)
    BY <1>7, <1>a
  <2>2. s \in EqBitmap(idx, c.value)
    BY <1>1, <1>2, <1>6, <1>7, <2>1, EqFinds
  <2> QED
    BY <1>7, <1>b, <2>2
<1>8. CASE c.op = "in"
  <2>1. PICK m \in c.values : MatchesStored(m, v)
    BY <1>8, <1>a
  <2>2. s \in EqBitmap(idx, m)
    BY <1>1, <1>2, <1>6, <1>8, <2>1, EqFinds
  <2> QED
    BY <1>8, <1>b, <2>2
<1>9. CASE c.op = "range"
  <2> DEFINE K == {k \in KeysIn(idx) : InRange(c.range, IF idx.kind = "integer" THEN AsFloat(k) ELSE k)}
  <2>1. InRange(c.range, F64(v)) /\ idx.kind # "keyword"
    BY <1>9, <1>a
  <2>2. PICK q : q \in PostingKeys(idx.kind, v) /\ F64(v) = IF idx.kind = "integer" THEN AsFloat(q) ELSE q
    BY <1>2, <2>1 DEF PostingKeys, ValueFits, Kinds, F64
  <2>3. q \in K
    BY <1>1, <1>5, <2>1, <2>2
  <2>4. s \in SlotsOf(idx, K)
    <3> HIDE DEF K
    <3> QED
      BY <1>1, <1>4, <2>2, <2>3
  <2> QED
    BY <1>9, <1>b, <2>4 DEF RangeBitmap
<1>10. CASE c.op = "exists"
  <2>1. s \in SlotsOf(idx, KeysIn(idx))
    BY <1>1, <1>3, <1>4, <1>5
  <2> QED
    BY <1>10, <1>b, <2>1
<1> QED
  BY <1>7, <1>8, <1>9, <1>10, <1>a

(* So no selected slot is missing from the candidates.                      *)
LEMMA CandidatesHave ==
    ASSUME Conforming, NEW d, Sound(d), NEW f \in Filters, Answered(d.indexes, f) # {},
           NEW s \in Selected(d, f)
    PROVE  s \in Candidates(d.indexes, f)
<1> DEFINE ixs == d.indexes
           pay == d.pays[s]
<1>1. s \in Live(d) /\ Matches(f, pay)
  BY DEF Selected
<1>2. PICK p \in Point : p.pay = pay
  <2>1. Mapped(d)
    BY DEF Sound
  <2>2. d.ids[s] \in DOMAIN d.slotOf /\ d.slotOf[d.ids[s]] = s
    BY <1>1, <2>1, LiveIs
  <2>3. PointAt(d, s) \in Point
    BY <2>1, <2>2 DEF Mapped
  <2> QED
    BY <2>3 DEF PointAt
<1>3. ASSUME NEW c \in Answered(ixs, f)
      PROVE  s \in Answer(ixs, c)
  <2>1. c \in f.must /\ Answerable(ixs, c) /\ c.op # "nested" /\ c.key \in DOMAIN ixs
    BY <1>3 DEF Answered, Answerable
  <2>2. LeafMatches(c, pay)
    BY <1>1, <2>1 DEF Matches, Clauses
  <2>3. ixs \in Indexes /\ PostedOf(d, Live(d))
    BY DataIs DEF Sound, Typed
  <2>4. IsDeclared(c.key, ixs[c.key].kind) /\ ixs[c.key].kind \in Kinds
    BY <2>1, <2>3, IndexIs DEF Indexes
  <2>5. PICK x \in Indexable : x[1] = c.key /\ x[2] = ixs[c.key].kind
    BY <2>4 DEF IsDeclared
  <2>6. HasKey(pay, c.key)
    BY <2>2 DEF LeafMatches
  <2>7. ValueFits(ixs[c.key].kind, pay[c.key])
    BY <1>2, <2>5, <2>6 DEF Conforming
  <2>8. PostsOf(ixs[c.key], c.key, s, pay) \subseteq ixs[c.key].posts
    BY <1>1, <2>1, <2>3 DEF PostedOf
  <2> HIDE DEF ixs, pay
  <2> QED
    BY <2>1, <2>2, <2>4, <2>7, <2>8, AnswerFinds
<1>4. PICK c : c \in Answered(ixs, f)
  OBVIOUS
<1>5. s \in UNION {Answer(ixs, b) : b \in Answered(ixs, f)}
  BY <1>3, <1>4
<1> QED
  BY <1>3, <1>5 DEF Candidates

(* What the planner may answer: points that are selected, and as many as    *)
(* there are if it answers by the indexes or by a scan.                     *)
LEMMA FilteredAre ==
    ASSUME NEW d, Sound(d), NEW f, NEW limit \in Nat, NEW a \in Filtered(d, f, limit)
    PROVE  /\ a \in Seq(Selected(d, f)) /\ Range(a) \subseteq Selected(d, f)
           /\ Conforming /\ f \in Filters =>
                /\ Len(a) = Least(limit, Cardinality(Selected(d, f)))
                /\ Cardinality(Live(d)) < PostfilterMinLive =>
                      a = First(ByScore(d, Selected(d, f)), limit)
<1> DEFINE S == Selected(d, f)
           C == Candidates(d.indexes, f)
           live == Cardinality(Live(d))
           scan1 == First(ByScore(d, S), limit)
<1>1. S \in SUBSET Slot(d)
  BY DEF Selected, Live
<1>2. /\ IsBest(scan1, S, limit) /\ Cardinality(S) \in Nat /\ IsFiniteSet(S)
      /\ \A T \in SUBSET S : IsBest(First(ByScore(d, T), limit), T, limit) /\ Cardinality(T) \in Nat
  BY <1>1, ByScoreIs
<1>a. \A T \in SUBSET S : Cardinality(T) <= Cardinality(S)
  BY <1>2, FS_Subset
<1>b. live \in Nat /\ PostfilterMinLive \in Nat
  <2>1. Live(d) \in SUBSET Slot(d)
    BY DEF Live
  <2> QED
    BY <2>1, ByScoreIs, SearchAssumption DEF SearchAssumption
<1>3. \/ a = PreFiltered(d, f, limit) /\ Answered(d.indexes, f) # {}
      \/ a = scan1
      \/ a \in PostFiltered(d, f, limit) /\ live >= PostfilterMinLive
  BY DEF Filtered
<1>4. CASE a = scan1
  BY <1>2, <1>4 DEF IsBest
<1>5. CASE a = PreFiltered(d, f, limit) /\ Answered(d.indexes, f) # {}
  <2>1. a = First(ByScore(d, S \cap C), limit)
    BY <1>5 DEF PreFiltered
  <2>2. IsBest(a, S \cap C, limit)
    BY <1>2, <2>1
  <2>3. Conforming /\ f \in Filters => S \cap C = S
    BY <1>5, CandidatesHave
  <2> HIDE DEF S, C
  <2>4. a \in Seq(S) /\ Range(a) \subseteq S
    BY <2>2 DEF IsBest
  <2> HIDE DEF scan1
  <2>5. Conforming /\ f \in Filters => a = scan1
    BY <2>1, <2>3 DEF scan1, S
  <2> QED
    BY <1>2, <2>4, <2>5 DEF IsBest, S, scan1
<1>6. CASE a \in PostFiltered(d, f, limit) /\ live >= PostfilterMinLive
  <2>1. PICK found : a = First(ByScore(d, found \cap S), limit) /\ Len(a) = limit
    BY <1>6 DEF PostFiltered
  <2> DEFINE T == found \cap S
  <2>2. /\ IsBest(a, T, limit) /\ Cardinality(T) \in Nat
        /\ Cardinality(T) <= Cardinality(S) /\ T \subseteq S
    BY <1>2, <1>a, <2>1
  <2>3. ~(live < PostfilterMinLive)
    BY <1>6, <1>b
  <2> HIDE DEF T, S, live, scan1
  <2>4. a \in Seq(S) /\ Range(a) \subseteq S
    BY <2>2 DEF IsBest
  <2>5. Len(a) = Least(limit, Cardinality(S))
    BY <1>2, <2>1, <2>2 DEF IsBest, Least
  <2> QED
    BY <2>3, <2>4, <2>5 DEF S, live
<1> QED
  BY <1>3, <1>4, <1>5, <1>6

(* FLT-022, FLT-031: where the stored values are of the kind of the index   *)
(* on their key, the indexes and the planner's choice (filtered_planner)    *)
(* change no result: as many points are found as a scan would find, all     *)
(* that pass the filter, and the scan's own where no graph is asked.        *)
THEOREM PlannerExact ==
    ASSUME Conforming
    PROVE  SearchSpec => []PlannerMatchesScan
<1>1. HoldInv => PlannerMatchesScan
  <2> SUFFICES ASSUME HoldInv, NEW f \in Filters \ {NoFilter}, NEW limit \in Limits,
                      NEW a \in Filtered(data, f, limit)
               PROVE  /\ Len(a) = Least(limit, Cardinality(Selected(data, f)))
                      /\ Range(a) \subseteq Selected(data, f)
                      /\ Cardinality(Live(data)) < PostfilterMinLive =>
                            a = First(ByScore(data, Selected(data, f)), limit)
    BY DEF PlannerMatchesScan
  <2>1. Sound(data) /\ limit \in Nat
    BY SearchAssumption DEF HoldInv, Stands, SearchAssumption
  <2> QED
    BY <2>1, FilteredAre
<1> QED
  BY <1>1, SearchHolding, PTL

-----------------------------------------------------------------------------
(* Queries in several steps.  The orders of the sparse lane and of the      *)
(* fusion.                                                                  *)

(* R goes by f, then by g, then by h, which no two elements share.          *)
RanksBy(R, S, f, g, h) ==
    /\ \A i \in S : f[i] \in Int /\ g[i] \in Int /\ h[i] \in Int
    /\ \A i, j \in S : h[i] = h[j] => i = j
    /\ \A i, j \in S : <<i, j>> \in R <=>
          \/ f[i] > f[j]
          \/ f[i] = f[j] /\ g[i] < g[j]
          \/ f[i] = f[j] /\ g[i] = g[j] /\ h[i] < h[j]

(* That is an order.                                                        *)
LEMMA RankedOrder ==
    ASSUME NEW S, NEW R, NEW f, NEW g, NEW h, RanksBy(R, S, f, g, h)
    PROVE  IsOrder(S, R)
<1>1. \A i \in S : f[i] \in Int /\ g[i] \in Int /\ h[i] \in Int
  BY DEF RanksBy
<1>2. \A i, j \in S : h[i] = h[j] => i = j
  BY DEF RanksBy
<1>a. \A i, j \in S : <<i, j>> \in R <=>
         \/ f[i] > f[j]
         \/ f[i] = f[j] /\ g[i] < g[j]
         \/ f[i] = f[j] /\ g[i] = g[j] /\ h[i] < h[j]
  BY DEF RanksBy
<1>3. \A i \in S : <<i, i>> \notin R
  BY <1>1, <1>a
<1>4. \A i, j \in S : i # j => <<i, j>> \in R \/ <<j, i>> \in R
  BY <1>1, <1>2, <1>a
<1>5. ASSUME NEW i \in S, NEW j \in S, NEW k \in S, <<i, j>> \in R, <<j, k>> \in R
      PROVE  <<i, k>> \in R
  <2>1. /\ f[i] \in Int /\ f[j] \in Int /\ f[k] \in Int
        /\ g[i] \in Int /\ g[j] \in Int /\ g[k] \in Int
        /\ h[i] \in Int /\ h[j] \in Int /\ h[k] \in Int
    BY <1>1
  <2>2. \/ f[i] > f[j]
        \/ f[i] = f[j] /\ g[i] < g[j]
        \/ f[i] = f[j] /\ g[i] = g[j] /\ h[i] < h[j]
    BY <1>5, <1>a
  <2>3. \/ f[j] > f[k]
        \/ f[j] = f[k] /\ g[j] < g[k]
        \/ f[j] = f[k] /\ g[j] = g[k] /\ h[j] < h[k]
    BY <1>5, <1>a
  <2>4. \/ f[i] > f[k]
        \/ f[i] = f[k] /\ g[i] < g[k]
        \/ f[i] = f[k] /\ g[i] = g[k] /\ h[i] < h[k]
    BY <2>1, <2>2, <2>3
  <2> QED
    BY <2>4, <1>a
<1> QED
  BY <1>3, <1>4, <1>5 DEF IsOrder

(* Ids have ranks.                                                          *)
LEMMA IdRanks ==
    /\ \A i \in Id : IdRank[i] \in Int
    /\ \A i, j \in Id : IdRank[i] = IdRank[j] => i = j
<1>1. IdRank \in [Id -> Nat] /\ IsInjective(IdRank)
  BY SearchAssumption DEF SearchAssumption
<1> QED
  BY <1>1 DEF IsInjective

(* The sparse lane's order, on live slots: they have ids of their own.      *)
LEMMA SparseOrders ==
    ASSUME NEW d, Sound(d)
    PROVE  IsOrder(Live(d), SparseBetter(d)) /\ IsFiniteSet(Live(d))
<1> DEFINE f == [s \in Live(d) |-> d.sparses[s]]
           g == [s \in Live(d) |-> 0]
           h == [s \in Live(d) |-> IdRank[d.ids[s]]]
           R == SparseBetter(d)
<1>1. \A s \in Live(d) : /\ s \in Slot(d) /\ d.ids[s] \in Id
                         /\ d.sparses[s] \in Nat /\ d.slotOf[d.ids[s]] = s
  BY SizesAre, LiveIs DEF Sound
<1>2. \A s \in Live(d) : f[s] \in Int /\ g[s] \in Int /\ h[s] \in Int
  BY <1>1, IdRanks
<1>3. \A s, t \in Live(d) : h[s] = h[t] => s = t
  BY <1>1, IdRanks
<1>5. \A s, t \in Live(d) : <<s, t>> \in R <=>
         \/ f[s] > f[t]
         \/ f[s] = f[t] /\ g[s] < g[t]
         \/ f[s] = f[t] /\ g[s] = g[t] /\ h[s] < h[t]
  BY DEF SparseBetter
<1>6. IsFiniteSet(Live(d))
  <2>1. Live(d) \in SUBSET Slot(d)
    BY DEF Live
  <2> QED
    BY <2>1, ByScoreIs
<1> HIDE DEF f, g, h, R
<1>7. IsOrder(Live(d), R)
  <2>1. RanksBy(R, Live(d), f, g, h)
    BY <1>2, <1>3, <1>5 DEF RanksBy
  <2> QED
    BY <2>1, RankedOrder
<1> QED
  BY <1>6, <1>7 DEF R

(* A lane gives an id a whole number of parts of Scale.                     *)
LEMMA RankInIs ==
    ASSUME NEW ids \in Seq(Id), NEW i \in Range(ids)
    PROVE  RankIn(ids, i) \in DOMAIN ids /\ ids[RankIn(ids, i)] = i
<1>1. \E r \in DOMAIN ids : ids[r] = i
  BY DEF Range
<1> QED
  BY <1>1 DEF RankIn

LEMMA TermIs ==
    ASSUME NEW w \in Int, NEW ids \in Seq(Id), NEW i \in Id
    PROVE  Term(w, ids, i) \in Int
<1>1. CASE i \notin Range(ids)
  BY <1>1 DEF Term
<1>2. CASE i \in Range(ids)
  <2> DEFINE r == RankIn(ids, i)
             x == Scale \div (RrfK + r)
  <2>1. r \in 1..Len(ids) /\ Len(ids) \in Nat
    BY <1>2, RankInIs
  <2>2. RrfK \in Nat /\ Scale \in Nat
    BY SearchAssumption DEF SearchAssumption
  <2> HIDE DEF r
  <2>3. RrfK + r \in Nat /\ RrfK + r > 0
    BY <2>1, <2>2
  <2>4. x \in Int
    BY <2>2, <2>3
  <2>5. Term(w, ids, i) = w * x
    BY <1>2 DEF Term, r
  <2> HIDE DEF x
  <2> QED
    BY <2>4, <2>5
<1> QED
  BY <1>1, <1>2

(* The order of the fusion.                                                 *)
LEMMA FusedOrders ==
    ASSUME NEW dense \in Seq(Id), NEW sparse \in Seq(Id), NEW alpha \in 0..2
    PROVE  IsOrder(Id, FusedBetter(dense, sparse, alpha))
<1> DEFINE rank(i) == IF i \in Range(dense) THEN RankIn(dense, i) ELSE Len(dense) + 1
           f == [i \in Id |-> Fused(dense, sparse, alpha, i)]
           g == [i \in Id |-> rank(i)]
           h == [i \in Id |-> IdRank[i]]
           R == FusedBetter(dense, sparse, alpha)
<1>1. \A i \in Id : Fused(dense, sparse, alpha, i) \in Int
  <2> TAKE i \in Id
  <2> DEFINE a == Term(alpha, dense, i)
             b == Term(2 - alpha, sparse, i)
  <2>1. alpha \in Int /\ 2 - alpha \in Int
    OBVIOUS
  <2>2. a \in Int /\ b \in Int
    BY <2>1, TermIs
  <2>3. Fused(dense, sparse, alpha, i) = a + b
    BY DEF Fused
  <2> HIDE DEF a, b
  <2> QED
    BY <2>2, <2>3
<1>2. \A i \in Id : rank(i) \in Int
  <2>1. Len(dense) + 1 \in Int
    OBVIOUS
  <2>2. \A i \in Range(dense) : RankIn(dense, i) \in Int
    BY RankInIs
  <2> QED
    BY <2>1, <2>2
<1>3. \A i, j \in Id : <<i, j>> \in R <=>
         \/ f[i] > f[j]
         \/ f[i] = f[j] /\ g[i] < g[j]
         \/ f[i] = f[j] /\ g[i] = g[j] /\ h[i] < h[j]
  BY DEF FusedBetter
<1>4. \A i \in Id : f[i] \in Int /\ g[i] \in Int /\ h[i] \in Int
  BY <1>1, <1>2, IdRanks
<1>5. \A i, j \in Id : h[i] = h[j] => i = j
  BY IdRanks
<1> HIDE DEF rank, f, g, h, R
<1>6. IsOrder(Id, R)
  <2>1. RanksBy(R, Id, f, g, h)
    BY <1>3, <1>4, <1>5 DEF RanksBy
  <2> QED
    BY <2>1, RankedOrder
<1> QED
  BY <1>6 DEF R

-----------------------------------------------------------------------------
(* What a lane finds.                                                       *)

(* Slots of live points that pass the filter, as long as the limit at most, *)
(* each once.                                                               *)
Lane(slots, d, f, n) ==
    /\ slots \in Seq(Selected(d, f)) /\ IsInjective(slots) /\ Len(slots) <= n

(* sparse_ranked.                                                           *)
LEMMA SparseLane ==
    ASSUME NEW d, Sound(d), NEW f, NEW n \in Nat
    PROVE  Lane(SparseRanked(d, f, n), d, f, n)
<1> DEFINE T == {s \in Selected(d, f) : d.sparses[s] # 0}
           a == SparseRanked(d, f, n)
<1>1. IsOrder(Live(d), SparseBetter(d)) /\ IsFiniteSet(Live(d))
  BY SparseOrders
<1>2. T \in SUBSET Live(d) /\ T \subseteq Selected(d, f)
  BY DEF Selected
<1>3. a = First(Sorted(T, SparseBetter(d)), n)
  BY DEF SparseRanked
<1> HIDE DEF T, a
<1>4. IsOrder(T, SparseBetter(d)) /\ IsFiniteSet(T)
  BY <1>1, <1>2, OrderWithin, FS_Subset
<1>5. IsBest(a, T, n) /\ Cardinality(T) \in Nat
  BY <1>3, <1>4, BestIs, FS_CardinalityType
<1>6. Len(a) <= n
  BY <1>5, LeastIs DEF IsBest
<1>7. a \in Seq(Selected(d, f)) /\ IsInjective(a)
  BY <1>2, <1>5 DEF IsBest
<1> QED
  BY <1>6, <1>7 DEF Lane, a

(* Every point passes the empty filter.                                     *)
LEMMA NoFilterSelects ==
    ASSUME NEW d
    PROVE  Selected(d, NoFilter) = Live(d)
<1>1. \A pay : Matches(NoFilter, pay)
  BY DEF Matches, NoFilter, Clauses
<1> QED
  BY <1>1 DEF Selected

(* execute_query.                                                           *)
LEMMA DenseLane ==
    ASSUME NEW d, Sound(d), NEW f, NEW n \in Nat, NEW a \in DenseAnswers(d, f, n)
    PROVE  a \in Seq(Selected(d, f))
<1>1. CASE f = NoFilter
  <2>1. IsBest(a, Live(d), n)
    BY <1>1, UnfilteredFills DEF DenseAnswers
  <2> QED
    BY <1>1, <2>1, NoFilterSelects DEF IsBest
<1>2. CASE f # NoFilter
  <2>1. a \in Filtered(d, f, n)
    BY <1>2 DEF DenseAnswers
  <2> QED
    BY <2>1, FilteredAre
<1> QED
  BY <1>1, <1>2

(* What a query remembers of the slots it found.                            *)
Remembers(ids, seen, slots, d, f) ==
    /\ ids \in Seq(Id) /\ DOMAIN ids = DOMAIN slots /\ DOMAIN seen = Range(ids)
    /\ \A k \in DOMAIN slots :
          /\ slots[k] \in Slot(d) /\ ids[k] = d.ids[slots[k]] /\ ids[k] \in DOMAIN d.slotOf
          /\ d.slotOf[ids[k]] = slots[k] /\ ids[k] \in DOMAIN seen
    /\ \A i \in DOMAIN seen :
          /\ i \in Id /\ i \in DOMAIN d.slotOf
          /\ seen[i] = PointAt(d, d.slotOf[i]) /\ Matches(f, seen[i].pay)

LEMMA RemembersLane ==
    ASSUME NEW d, Sound(d), NEW f, NEW slots \in Seq(Selected(d, f))
    PROVE  Remembers(IdsOf(d, slots), SeenAt(d, slots), slots, d, f)
<1> DEFINE ids == IdsOf(d, slots)
           seen == SeenAt(d, slots)
<1>1. \A k \in DOMAIN slots : slots[k] \in Selected(d, f)
  OBVIOUS
<1>2. \A s \in Selected(d, f) : /\ s \in Slot(d) /\ d.ids[s] \in DOMAIN d.slotOf
                                /\ d.slotOf[d.ids[s]] = s /\ d.ids[s] \in Id
                                /\ Matches(f, d.pays[s])
  BY LiveIs, SizesAre DEF Sound, Selected
<1>3. ids = [k \in DOMAIN slots |-> d.ids[slots[k]]]
  BY DEF IdsOf
<1>4. ids \in Seq(Id) /\ DOMAIN ids = DOMAIN slots
  <2>1. DOMAIN slots = 1..Len(slots) /\ Len(slots) \in Nat
    OBVIOUS
  <2>2. ids \in [1..Len(slots) -> Id]
    BY <1>1, <1>2, <1>3, <2>1
  <2> HIDE DEF ids
  <2> QED
    BY <1>3, <2>1, <2>2
<1>5. seen = [i \in Range(ids) |-> PointAt(d, d.slotOf[i])]
  BY DEF SeenAt
<1> HIDE DEF ids, seen
<1>6. DOMAIN seen = Range(ids)
  BY <1>5
<1>7. \A k \in DOMAIN slots : ids[k] = d.ids[slots[k]] /\ ids[k] \in Range(ids)
  BY <1>3, <1>4 DEF Range
<1>8. ASSUME NEW i \in DOMAIN seen
      PROVE  /\ i \in Id /\ i \in DOMAIN d.slotOf
             /\ seen[i] = PointAt(d, d.slotOf[i]) /\ Matches(f, seen[i].pay)
  <2>1. PICK k \in DOMAIN slots : ids[k] = i
    BY <1>4, <1>6, <1>8 DEF Range
  <2>2. i = d.ids[slots[k]] /\ slots[k] \in Selected(d, f)
    BY <1>1, <1>7, <2>1
  <2>3. i \in Id /\ i \in DOMAIN d.slotOf /\ d.slotOf[i] = slots[k] /\ Matches(f, d.pays[slots[k]])
    BY <1>2, <2>2
  <2>4. seen[i] = PointAt(d, slots[k])
    BY <1>5, <1>6, <1>8, <2>3
  <2>5. seen[i].pay = d.pays[slots[k]]
    BY <2>4 DEF PointAt
  <2> QED
    BY <2>3, <2>4, <2>5
<1>9. \A k \in DOMAIN slots :
          /\ slots[k] \in Slot(d) /\ ids[k] = d.ids[slots[k]] /\ ids[k] \in DOMAIN d.slotOf
          /\ d.slotOf[ids[k]] = slots[k] /\ ids[k] \in DOMAIN seen
  BY <1>1, <1>2, <1>6, <1>7
<1> QED
  BY <1>4, <1>6, <1>8, <1>9 DEF Remembers, ids, seen

-----------------------------------------------------------------------------
(* The invariant of a query in progress.                                    *)

QueryFields == {"at", "filter", "limit", "alpha", "dense", "slots", "ranked", "seen",
                "touched", "moved", "hits"}
Running == {"ranked", "dense", "lanes"}

(* What query q has seen passes its filter and, where nobody wrote it since,*)
(* is as it was; the slots it found still carry ids it has seen, unless they*)
(* were renumbered.                                                         *)
Ranking(q, d) ==
    /\ q.limit \in Nat /\ q.alpha \in 0..2
    /\ \A i \in DOMAIN q.seen : i \in Id /\ Matches(q.filter, q.seen[i].pay)
    /\ \A i \in DOMAIN q.seen \ q.touched :
          i \in DOMAIN d.slotOf /\ q.seen[i] = PointAt(d, d.slotOf[i])
    /\ q.slots \in Seq(Nat \ {0}) /\ q.dense \in Seq(Id)
    /\ ~q.moved => \A k \in DOMAIN q.slots : /\ q.slots[k] \in Slot(d)
                                            /\ d.ids[q.slots[k]] \in DOMAIN q.seen
    /\ \A k \in DOMAIN q.dense : q.dense[k] \in DOMAIN q.seen

(* A sparse query's slots carry different ids besides, those of live points *)
(* where nobody wrote them.                                                 *)
SlotsLive(q, d) ==
    /\ Len(q.slots) <= q.limit
    /\ ~q.moved =>
          /\ \A j, k \in DOMAIN q.slots : d.ids[q.slots[j]] = d.ids[q.slots[k]] => j = k
          /\ \A k \in DOMAIN q.slots :
                d.ids[q.slots[k]] \notin q.touched => d.slotOf[d.ids[q.slots[k]]] = q.slots[k]

QueryInv ==
    /\ HoldInv
    /\ DOMAIN query = QueryFields
    /\ query.at \in Running \cup {"none", "done", "panicked"}
    /\ query.at \in Running => Ranking(query, data)
    /\ query.at = "ranked" => SlotsLive(query, data)
    /\ HitsAsRanked

(* What a writer of the ids of W leaves to a query: the other points, and,  *)
(* unless it renumbers, every slot's id and their slots.                    *)
Leaves(e, d, W) ==
    \A i \in DOMAIN d.slotOf \ W :
       i \in DOMAIN e.slotOf /\ PointAt(e, e.slotOf[i]) = PointAt(d, d.slotOf[i])
Numbers(e, d, W) ==
    /\ \A s \in Slot(d) : s \in Slot(e) /\ e.ids[s] = d.ids[s]
    /\ \A i \in DOMAIN d.slotOf \ W : e.slotOf[i] = d.slotOf[i]

LEMMA WroteLeaves ==
    ASSUME NEW d, Sound(d), NEW e, NEW w, NEW m \in Nat, Wrote(e, d, w, m)
    PROVE  Leaves(e, d, WrittenIn(w, m)) /\ Numbers(e, d, WrittenIn(w, m))
<1>1. Len(d.ids) \in Nat /\ Len(e.ids) = Len(d.ids) + m
  BY SizesAre DEF Sound, Wrote
<1>2. \A s \in Slot(d) : s \in Slot(e) /\ e.ids[s] = d.ids[s]
  BY <1>1 DEF Slot, Wrote
<1>3. DOMAIN e.slotOf = DOMAIN d.slotOf \cup WrittenIn(w, m)
  BY DEF Wrote
<1>4. \A i \in DOMAIN d.slotOf \ WrittenIn(w, m) :
         e.slotOf[i] = d.slotOf[i] /\ PointAt(e, e.slotOf[i]) = PointAt(d, d.slotOf[i])
  BY DEF Wrote
<1> QED
  BY <1>2, <1>3, <1>4 DEF Leaves, Numbers

LEMMA CutLeaves ==
    ASSUME NEW d, NEW e, NEW S, Cut(e, d, S)
    PROVE  Leaves(e, d, S) /\ Numbers(e, d, S)
  BY DEF Cut, Leaves, Numbers, Slot

LEMMA OthersLeave ==
    ASSUME NEW d, NEW e
    PROVE  /\ Untouched(e, d) => Leaves(e, d, {}) /\ Numbers(e, d, {})
           /\ Renumbered(e, d) => Leaves(e, d, {})
  BY DEF Untouched, Renumbered, Leaves, Numbers, Slot

(* The query q, told of the writer: it stays what it is.                    *)
Told(r, q, W, renumbered) ==
    /\ r.at = q.at /\ r.limit = q.limit /\ r.alpha = q.alpha /\ r.filter = q.filter
    /\ r.seen = q.seen /\ r.slots = q.slots /\ r.dense = q.dense /\ r.hits = q.hits
    /\ DOMAIN r = DOMAIN q
    /\ r.touched = q.touched \cup (W \cap DOMAIN q.seen)
    /\ r.moved = (q.moved \/ (renumbered /\ q.slots # <<>>))

LEMMA RankingStays ==
    ASSUME NEW d, NEW e, NEW W, Leaves(e, d, W),
           NEW renumbered \in BOOLEAN, ~renumbered => Numbers(e, d, W),
           NEW q, NEW r, Told(r, q, W, renumbered), Ranking(q, d)
    PROVE  /\ Ranking(r, e)
           /\ SlotsLive(q, d) => SlotsLive(r, e)
<1>1. \A i \in DOMAIN r.seen \ r.touched :
         /\ i \in DOMAIN q.seen \ q.touched /\ i \in DOMAIN d.slotOf \ W
         /\ i \in DOMAIN e.slotOf /\ r.seen[i] = PointAt(e, e.slotOf[i])
  BY DEF Told, Ranking, Leaves
<1>2. q.slots = <<>> => DOMAIN q.slots = {}
  OBVIOUS
<1>3. ASSUME ~r.moved
      PROVE  /\ ~q.moved
             /\ \A k \in DOMAIN r.slots : /\ r.slots[k] \in Slot(e)
                                         /\ e.ids[r.slots[k]] = d.ids[q.slots[k]]
                                         /\ e.ids[r.slots[k]] \in DOMAIN r.seen
             /\ q.slots # <<>> => Numbers(e, d, W)
  <2>1. ~q.moved /\ (~renumbered \/ q.slots = <<>>)
    BY <1>3 DEF Told
  <2>2. CASE ~renumbered
    BY <2>1, <2>2 DEF Told, Numbers, Ranking
  <2>3. CASE q.slots = <<>>
    BY <1>2, <2>1, <2>3 DEF Told
  <2> QED
    BY <2>1, <2>2, <2>3
<1>4. Ranking(r, e)
  <2>1. r.limit \in Nat /\ r.alpha \in 0..2 /\ r.slots \in Seq(Nat \ {0}) /\ r.dense \in Seq(Id)
    BY DEF Told, Ranking
  <2>2. /\ \A i \in DOMAIN r.seen : i \in Id /\ Matches(r.filter, r.seen[i].pay)
        /\ \A k \in DOMAIN r.dense : r.dense[k] \in DOMAIN r.seen
    BY DEF Told, Ranking
  <2> QED
    BY <1>1, <1>3, <2>1, <2>2 DEF Ranking
<1>5. ASSUME SlotsLive(q, d)
      PROVE  SlotsLive(r, e)
  <2>1. Len(r.slots) <= r.limit
    BY <1>5 DEF Told, SlotsLive
  <2>2. ASSUME ~r.moved
        PROVE  /\ \A j, k \in DOMAIN r.slots : e.ids[r.slots[j]] = e.ids[r.slots[k]] => j = k
               /\ \A k \in DOMAIN r.slots :
                     e.ids[r.slots[k]] \notin r.touched => e.slotOf[e.ids[r.slots[k]]] = r.slots[k]
    <3>1. /\ ~q.moved /\ r.slots = q.slots
          /\ \A k \in DOMAIN r.slots : e.ids[r.slots[k]] = d.ids[q.slots[k]]
                                       /\ e.ids[r.slots[k]] \in DOMAIN r.seen
      BY <1>3, <2>2 DEF Told
    <3>2. \A j, k \in DOMAIN r.slots : e.ids[r.slots[j]] = e.ids[r.slots[k]] => j = k
      BY <1>5, <3>1 DEF SlotsLive
    <3>3. ASSUME NEW k \in DOMAIN r.slots, e.ids[r.slots[k]] \notin r.touched
          PROVE  e.slotOf[e.ids[r.slots[k]]] = r.slots[k]
      <4>1. PICK i : i = e.ids[r.slots[k]]
        OBVIOUS
      <4>2. i = d.ids[q.slots[k]] /\ i \in DOMAIN r.seen \ r.touched
        BY <3>1, <3>3, <4>1
      <4>3. i \notin q.touched /\ i \in DOMAIN d.slotOf \ W
        BY <1>1, <4>2 DEF Told
      <4>4. d.slotOf[i] = q.slots[k]
        BY <1>5, <3>1, <3>3, <4>2, <4>3 DEF SlotsLive
      <4>5. Numbers(e, d, W)
        BY <1>2, <1>3, <2>2, <3>1, <3>3
      <4> QED
        BY <3>1, <4>1, <4>3, <4>4, <4>5 DEF Numbers
    <3> QED
      BY <3>2, <3>3
  <2> QED
    BY <2>1, <2>2 DEF SlotsLive
<1> QED
  BY <1>4, <1>5

LEMMA QueryStart == SearchInit => QueryInv
<1> SUFFICES ASSUME SearchInit PROVE QueryInv
  OBVIOUS
<1>1. HoldInv
  BY SearchStart
<1>2. query = NoQuery
  BY DEF SearchInit
<1>3. DOMAIN query = QueryFields /\ query.at = "none"
  BY <1>2 DEF NoQuery, QueryFields
<1> QED
  BY <1>1, <1>3 DEF QueryInv, Running, HitsAsRanked

(* A query forgotten, or one that goes on after a writer.                   *)
LEMMA QueryAfterWriter ==
    ASSUME QueryInv, HoldInv', NEW W, NEW renumbered \in BOOLEAN, Noted(W, renumbered),
           Leaves(data', data, W), ~renumbered => Numbers(data', data, W)
    PROVE  QueryInv'
<1>1. CASE Idle
  <2>0. query' = NoQuery
    BY <1>1 DEF Noted
  <2>1. DOMAIN query' = QueryFields /\ query'.at = "none"
    BY <2>0 DEF NoQuery, QueryFields
  <2> QED
    BY <2>1 DEF QueryInv, Running, HitsAsRanked
<1>2. CASE ~Idle
  <2>1. query.at \in Running /\ Ranking(query, data) /\ (query.at = "ranked" => SlotsLive(query, data))
    BY <1>2 DEF QueryInv, Idle, Running
  <2>2. Told(query', query, W, renumbered)
    <3>1. PICK touched, moved : /\ touched = query.touched \cup (W \cap DOMAIN query.seen)
                                /\ moved = (query.moved \/ (renumbered /\ query.slots # <<>>))
      OBVIOUS
    <3>2. query' = [query EXCEPT !.touched = touched, !.moved = moved]
      BY <1>2, <3>1 DEF Noted
    <3>3. DOMAIN query = QueryFields
      BY DEF QueryInv
    <3>4. query'.touched = touched /\ query'.moved = moved
      BY <3>2, <3>3 DEF QueryFields
    <3> QED
      BY <3>1, <3>2, <3>4 DEF Told
  <2>3. Ranking(query', data') /\ (query'.at = "ranked" => SlotsLive(query', data'))
    BY <2>1, <2>2, RankingStays DEF Told
  <2>4. query'.at \in Running /\ query'.at # "done" /\ query'.at # "panicked" /\ DOMAIN query' = QueryFields
    BY <2>1, <2>2 DEF Running, Told, QueryInv
  <2>5. HitsAsRanked'
    BY <2>4 DEF HitsAsRanked
  <2> QED
    BY <2>3, <2>4, <2>5 DEF QueryInv
<1> QED
  BY <1>1, <1>2

LEMMA QueryWriters ==
    ASSUME QueryInv, HoldInv'
    PROVE  /\ \A i \in Id, p \in Point : UpsertBatch(<< <<i, p>> >>) /\ Noted({i}, FALSE) => QueryInv'
           /\ \A i \in DOMAIN data.slotOf : DeleteBatch({i}) /\ Noted({i}, FALSE) => QueryInv'
           /\ Compact /\ Noted({}, TRUE) => QueryInv'
           /\ Reindex /\ Noted({}, FALSE) => QueryInv'
<1>1. Sound(data)
  BY DEF QueryInv, HoldInv, Stands
<1>3. ASSUME NEW i \in Id, NEW p \in Point, UpsertBatch(<< <<i, p>> >>), Noted({i}, FALSE)
      PROVE  QueryInv'
  <2> DEFINE batch == << <<i, p>> >>
  <2>1. batch \in Batches /\ DOMAIN batch = {1} /\ batch[1][1] = i
    <3>1. batch \in [1..1 -> Id \X Point] /\ 1 \in 1..2 /\ 1..1 = {1}
      OBVIOUS
    <3>2. DOMAIN batch = 1..1
      OBVIOUS
    <3> QED
      BY <3>1, <3>2 DEF Batches
  <2> HIDE DEF batch
  <2>2. PICK n : /\ IsUpsert(data', data, batch, n)
                 /\ {batch[k][1] : k \in DOMAIN batch} = WrittenIn(batch, n)
    BY <1>1, <1>3, <2>1, UpsertStep DEF batch
  <2>3. Leaves(data', data, WrittenIn(batch, n)) /\ Numbers(data', data, WrittenIn(batch, n))
    BY <1>1, <2>2, WroteLeaves DEF IsUpsert
  <2>4. WrittenIn(batch, n) = {i}
    BY <2>1, <2>2
  <2> QED
    BY <1>3, <2>3, <2>4, QueryAfterWriter
<1>4. ASSUME NEW i \in DOMAIN data.slotOf, DeleteBatch({i}), Noted({i}, FALSE)
      PROVE  QueryInv'
  <2>1. i \in Id
    BY <1>1, SizesAre DEF Sound
  <2>2. {i} \in SUBSET Id
    BY <2>1
  <2>3. Cut(data', data, {i})
    BY <1>1, <1>4, <2>2, DeleteStep
  <2> QED
    BY <1>4, <2>3, CutLeaves, QueryAfterWriter
<1>5. ASSUME Compact, Noted({}, TRUE)
      PROVE  QueryInv'
  <2>1. Renumbered(data', data)
    BY <1>1, <1>5, OtherStep
  <2> QED
    BY <1>5, <2>1, OthersLeave, QueryAfterWriter
<1>6. ASSUME Reindex, Noted({}, FALSE)
      PROVE  QueryInv'
  <2>1. Untouched(data', data)
    BY <1>1, <1>6, OtherStep
  <2> QED
    BY <1>6, <2>1, OthersLeave, QueryAfterWriter
<1> QED
  BY <1>3, <1>4, <1>5, <1>6

(* A query that has ranked a lane.                                          *)
LEMMA QueryRuns ==
    ASSUME QueryInv, UNCHANGED vars, DOMAIN query' = QueryFields, query'.at \in Running,
           Ranking(query', data), query'.at = "ranked" => SlotsLive(query', data)
    PROVE  QueryInv'
<1>1. HoldInv'
  BY DEF QueryInv, HoldInv, vars, Stands
<1>2. query'.at # "done" /\ query'.at # "panicked"
  BY DEF Running
<1>3. HitsAsRanked'
  BY <1>2 DEF HitsAsRanked
<1>4. Ranking(query, data)' /\ (query'.at = "ranked" => SlotsLive(query, data)')
  BY DEF vars
<1> QED
  BY <1>1, <1>3, <1>4 DEF QueryInv

LEMMA QueryRankSparse == QueryInv /\ RankSparse => QueryInv'
<1> SUFFICES ASSUME QueryInv, RankSparse PROVE QueryInv'
  OBVIOUS
<1>1. PICK f \in AskedFilters, limit \in Limits :
         LET slots == SparseRanked(data, f, limit) IN
         query' = [NoQuery EXCEPT !.at = "ranked", !.filter = f, !.limit = limit,
                                  !.slots = slots, !.ranked = IdsOf(data, slots),
                                  !.seen = SeenAt(data, slots)]
  BY DEF RankSparse
<1> DEFINE slots == SparseRanked(data, f, limit)
           ids == IdsOf(data, slots)
           seen == SeenAt(data, slots)
<1>2. Sound(data) /\ UNCHANGED vars /\ limit \in Nat
  BY SearchAssumption DEF QueryInv, HoldInv, Stands, RankSparse, SearchAssumption
<1>3. Lane(slots, data, f, limit)
  BY <1>2, SparseLane
<1>4. slots \in Seq(Selected(data, f))
  BY <1>3 DEF Lane
<1>5. Remembers(ids, seen, slots, data, f)
  BY <1>2, <1>4, RemembersLane
<1>6. query' = [at |-> "ranked", filter |-> f, limit |-> limit, alpha |-> 1, dense |-> <<>>,
                slots |-> slots, ranked |-> ids, seen |-> seen,
                touched |-> {}, moved |-> FALSE, hits |-> <<>>]
  BY <1>1 DEF NoQuery
<1> HIDE DEF slots, ids, seen
<1>7. /\ DOMAIN query' = QueryFields /\ query'.at = "ranked" /\ query'.filter = f
      /\ query'.limit = limit /\ query'.alpha = 1 /\ query'.dense = <<>>
      /\ query'.slots = slots /\ query'.seen = seen /\ query'.touched = {} /\ query'.moved = FALSE
  BY <1>6 DEF QueryFields
<1>8. slots \in Seq(Nat \ {0})
  <2>1. \A s \in Selected(data, f) : s \in Nat \ {0}
    BY <1>2, ScoresAre DEF Selected, Live, Slot
  <2> QED
    BY <1>4, <2>1
<1>9. Ranking(query', data)
  <2>1. /\ <<>> \in Seq(Id) /\ DOMAIN <<>> = {}
    OBVIOUS
  <2>2. \A i \in DOMAIN seen : /\ i \in Id /\ Matches(f, seen[i].pay)
                               /\ i \in DOMAIN data.slotOf /\ seen[i] = PointAt(data, data.slotOf[i])
    BY <1>5 DEF Remembers
  <2>3. \A k \in DOMAIN slots : slots[k] \in Slot(data) /\ data.ids[slots[k]] \in DOMAIN seen
    BY <1>5 DEF Remembers
  <2> QED
    BY <1>2, <1>7, <1>8, <2>1, <2>2, <2>3 DEF Ranking
<1>10. SlotsLive(query', data)
  <2>1. \A k \in DOMAIN slots : data.slotOf[data.ids[slots[k]]] = slots[k]
    BY <1>5 DEF Remembers
  <2>2. \A j, k \in DOMAIN slots : data.ids[slots[j]] = data.ids[slots[k]] => j = k
    BY <1>3, <2>1 DEF Lane, IsInjective
  <2> QED
    BY <1>3, <1>7, <2>1, <2>2 DEF SlotsLive, Lane
<1> QED
  BY <1>2, <1>7, <1>9, <1>10, QueryRuns DEF Running

LEMMA QueryRankDense == QueryInv /\ RankDense => QueryInv'
<1> SUFFICES ASSUME QueryInv, RankDense PROVE QueryInv'
  OBVIOUS
<1>1. PICK f \in AskedFilters, limit \in Limits, alpha \in Alphas :
      \E found \in DenseAnswers(data, f, Most(4 * limit, FusionFetch)) :
         query' = [NoQuery EXCEPT !.at = "dense", !.filter = f, !.limit = limit,
                                  !.alpha = alpha, !.dense = IdsOf(data, found),
                                  !.seen = SeenAt(data, found)]
  BY DEF RankDense
<1>2. PICK found \in DenseAnswers(data, f, Most(4 * limit, FusionFetch)) :
         query' = [NoQuery EXCEPT !.at = "dense", !.filter = f, !.limit = limit,
                                  !.alpha = alpha, !.dense = IdsOf(data, found),
                                  !.seen = SeenAt(data, found)]
  BY <1>1
<1> DEFINE ids == IdsOf(data, found)
           seen == SeenAt(data, found)
           fetch == Most(4 * limit, FusionFetch)
<1>3. Sound(data) /\ UNCHANGED vars /\ limit \in Nat /\ alpha \in 0..2
  BY SearchAssumption DEF QueryInv, HoldInv, Stands, RankDense, SearchAssumption
<1>4. fetch \in Nat
  BY <1>3, SearchAssumption DEF SearchAssumption, Most
<1>5. found \in Seq(Selected(data, f))
  <2>1. found \in DenseAnswers(data, f, fetch)
    OBVIOUS
  <2> HIDE DEF fetch
  <2> QED
    BY <1>3, <1>4, <2>1, DenseLane
<1>6. Remembers(ids, seen, found, data, f)
  BY <1>3, <1>5, RemembersLane
<1>7. query' = [at |-> "dense", filter |-> f, limit |-> limit, alpha |-> alpha, dense |-> ids,
                slots |-> <<>>, ranked |-> <<>>, seen |-> seen,
                touched |-> {}, moved |-> FALSE, hits |-> <<>>]
  BY <1>2 DEF NoQuery
<1> HIDE DEF ids, seen, fetch
<1>8. /\ DOMAIN query' = QueryFields /\ query'.at = "dense" /\ query'.filter = f
      /\ query'.limit = limit /\ query'.alpha = alpha /\ query'.dense = ids
      /\ query'.slots = <<>> /\ query'.seen = seen /\ query'.touched = {} /\ query'.moved = FALSE
  BY <1>7 DEF QueryFields
<1>9. Ranking(query', data)
  <2>1. /\ <<>> \in Seq(Nat \ {0}) /\ DOMAIN <<>> = {}
    OBVIOUS
  <2>2. \A i \in DOMAIN seen : /\ i \in Id /\ Matches(f, seen[i].pay)
                               /\ i \in DOMAIN data.slotOf /\ seen[i] = PointAt(data, data.slotOf[i])
    BY <1>6 DEF Remembers
  <2>3. ids \in Seq(Id) /\ \A k \in DOMAIN ids : ids[k] \in DOMAIN seen
    BY <1>6 DEF Remembers
  <2> QED
    BY <1>3, <1>8, <2>1, <2>2, <2>3 DEF Ranking
<1> QED
  BY <1>3, <1>8, <1>9, QueryRuns DEF Running

(* The second lane adds what it has seen.                                   *)
LEMMA QueryRankSparseLane == QueryInv /\ RankSparseLane => QueryInv'
<1> SUFFICES ASSUME QueryInv, RankSparseLane PROVE QueryInv'
  OBVIOUS
<1> DEFINE fetch == Most(4 * query.limit, FusionFetch)
           slots == SparseRanked(data, query.filter, fetch)
           ids == IdsOf(data, slots)
           found == SeenAt(data, slots)
           seen == Joined(query.seen, found)
<1>1. query' = [query EXCEPT !.at = "lanes", !.slots = slots, !.ranked = ids, !.seen = seen]
  BY DEF RankSparseLane
<1>2. Sound(data) /\ UNCHANGED vars /\ query.at = "dense" /\ DOMAIN query = QueryFields
  BY DEF QueryInv, HoldInv, Stands, RankSparseLane
<1>3. Ranking(query, data)
  BY <1>2 DEF QueryInv, Running
<1>4. fetch \in Nat
  BY <1>3, SearchAssumption DEF SearchAssumption, Most, Ranking
<1>5. slots \in Seq(Selected(data, query.filter))
  <2> HIDE DEF fetch
  <2> QED
    BY <1>2, <1>4, SparseLane DEF Lane
<1>6. Remembers(ids, found, slots, data, query.filter)
  <2> HIDE DEF slots
  <2> QED
    BY <1>2, <1>5, RemembersLane
<1>7. /\ DOMAIN seen = DOMAIN query.seen \cup DOMAIN found
      /\ \A i \in DOMAIN query.seen : seen[i] = query.seen[i]
      /\ \A i \in DOMAIN found \ DOMAIN query.seen : seen[i] = found[i]
  <2> HIDE DEF found
  <2> QED
    BY DEF Joined
<1> HIDE DEF fetch, slots, ids, found, seen
<1>8. /\ DOMAIN query' = QueryFields /\ query'.at = "lanes" /\ query'.filter = query.filter
      /\ query'.limit = query.limit /\ query'.alpha = query.alpha /\ query'.dense = query.dense
      /\ query'.slots = slots /\ query'.seen = seen
      /\ query'.touched = query.touched /\ query'.moved = query.moved
  BY <1>1, <1>2 DEF QueryFields
<1>9. slots \in Seq(Nat \ {0})
  <2>1. \A s \in Selected(data, query.filter) : s \in Nat \ {0}
    BY <1>2, ScoresAre DEF Selected, Live, Slot
  <2> QED
    BY <1>5, <2>1
<1>10. Ranking(query', data)
  <2>1. \A i \in DOMAIN found : /\ i \in Id /\ Matches(query.filter, found[i].pay)
                                /\ i \in DOMAIN data.slotOf /\ found[i] = PointAt(data, data.slotOf[i])
    BY <1>6 DEF Remembers
  <2>2. \A i \in DOMAIN query.seen :
           /\ i \in Id /\ Matches(query.filter, query.seen[i].pay)
           /\ i \notin query.touched => /\ i \in DOMAIN data.slotOf
                                        /\ query.seen[i] = PointAt(data, data.slotOf[i])
    BY <1>3 DEF Ranking
  <2>3. \A i \in DOMAIN seen : \/ i \in DOMAIN query.seen /\ seen[i] = query.seen[i]
                               \/ i \in DOMAIN found /\ seen[i] = found[i]
    BY <1>7
  <2>4. \A i \in DOMAIN seen :
           /\ i \in Id /\ Matches(query.filter, seen[i].pay)
           /\ i \notin query.touched => /\ i \in DOMAIN data.slotOf
                                        /\ seen[i] = PointAt(data, data.slotOf[i])
    BY <2>1, <2>2, <2>3
  <2>5. \A k \in DOMAIN slots : slots[k] \in Slot(data) /\ data.ids[slots[k]] \in DOMAIN seen
    BY <1>6, <1>7 DEF Remembers
  <2>6. \A k \in DOMAIN query.dense : query.dense[k] \in DOMAIN seen
    BY <1>3, <1>7 DEF Ranking
  <2>7. query.limit \in Nat /\ query.alpha \in 0..2 /\ query.dense \in Seq(Id)
    BY <1>3 DEF Ranking
  <2> QED
    BY <1>8, <1>9, <2>4, <2>5, <2>6, <2>7 DEF Ranking
<1> QED
  BY <1>2, <1>8, <1>10, QueryRuns DEF Running

-----------------------------------------------------------------------------
(* The end of a query.                                                      *)

(* What its hits have to be.                                                *)
GoodHits(hits, q) ==
    /\ Len(hits) <= q.limit
    /\ ~q.moved =>
          /\ IsInjective([k \in DOMAIN hits |-> hits[k].id])
          /\ \A k \in DOMAIN hits :
                /\ hits[k].id \in DOMAIN q.seen
                /\ hits[k].id \notin q.touched => /\ hits[k].pay = q.seen[hits[k].id].pay
                                                /\ Matches(q.filter, hits[k].pay)

LEMMA QueryEnds ==
    ASSUME QueryInv, UNCHANGED vars, NEW hits, GoodHits(hits, query),
           query' = [query EXCEPT !.at = "done", !.hits = hits]
    PROVE  QueryInv'
<1>1. HoldInv'
  BY DEF QueryInv, HoldInv, vars, Stands
<1>2. DOMAIN query = QueryFields
  BY DEF QueryInv
<1>3. /\ DOMAIN query' = QueryFields /\ query'.at = "done" /\ query'.hits = hits
      /\ query'.limit = query.limit /\ query'.seen = query.seen /\ query'.filter = query.filter
      /\ query'.touched = query.touched /\ query'.moved = query.moved
  BY <1>2 DEF QueryFields
<1>4. HitsAsRanked'
  BY <1>3 DEF HitsAsRanked, GoodHits
<1> QED
  BY <1>1, <1>3, <1>4 DEF QueryInv, Running

(* The slots found are where they were.                                     *)
LEMMA SlotsInside ==
    ASSUME NEW d, Sound(d), NEW q, Ranking(q, d), ~q.moved
    PROVE  ~ \E k \in DOMAIN q.slots : q.slots[k] > Len(d.ids)
<1>1. \A s \in Slot(d) : ~(s > Len(d.ids))
  <2>1. Len(d.ids) \in Nat
    BY SizesAre DEF Sound
  <2> QED
    BY <2>1 DEF Slot
<1> QED
  BY <1>1 DEF Ranking

(* A query of renumbered slots may panic.                                   *)
LEMMA QueryPanics ==
    ASSUME QueryInv, UNCHANGED vars, query.at \in Running,
           \E k \in DOMAIN query.slots : query.slots[k] > Len(data.ids),
           query' = [query EXCEPT !.at = "panicked"]
    PROVE  QueryInv'
<1>1. HoldInv' /\ Sound(data) /\ Ranking(query, data) /\ DOMAIN query = QueryFields
  BY DEF QueryInv, HoldInv, vars, Stands
<1>2. query.moved
  BY <1>1, SlotsInside
<1>3. DOMAIN query' = QueryFields /\ query'.at = "panicked" /\ query'.moved = query.moved
  BY <1>1 DEF QueryFields
<1>4. HitsAsRanked'
  BY <1>2, <1>3 DEF HitsAsRanked
<1> QED
  BY <1>1, <1>3, <1>4 DEF QueryInv, Running

LEMMA QueryProject == QueryInv /\ ProjectSparse => QueryInv'
<1> SUFFICES ASSUME QueryInv, ProjectSparse PROVE QueryInv'
  OBVIOUS
<1> DEFINE slots == query.slots
           hits == [k \in DOMAIN slots |-> Hit(data, slots[k])]
           outside == \E k \in DOMAIN slots : slots[k] > Len(data.ids)
<1>1. Sound(data) /\ UNCHANGED vars /\ Ranking(query, data) /\ SlotsLive(query, data)
      /\ query.at \in Running
  BY DEF QueryInv, HoldInv, Stands, ProjectSparse, Running
<1>2. CASE outside
  <2>1. query' = [query EXCEPT !.at = "panicked"]
    BY <1>2 DEF ProjectSparse
  <2> QED
    BY <1>1, <1>2, <2>1, QueryPanics
<1>3. CASE ~outside
  <2>1. query' = [query EXCEPT !.at = "done", !.hits = hits]
    BY <1>3 DEF ProjectSparse
  <2>2. DOMAIN hits = DOMAIN slots /\ Len(hits) = Len(slots) /\ Len(slots) <= query.limit
    <3>1. DOMAIN slots = 1..Len(slots) /\ Len(slots) \in Nat
      BY <1>1 DEF Ranking
    <3>2. DOMAIN hits = 1..Len(slots)
      BY <3>1
    <3> HIDE DEF hits
    <3> QED
      BY <1>1, <3>1, <3>2 DEF SlotsLive
  <2>3. \A k \in DOMAIN slots : hits[k].id = data.ids[slots[k]] /\ hits[k].pay = data.pays[slots[k]]
    BY DEF Hit
  <2> HIDE DEF slots, hits, outside
  <2>4. ASSUME ~query.moved, NEW k \in DOMAIN hits
        PROVE  /\ hits[k].id \in DOMAIN query.seen
               /\ hits[k].id \notin query.touched =>
                     /\ hits[k].pay = query.seen[hits[k].id].pay
                     /\ Matches(query.filter, hits[k].pay)
    <3>1. /\ hits[k].id = data.ids[slots[k]] /\ hits[k].pay = data.pays[slots[k]]
          /\ hits[k].id \in DOMAIN query.seen
      BY <1>1, <2>2, <2>3, <2>4 DEF Ranking, slots
    <3>2. ASSUME hits[k].id \notin query.touched
          PROVE  hits[k].pay = query.seen[hits[k].id].pay
      <4>1. data.slotOf[hits[k].id] = slots[k]
        BY <1>1, <2>2, <2>4, <3>1, <3>2 DEF SlotsLive, slots
      <4>2. query.seen[hits[k].id] = PointAt(data, slots[k])
        BY <1>1, <3>1, <3>2, <4>1 DEF Ranking
      <4> QED
        BY <3>1, <4>2 DEF PointAt
    <3> QED
      BY <1>1, <3>1, <3>2 DEF Ranking
  <2>5. ASSUME ~query.moved
        PROVE  IsInjective([k \in DOMAIN hits |-> hits[k].id])
    <3>1. \A j, k \in DOMAIN hits : hits[j].id = hits[k].id => j = k
      BY <1>1, <2>2, <2>3, <2>5 DEF SlotsLive, slots
    <3> QED
      BY <3>1 DEF IsInjective
  <2>6. GoodHits(hits, query)
    BY <2>2, <2>4, <2>5 DEF GoodHits
  <2> QED
    BY <1>1, <2>1, <2>6, QueryEnds
<1> QED
  BY <1>2, <1>3

(* A set is no larger than the sequence it is the range of.                 *)
LEMMA RangeSize ==
    ASSUME NEW S, NEW q \in Seq(S)
    PROVE  IsFiniteSet(Range(q)) /\ Cardinality(Range(q)) <= Len(q)
           /\ Cardinality(Range(q)) \in Nat
<1> DEFINE n == Len(q)
           T == Range(q)
<1>1. n \in Nat /\ DOMAIN q = 1..n
  OBVIOUS
<1>2. q \in [1..n -> T]
  <2>1. q = [k \in 1..n |-> q[k]]
    BY <1>1
  <2> QED
    BY <1>1, <2>1 DEF Range
<1>3. \A t \in T : \E k \in 1..n : q[k] = t
  BY <1>1 DEF Range
<1> HIDE DEF n, T
<1>4. q \in Surjection(1..n, T)
  BY <1>2, <1>3 DEF Surjection
<1>5. IsFiniteSet(1..n) /\ Cardinality(1..n) = n
  BY <1>1, FS_Interval
<1>6. IsFiniteSet(T) /\ Cardinality(T) <= n
  BY <1>4, <1>5, FS_Surjection
<1> QED
  BY <1>6, FS_CardinalityType DEF T, n

(* The best ids of the fused lanes, those of them that live.                *)
BestOf(dense, sparse, alpha, limit) ==
    First(Sorted(Range(dense) \cup Range(sparse), FusedBetter(dense, sparse, alpha)), limit)
KeptOf(dense, sparse, alpha, limit, L) ==
    Sorted(Range(BestOf(dense, sparse, alpha, limit)) \cap L, FusedBetter(dense, sparse, alpha))

(* As many as the limit at most, each once.                                 *)
IsKept(kept, dense, sparse, limit, L) ==
    /\ kept \in Seq(L) /\ Len(kept) <= limit /\ IsInjective(kept)
    /\ Range(kept) \subseteq Range(dense) \cup Range(sparse)

LEMMA FusedKept ==
    ASSUME NEW dense \in Seq(Id), NEW sparse \in Seq(Id), NEW alpha \in 0..2,
           NEW limit \in Nat, NEW L
    PROVE  IsKept(KeptOf(dense, sparse, alpha, limit, L), dense, sparse, limit, L)
<1> DEFINE best == BestOf(dense, sparse, alpha, limit)
           kept == KeptOf(dense, sparse, alpha, limit, L)
           R == FusedBetter(dense, sparse, alpha)
           U == Range(dense) \cup Range(sparse)
           T == Range(best) \cap L
<1>1. IsOrder(Id, R)
  BY FusedOrders
<1>2. U \in SUBSET Id
  <2>1. Range(dense) \subseteq Id /\ Range(sparse) \subseteq Id
    BY DEF Range
  <2> QED
    BY <2>1
<1>3. IsFiniteSet(U)
  <2>1. IsFiniteSet(Range(dense)) /\ IsFiniteSet(Range(sparse))
    BY RangeSize
  <2> QED
    BY <2>1, FS_Union
<1>4. best = First(Sorted(U, R), limit) /\ kept = Sorted(T, R)
  BY DEF BestOf, KeptOf
<1> HIDE DEF R, U, best, kept
<1>5. IsOrder(U, R)
  BY <1>1, <1>2, OrderWithin
<1>6. IsBest(best, U, limit)
  BY <1>3, <1>4, <1>5, BestIs
<1>7. best \in Seq(U) /\ Len(best) <= limit /\ Range(best) \subseteq U
  BY <1>3, <1>6, LeastIs, FS_CardinalityType DEF IsBest
<1>8. /\ IsFiniteSet(Range(best)) /\ Cardinality(Range(best)) <= Len(best)
      /\ Cardinality(Range(best)) \in Nat /\ Len(best) \in Nat
  BY <1>7, RangeSize
<1>9. IsFiniteSet(T) /\ Cardinality(T) <= Cardinality(Range(best)) /\ Cardinality(T) \in Nat
  BY <1>8, FS_Subset, FS_CardinalityType
<1>10. Cardinality(T) <= limit
  BY <1>7, <1>8, <1>9
<1>11. T \in SUBSET U /\ T \subseteq L
  BY <1>7
<1> HIDE DEF T
<1>12. IsOrder(T, R)
  BY <1>5, <1>11, OrderWithin
<1>13. kept \in Seq(T) /\ Len(kept) = Cardinality(T) /\ IsInjective(kept) /\ Range(kept) = T
  BY <1>4, <1>9, <1>12, SortedSeq
<1>14. kept \in Seq(L)
  BY <1>11, <1>13
<1>15. Len(kept) <= limit /\ IsInjective(kept) /\ Range(kept) \subseteq U
  BY <1>10, <1>11, <1>13
<1> QED
  BY <1>14, <1>15 DEF IsKept, U, kept

LEMMA QueryFuse == QueryInv /\ Fuse => QueryInv'
<1> SUFFICES ASSUME QueryInv, Fuse PROVE QueryInv'
  OBVIOUS
<1> DEFINE dense == query.dense
           sparse == IdsOf(data, query.slots)
           before == FusedBetter(dense, sparse, query.alpha)
           best == First(Sorted(Range(dense) \cup Range(sparse), before), query.limit)
           kept == Sorted(Range(best) \cap DOMAIN data.slotOf, before)
           hits == [k \in DOMAIN kept |-> Hit(data, data.slotOf[kept[k]])]
           outside == \E k \in DOMAIN query.slots : query.slots[k] > Len(data.ids)
<1>1. Sound(data) /\ UNCHANGED vars /\ Ranking(query, data) /\ query.at \in Running
  BY DEF QueryInv, HoldInv, Stands, Fuse, Running
<1>0. CASE outside
  <2>1. query' = [query EXCEPT !.at = "panicked"]
    BY <1>0 DEF Fuse
  <2> QED
    BY <1>0, <1>1, <2>1, QueryPanics
<1> SUFFICES ASSUME ~outside PROVE QueryInv'
  BY <1>0
<1>2. query' = [query EXCEPT !.at = "done", !.hits = hits]
  BY DEF Fuse
<1>3. /\ query.limit \in Nat /\ query.alpha \in 0..2 /\ dense \in Seq(Id)
      /\ query.slots \in Seq(Nat \ {0})
      /\ \A k \in DOMAIN dense : dense[k] \in DOMAIN query.seen
      /\ ~query.moved => \A k \in DOMAIN query.slots : data.ids[query.slots[k]] \in DOMAIN query.seen
      /\ \A i \in DOMAIN query.seen : /\ i \in Id /\ Matches(query.filter, query.seen[i].pay)
                                      /\ i \notin query.touched =>
                                            query.seen[i] = PointAt(data, data.slotOf[i])
  BY <1>1 DEF Ranking
<1>4. /\ sparse \in Seq(Id)
      /\ ~query.moved => \A k \in DOMAIN sparse : sparse[k] \in DOMAIN query.seen
  <2>1. sparse = [k \in DOMAIN query.slots |-> data.ids[query.slots[k]]]
    BY DEF IdsOf
  <2>2. DOMAIN query.slots = 1..Len(query.slots) /\ Len(query.slots) \in Nat
    BY <1>3
  <2>3. \A k \in DOMAIN query.slots : data.ids[query.slots[k]] \in Id
    <3>1. \A k \in DOMAIN query.slots : query.slots[k] \in Nat \ {0} /\ ~(query.slots[k] > Len(data.ids))
      BY <1>3
    <3>2. Len(data.ids) \in Nat /\ \A t \in 1..Len(data.ids) : data.ids[t] \in Id
      BY <1>1, SizesAre DEF Sound, Slot
    <3>3. \A k \in DOMAIN query.slots : query.slots[k] \in 1..Len(data.ids)
      BY <3>1, <3>2
    <3> QED
      BY <3>2, <3>3
  <2> HIDE DEF sparse
  <2>4. sparse \in [1..Len(query.slots) -> Id]
    BY <2>1, <2>2, <2>3
  <2> QED
    BY <1>3, <2>1, <2>2, <2>4
<1>5. /\ kept \in Seq(DOMAIN data.slotOf) /\ Len(kept) <= query.limit /\ IsInjective(kept)
      /\ Range(kept) \subseteq Range(dense) \cup Range(sparse)
  <2> DEFINE L == DOMAIN data.slotOf
             limit == query.limit
             alpha == query.alpha
  <2>1. kept = KeptOf(dense, sparse, alpha, limit, L)
    BY DEF KeptOf, BestOf
  <2>2. dense \in Seq(Id) /\ sparse \in Seq(Id) /\ alpha \in 0..2 /\ limit \in Nat
    BY <1>3, <1>4
  <2> HIDE DEF dense, sparse, kept, L, alpha, limit
  <2>3. IsKept(KeptOf(dense, sparse, alpha, limit, L), dense, sparse, limit, L)
    BY <2>2, FusedKept
  <2> QED
    BY <2>1, <2>3 DEF IsKept, L, limit
<1> HIDE DEF kept, sparse, dense, outside
<1>6. /\ \A k \in DOMAIN kept : kept[k] \in DOMAIN data.slotOf
      /\ ~query.moved => \A k \in DOMAIN kept : kept[k] \in DOMAIN query.seen
  <2>1. ~query.moved => \A i \in Range(dense) \cup Range(sparse) : i \in DOMAIN query.seen
    BY <1>3, <1>4 DEF Range
  <2>2. \A k \in DOMAIN kept : kept[k] \in Range(kept)
    BY DEF Range
  <2> QED
    BY <1>5, <2>1, <2>2
<1>7. \A i \in DOMAIN data.slotOf : data.ids[data.slotOf[i]] = i
  BY <1>1 DEF Sound, Mapped
<1>8. \A k \in DOMAIN kept : /\ hits[k].id = kept[k]
                             /\ hits[k].pay = data.pays[data.slotOf[kept[k]]]
  BY <1>6, <1>7 DEF Hit
<1>9. DOMAIN hits = DOMAIN kept /\ Len(hits) = Len(kept)
  <2>1. DOMAIN kept = 1..Len(kept) /\ Len(kept) \in Nat
    BY <1>5
  <2>2. DOMAIN hits = 1..Len(kept)
    BY <2>1
  <2> HIDE DEF hits
  <2> QED
    BY <2>1, <2>2
<1> HIDE DEF hits
<1>10. ASSUME ~query.moved, NEW k \in DOMAIN hits
       PROVE  /\ hits[k].id \in DOMAIN query.seen
              /\ hits[k].id \notin query.touched =>
                    /\ hits[k].pay = query.seen[hits[k].id].pay
                    /\ Matches(query.filter, hits[k].pay)
  <2>1. /\ hits[k].id = kept[k] /\ hits[k].pay = data.pays[data.slotOf[kept[k]]]
        /\ kept[k] \in DOMAIN query.seen
    BY <1>6, <1>8, <1>9, <1>10
  <2>2. ASSUME kept[k] \notin query.touched
        PROVE  query.seen[kept[k]].pay = hits[k].pay
    <3>1. query.seen[kept[k]] = PointAt(data, data.slotOf[kept[k]])
      BY <1>3, <2>1, <2>2
    <3> QED
      BY <2>1, <3>1 DEF PointAt
  <2> QED
    BY <1>3, <2>1, <2>2
<1>11. IsInjective([k \in DOMAIN hits |-> hits[k].id])
  <2>1. \A j, k \in DOMAIN hits : hits[j].id = hits[k].id => j = k
    BY <1>5, <1>8, <1>9 DEF IsInjective
  <2> QED
    BY <2>1 DEF IsInjective
<1>12. GoodHits(hits, query)
  BY <1>5, <1>9, <1>10, <1>11 DEF GoodHits
<1> QED
  BY <1>1, <1>2, <1>12, QueryEnds

LEMMA QueryNext == QueryInv /\ [SearchNext]_<<vars, query>> => QueryInv'
<1> SUFFICES ASSUME QueryInv, [SearchNext]_<<vars, query>> PROVE QueryInv'
  OBVIOUS
<1>1. HoldInv'
  BY SearchStays DEF QueryInv
<1>2. ASSUME NEW i \in Id, NEW p \in Point, UpsertBatch(<< <<i, p>> >>), Noted({i}, FALSE)
      PROVE  QueryInv'
  BY <1>1, <1>2, QueryWriters
<1>3. ASSUME NEW i \in DOMAIN data.slotOf, DeleteBatch({i}), Noted({i}, FALSE)
      PROVE  QueryInv'
  BY <1>1, <1>3, QueryWriters
<1>4. CASE (Compact /\ Noted({}, TRUE)) \/ (Reindex /\ Noted({}, FALSE))
  BY <1>1, <1>4, QueryWriters
<1>5. CASE RankSparse \/ ProjectSparse
  BY <1>5, QueryRankSparse, QueryProject
<1>6. CASE RankDense \/ RankSparseLane \/ Fuse
  BY <1>6, QueryRankDense, QueryRankSparseLane, QueryFuse
<1>7. CASE UNCHANGED <<vars, query>>
  <2>1. data' = data /\ query' = query
    BY <1>7 DEF vars
  <2> QED
    BY <1>1, <2>1 DEF QueryInv, HitsAsRanked
<1> QED
  BY <1>2, <1>3, <1>4, <1>5, <1>6, <1>7 DEF SearchNext

(* A sparse or hybrid query gives the lock up between ranking and           *)
(* projecting (search_sparse, execute_hybrid), and anything may be written  *)
(* meanwhile.  Its hits are points it ranked, each once; those nobody wrote *)
(* since have the payload they had then, which passes the filter, however   *)
(* many other points were upserted, replaced or deleted; and only a         *)
(* compaction can send it to other points or outside the array.             *)
THEOREM HitsAreRanked == SearchSpec => []HitsAsRanked
<1>1. QueryInv => HitsAsRanked
  BY DEF QueryInv
<1> QED
  BY <1>1, QueryStart, QueryNext, PTL DEF SearchSpec


=============================================================================
