----------------------------- MODULE StoreProof -----------------------------
(***************************************************************************)
(* What Store promises, proved for any threads, collections, ids, values,  *)
(* faults and bounds: the invariants and the action property its runs      *)
(* check, and that it implements Durable.  Nothing is assumed of who calls *)
(* what; a state counts until the history notes a mishap, and NoMishap'    *)
(* is what a step proof uses of it.                                        *)
(*                                                                         *)
(* The argument is one inductive invariant, IInv.  In it the history is    *)
(* what the WAL replays, behind the first `walFrom` writes (Log); the TOC  *)
(* holds some beginning of it that ends inside the WAL (File), so that     *)
(* replaying the WAL over it, whatever part it already holds, yields all   *)
(* of it (Overwrite); memory is all of it but the writes in flight         *)
(* (Memory); and whatever a checkpoint has sealed, committed or is about   *)
(* to mark still is what memory holds (Jobs), because no write runs beside *)
(* it (Alone).  Then one lemma per action.                                 *)
(***************************************************************************)
EXTENDS Store, FoldLemmas

-----------------------------------------------------------------------------
(* What replaying a sequence of updates does to the points (ApplyAll of     *)
(* Store), for sequences of any length: facts about logs, none about steps. *)

(* What an entry may set: any values, absences, or nothing at all.          *)
Patch == UNION {[S -> Val \cup {Absent}] : S \in SUBSET Id}

(* A finite sequence of entries; nothing but `coll` and `upd` is looked at. *)
IsLog(w) ==
    /\ Len(w) \in Nat /\ DOMAIN w = 1..Len(w)
    /\ \A i \in 1..Len(w) : w[i].coll \in Coll /\ w[i].upd \in Patch

(* Two logs say the same up to n.                                           *)
SameTo(v, w, n) == \A i \in 1..n : v[i].coll = w[i].coll /\ v[i].upd = w[i].upd

(* What log x says behind its first n entries is what log w says.           *)
Follows(x, n, w) ==
    \A i \in 1..Len(w) : x[n + i].coll = w[i].coll /\ x[n + i].upd = w[i].upd

(* Entry e writes the id i of collection c.                                 *)
Sets(e, c, i) == e.coll = c /\ i \in DOMAIN e.upd

-----------------------------------------------------------------------------
(* One entry.                                                               *)

(* What a patch sets.                                                       *)
LEMMA PatchType ==
    ASSUME NEW u \in Patch
    PROVE  DOMAIN u \subseteq Id /\ \A i \in DOMAIN u : u[i] \in Val \cup {Absent}
  BY DEF Patch

(* The patch that sets nothing.                                             *)
LEMMA NoUpdatePatch == NoUpdate \in Patch /\ DOMAIN NoUpdate = {}
<1>1. NoUpdate \in [{} -> Val \cup {Absent}] /\ {} \in SUBSET Id
  BY DEF NoUpdate
<1> QED
  BY <1>1 DEF Patch, NoUpdate

(* What ApplyTo yields, id by id.                                           *)
LEMMA ApplyToIs ==
    ASSUME NEW s \in States, NEW c \in Coll, NEW u \in Patch
    PROVE  /\ ApplyTo(s, c, u) \in States
           /\ \A d \in Coll, i \in Id : ApplyTo(s, c, u)[d][i] =
                 IF d = c /\ i \in DOMAIN u THEN u[i] ELSE s[d][i]
<1>1. \A i \in DOMAIN u : u[i] \in Val \cup {Absent}
  BY PatchType
<1>2. s[c] \in [Id -> Val \cup {Absent}]
  BY DEF States, Points
<1>3. [i \in Id |-> IF i \in DOMAIN u THEN u[i] ELSE s[c][i]] \in [Id -> Val \cup {Absent}]
  BY <1>1, <1>2
<1>4. ApplyTo(s, c, u) = [s EXCEPT ![c] = [i \in Id |-> IF i \in DOMAIN u THEN u[i] ELSE s[c][i]]]
  BY DEF ApplyTo
<1> QED
  BY <1>3, <1>4 DEF States, Points

(* The same of an entry.                                                    *)
LEMMA EntryIs ==
    ASSUME NEW s \in States, NEW e, e.coll \in Coll, e.upd \in Patch,
           NEW c \in Coll, NEW i \in Id
    PROVE  ApplyTo(s, e.coll, e.upd)[c][i] = IF Sets(e, c, i) THEN e.upd[i] ELSE s[c][i]
  BY ApplyToIs DEF Sets

(* Points are equal when they are id by id.                                 *)
LEMMA SamePoints ==
    ASSUME NEW s \in States, NEW z \in States,
           \A c \in Coll, i \in Id : s[c][i] = z[c][i]
    PROVE  s = z
<1>1. \A c \in Coll : s[c] = z[c]
  <2> TAKE c \in Coll
  <2>1. s[c] \in [Id -> Val \cup {Absent}] /\ z[c] \in [Id -> Val \cup {Absent}]
    BY DEF States, Points
  <2> QED
    BY <2>1
<1> QED
  BY <1>1 DEF States

(* An entry that sets nothing changes nothing.                              *)
LEMMA ApplyNothing ==
    ASSUME NEW s \in States, NEW c \in Coll
    PROVE  ApplyTo(s, c, NoUpdate) = s
<1> DEFINE z == ApplyTo(s, c, NoUpdate)
<1>1. z \in States /\ \A d \in Coll, i \in Id : z[d][i] = s[d][i]
  BY NoUpdatePatch, ApplyToIs
<1> HIDE DEF z
<1>2. z = s
  BY <1>1, SamePoints
<1> QED
  BY <1>2 DEF z

(* What does not touch a collection leaves its points.                      *)
LEMMA NoTouch ==
    ASSUME NEW s \in States, NEW c \in Coll, NEW u \in Patch, ~Touches(s[c], u)
    PROVE  ApplyTo(s, c, u) = s
<1> DEFINE z == ApplyTo(s, c, u)
<1>1. \A i \in DOMAIN u : u[i] = Absent /\ s[c][i] = Absent
  BY DEF Touches
<1>2. z \in States /\ \A d \in Coll, i \in Id : z[d][i] = s[d][i]
  BY <1>1, ApplyToIs
<1> HIDE DEF z
<1>3. z = s
  BY <1>2, SamePoints
<1> QED
  BY <1>3 DEF z

-----------------------------------------------------------------------------
(* A log.                                                                   *)

(* The points after each entry: A[n] after the first n.                     *)
IsTrace(A, s, w) ==
    /\ A \in [0..Len(w) -> States]
    /\ A[0] = s
    /\ \A k \in 1..Len(w) : A[k] = ApplyTo(A[k - 1], w[k].coll, w[k].upd)

(* ApplyAll goes through them.                                              *)
LEMMA Trace ==
    ASSUME NEW s \in States, NEW w, IsLog(w)
    PROVE  \E A : IsTrace(A, s, w) /\ A[Len(w)] = ApplyAll(s, w)
<1> DEFINE N == Len(w)
           G == [k \in 1..N |-> [x \in States |-> ApplyTo(x, w[k].coll, w[k].upd)]]
           A == [n \in 0..N |-> Iterate(G, s, n)]
<1>0. N \in Nat /\ DOMAIN w = 1..N
  BY DEF IsLog
<1>1. Steps(G, States, N)
  <2> SUFFICES ASSUME NEW k \in 1..N PROVE G[k] \in [States -> States]
    BY DEF Steps
  <2>1. \A x \in States : ApplyTo(x, w[k].coll, w[k].upd) \in States
    BY ApplyToIs DEF IsLog
  <2> QED
    BY <2>1
<1>2. /\ Iterate(G, s, 0) = s
      /\ \A n \in 0..N : Iterate(G, s, n) \in States
      /\ \A n \in 1..N : Iterate(G, s, n) = G[n][Iterate(G, s, n - 1)]
  <2> HIDE DEF G, N
  <2>1. Iterates(G, States, s, N)
    BY <1>0, <1>1, IterateSteps
  <2> QED
    BY ONLY <2>1 DEF Iterates
<1>3. IsTrace(A, s, w)
  <2>1. A \in [0..N -> States] /\ A[0] = s
    BY <1>0, <1>2
  <2>2. ASSUME NEW k \in 1..N
        PROVE  A[k] = ApplyTo(A[k - 1], w[k].coll, w[k].upd)
    <3>1. k \in 0..N /\ k - 1 \in 0..N
      BY <1>0
    <3>2. A[k] = G[k][A[k - 1]] /\ A[k - 1] \in States
      BY <3>1, <1>2
    <3> QED
      BY <3>2
  <2> QED
    BY <2>1, <2>2 DEF IsTrace
<1>4. ApplyAll(s, w) = Iterate(G, s, N)
  <2> DEFINE IsSol(g) == g = [S \in SUBSET (1..N) |-> IF S = {} THEN s
                                ELSE ApplyTo(g[S \ {Max(S)}], w[Max(S)].coll, w[Max(S)].upd)]
             g0 == CHOOSE g : IsSol(g)
  <2>1. \E g : IsSol(g)
    <3>1. PICK f \in [SUBSET (1..N) -> States] : IsFold(f, G, s, N)
      <4> HIDE DEF G, N
      <4> QED
        BY <1>0, <1>1, FoldExists
    <3>2. ASSUME NEW S \in SUBSET (1..N), S # {}
          PROVE  /\ Max(S) \in 1..N
                 /\ f[S] = ApplyTo(f[S \ {Max(S)}], w[Max(S)].coll, w[Max(S)].upd)
      <4>1. Max(S) \in S
        <5> HIDE DEF N
        <5> QED
          BY <3>2, <1>0, MaxExists
      <4>2. f[S \ {Max(S)}] \in States
        BY <3>1
      <4>3. f[S] = G[Max(S)][f[S \ {Max(S)}]]
        BY <3>1, <3>2 DEF IsFold
      <4> QED
        BY <4>1, <4>2, <4>3
    <3>3. f[{}] = s
      BY <3>1 DEF IsFold
    <3>4. IsSol(f)
      BY <3>1, <3>2, <3>3
    <3> QED
      BY <3>4
  <2>2. IsSol(g0)
    BY <2>1
  <2>3. ApplyAll(s, w) = g0[1..N]
    BY <1>0 DEF ApplyAll, FoldLeft, MapThenFoldSet
  <2>4. g0[{}] = s
    <3> HIDE DEF g0
    <3> QED
      BY <2>2
  <2>5. ASSUME NEW k \in 1..N, g0[1..(k - 1)] \in States
        PROVE  g0[1..k] = G[k][g0[1..(k - 1)]]
    <3>1. Max(1..k) = k /\ (1..k) \ {k} = 1..(k - 1)
      BY MaxOfInterval
    <3>2. 1..k \in SUBSET (1..N) /\ 1..k # {}
      <4>1. N \in Nat /\ k \in 1..N
        BY <1>0
      <4>2. k \in 1..k
        BY <4>1
      <4> HIDE DEF N
      <4> QED
        BY <4>1, <4>2
    <3>3. g0[1..k] = ApplyTo(g0[1..(k - 1)], w[k].coll, w[k].upd)
      <4> HIDE DEF g0
      <4> QED
        BY <2>2, <3>1, <3>2
    <3> QED
      BY <3>3, <2>5
  <2>6. g0[1..N] = Iterate(G, s, N)
    <3> HIDE DEF g0, G, N
    <3> QED
      BY <1>0, <1>1, <2>4, <2>5, FoldIsIterate
  <2> QED
    BY <2>3, <2>6
<1>5. A[N] = ApplyAll(s, w)
  BY <1>0, <1>4
<1> QED
  <2> HIDE DEF A
  <2> QED
    BY <1>3, <1>5

(* What ApplyAll returns is points.                                         *)
LEMMA ApplyAllType ==
    ASSUME NEW s \in States, NEW w, IsLog(w)
    PROVE  ApplyAll(s, w) \in States
<1>1. PICK A : IsTrace(A, s, w) /\ A[Len(w)] = ApplyAll(s, w)
  BY Trace
<1>2. Len(w) \in 0..Len(w)
  BY DEF IsLog
<1> QED
  BY <1>1, <1>2 DEF IsTrace

(* The traces of logs that say the same for a while agree for that while.   *)
LEMMA SameTrace ==
    ASSUME NEW s \in States, NEW v, IsLog(v), NEW w, IsLog(w),
           NEW n \in Nat, n <= Len(v), n <= Len(w), SameTo(v, w, n),
           NEW A, IsTrace(A, s, v), NEW B, IsTrace(B, s, w)
    PROVE  \A k \in 0..n : A[k] = B[k]
<1> DEFINE S == {k \in 0..n : A[k] = B[k]}
<1>1. 0 \in S
  BY DEF IsTrace
<1>2. ASSUME NEW k \in 0..n, k < n, k \in S
      PROVE  k + 1 \in S
  <2>1. k + 1 \in 1..n /\ k + 1 \in 1..Len(v) /\ k + 1 \in 1..Len(w) /\ (k + 1) - 1 = k
    BY <1>2 DEF IsLog
  <2>2. A[k + 1] = ApplyTo(A[k], v[k + 1].coll, v[k + 1].upd)
    BY <2>1 DEF IsTrace
  <2>3. B[k + 1] = ApplyTo(B[k], w[k + 1].coll, w[k + 1].upd)
    BY <2>1 DEF IsTrace
  <2> QED
    BY <2>1, <2>2, <2>3, <1>2 DEF SameTo
<1>3. \A k \in 0..n : k \in S
  <2> HIDE DEF S
  <2> QED
    BY <1>1, <1>2, BoundedInduction
<1> QED
  BY <1>3

(* Every stage of a trace is what ApplyAll makes of that much of the log.   *)
LEMMA Stages ==
    ASSUME NEW s \in States, NEW w, IsLog(w), NEW A, IsTrace(A, s, w),
           NEW v, IsLog(v), Len(v) <= Len(w), SameTo(v, w, Len(v))
    PROVE  A[Len(v)] = ApplyAll(s, v)
<1>1. PICK B : IsTrace(B, s, v) /\ B[Len(v)] = ApplyAll(s, v)
  BY Trace
<1>2. Len(v) \in Nat /\ Len(v) <= Len(v)
  BY DEF IsLog
<1>3. SameTo(w, v, Len(v))
  BY DEF SameTo
<1>4. \A k \in 0..Len(v) : A[k] = B[k]
  BY <1>1, <1>2, <1>3, SameTrace
<1> QED
  BY <1>1, <1>2, <1>4

(* Nothing else of a log matters.                                           *)
LEMMA SameLog ==
    ASSUME NEW s \in States, NEW v, IsLog(v), NEW w, IsLog(w),
           Len(v) = Len(w), SameTo(v, w, Len(v))
    PROVE  ApplyAll(s, v) = ApplyAll(s, w)
<1>1. PICK A : IsTrace(A, s, w) /\ A[Len(w)] = ApplyAll(s, w)
  BY Trace
<1>2. Len(v) <= Len(w)
  BY DEF IsLog
<1>3. A[Len(v)] = ApplyAll(s, v)
  BY <1>1, <1>2, Stages
<1> QED
  BY <1>1, <1>3

(* The empty log.                                                           *)
LEMMA EmptyLog ==
    ASSUME NEW s \in States, NEW w, IsLog(w), Len(w) = 0
    PROVE  ApplyAll(s, w) = s
<1>1. PICK A : IsTrace(A, s, w) /\ A[Len(w)] = ApplyAll(s, w)
  BY Trace
<1> QED
  BY <1>1 DEF IsTrace

(* The last entry is applied last.                                          *)
LEMMA LastEntry ==
    ASSUME NEW s \in States, NEW v, IsLog(v), NEW w, IsLog(w),
           Len(w) = Len(v) + 1, SameTo(v, w, Len(v))
    PROVE  ApplyAll(s, w) = ApplyTo(ApplyAll(s, v), w[Len(w)].coll, w[Len(w)].upd)
<1>1. PICK A : IsTrace(A, s, w) /\ A[Len(w)] = ApplyAll(s, w)
  BY Trace
<1>2. Len(v) <= Len(w) /\ Len(w) \in 1..Len(w) /\ Len(w) - 1 = Len(v)
  BY DEF IsLog
<1>3. A[Len(v)] = ApplyAll(s, v)
  BY <1>1, <1>2, Stages
<1>4. A[Len(w)] = ApplyTo(A[Len(v)], w[Len(w)].coll, w[Len(w)].upd)
  BY <1>1, <1>2 DEF IsTrace
<1> QED
  BY <1>1, <1>3, <1>4

(* Two logs, one after the other.                                           *)
LEMMA Concatenation ==
    ASSUME NEW s \in States, NEW v, IsLog(v), NEW w, IsLog(w), NEW x, IsLog(x),
           Len(x) = Len(v) + Len(w), SameTo(v, x, Len(v)),
           Follows(x, Len(v), w)
    PROVE  ApplyAll(s, x) = ApplyAll(ApplyAll(s, v), w)
<1>0. Len(v) \in Nat /\ Len(w) \in Nat /\ Len(v) <= Len(x)
  BY DEF IsLog
<1>1. PICK A : IsTrace(A, s, x) /\ A[Len(x)] = ApplyAll(s, x)
  BY Trace
<1>2. A[Len(v)] = ApplyAll(s, v)
  BY <1>0, <1>1, Stages
<1>3. PICK B : IsTrace(B, ApplyAll(s, v), w) /\ B[Len(w)] = ApplyAll(ApplyAll(s, v), w)
  BY ApplyAllType, Trace
<1> DEFINE S == {k \in 0..Len(w) : A[Len(v) + k] = B[k]}
<1>4. 0 \in S
  BY <1>0, <1>2, <1>3 DEF IsTrace
<1>5. ASSUME NEW k \in 0..Len(w), k < Len(w), k \in S
      PROVE  k + 1 \in S
  <2>1. /\ k + 1 \in 1..Len(w) /\ (k + 1) - 1 = k
        /\ Len(v) + (k + 1) \in 1..Len(x) /\ (Len(v) + (k + 1)) - 1 = Len(v) + k
    BY <1>0, <1>5
  <2>2. A[Len(v) + (k + 1)] =
          ApplyTo(A[Len(v) + k], x[Len(v) + (k + 1)].coll, x[Len(v) + (k + 1)].upd)
    BY <1>1, <2>1 DEF IsTrace
  <2>3. B[k + 1] = ApplyTo(B[k], w[k + 1].coll, w[k + 1].upd)
    BY <1>3, <2>1 DEF IsTrace
  <2> QED
    BY <2>1, <2>2, <2>3, <1>0, <1>5 DEF Follows
<1>6. \A k \in 0..Len(w) : k \in S
  <2> HIDE DEF S
  <2> QED
    BY <1>0, <1>4, <1>5, BoundedInduction
<1> QED
  BY <1>0, <1>1, <1>3, <1>6

(* Where it starts from matters only to what a log does not set.            *)
LEMMA Overwrite ==
    ASSUME NEW s \in States, NEW z \in States, NEW w, IsLog(w),
           \A c \in Coll, i \in Id :
              s[c][i] = z[c][i] \/ \E k \in 1..Len(w) : Sets(w[k], c, i)
    PROVE  ApplyAll(s, w) = ApplyAll(z, w)
<1>0. Len(w) \in Nat
  BY DEF IsLog
<1>1. PICK A : IsTrace(A, s, w) /\ A[Len(w)] = ApplyAll(s, w)
  BY Trace
<1>2. PICK B : IsTrace(B, z, w) /\ B[Len(w)] = ApplyAll(z, w)
  BY Trace
<1> DEFINE S == {n \in 0..Len(w) : \A c \in Coll, i \in Id :
                    s[c][i] = z[c][i] \/ (\E k \in 1..n : Sets(w[k], c, i))
                    => A[n][c][i] = B[n][c][i]}
<1>3. 0 \in S
  BY <1>0, <1>1, <1>2 DEF IsTrace
<1>4. ASSUME NEW n \in 0..Len(w), n < Len(w), n \in S
      PROVE  n + 1 \in S
  <2>1. n + 1 \in 1..Len(w) /\ (n + 1) - 1 = n
    BY <1>0, <1>4
  <2>2. /\ A[n + 1] = ApplyTo(A[n], w[n + 1].coll, w[n + 1].upd) /\ A[n] \in States
        /\ B[n + 1] = ApplyTo(B[n], w[n + 1].coll, w[n + 1].upd) /\ B[n] \in States
    BY <1>1, <1>2, <2>1 DEF IsTrace
  <2>3. w[n + 1].coll \in Coll /\ w[n + 1].upd \in Patch
    BY <2>1 DEF IsLog
  <2> SUFFICES ASSUME NEW c \in Coll, NEW i \in Id,
                      s[c][i] = z[c][i] \/ (\E k \in 1..(n + 1) : Sets(w[k], c, i))
               PROVE  A[n + 1][c][i] = B[n + 1][c][i]
    BY <2>1
  <2>4. CASE Sets(w[n + 1], c, i)
    BY <2>2, <2>3, <2>4, EntryIs
  <2>5. CASE ~Sets(w[n + 1], c, i)
    <3>1. s[c][i] = z[c][i] \/ (\E k \in 1..n : Sets(w[k], c, i))
      BY <2>1, <2>5
    <3>2. A[n][c][i] = B[n][c][i]
      BY <3>1, <1>4
    <3>3. A[n + 1][c][i] = A[n][c][i] /\ B[n + 1][c][i] = B[n][c][i]
      BY <2>2, <2>3, <2>5, EntryIs
    <3> QED
      BY <3>2, <3>3
  <2> QED
    BY <2>4, <2>5
<1>5. \A n \in 0..Len(w) : n \in S
  <2> HIDE DEF S
  <2> QED
    BY <1>0, <1>3, <1>4, BoundedInduction
<1>6. \A c \in Coll, i \in Id : ApplyAll(s, w)[c][i] = ApplyAll(z, w)[c][i]
  <2>1. Len(w) \in S
    <3> HIDE DEF S
    <3> QED
      BY <1>0, <1>5
  <2> QED
    BY <1>1, <1>2, <2>1
<1> QED
  BY <1>6, ApplyAllType, SamePoints

(* What a log does not set stays.                                           *)
LEMMA Untouched ==
    ASSUME NEW s \in States, NEW w, IsLog(w), NEW c \in Coll, NEW i \in Id,
           \A k \in 1..Len(w) : ~Sets(w[k], c, i)
    PROVE  ApplyAll(s, w)[c][i] = s[c][i]
<1>0. Len(w) \in Nat
  BY DEF IsLog
<1>1. PICK A : IsTrace(A, s, w) /\ A[Len(w)] = ApplyAll(s, w)
  BY Trace
<1> DEFINE S == {n \in 0..Len(w) : A[n][c][i] = s[c][i]}
<1>2. 0 \in S
  BY <1>0, <1>1 DEF IsTrace
<1>3. ASSUME NEW n \in 0..Len(w), n < Len(w), n \in S
      PROVE  n + 1 \in S
  <2>1. n + 1 \in 1..Len(w) /\ (n + 1) - 1 = n
    BY <1>0, <1>3
  <2>2. A[n + 1] = ApplyTo(A[n], w[n + 1].coll, w[n + 1].upd) /\ A[n] \in States
    BY <1>1, <2>1 DEF IsTrace
  <2>3. w[n + 1].coll \in Coll /\ w[n + 1].upd \in Patch
    BY <2>1 DEF IsLog
  <2>4. A[n + 1][c][i] = A[n][c][i]
    BY <2>1, <2>2, <2>3, EntryIs
  <2> QED
    BY <2>1, <2>4, <1>3
<1>4. \A n \in 0..Len(w) : n \in S
  <2> HIDE DEF S
  <2> QED
    BY <1>0, <1>2, <1>3, BoundedInduction
<1> QED
  BY <1>0, <1>1, <1>4

(* Replaying a whole log over points that already hold the beginning of it, *)
(* or most of the beginning, gives what replaying it once gives.            *)
LEMMA ReplayAgain ==
    ASSUME NEW s \in States, NEW v, IsLog(v), NEW w, IsLog(w), Len(v) <= Len(w),
           \A i \in 1..Len(v) : v[i].coll = w[i].coll
                               /\ (v[i].upd = w[i].upd \/ v[i].upd = NoUpdate)
    PROVE  ApplyAll(ApplyAll(s, v), w) = ApplyAll(s, w)
<1>1. ApplyAll(s, v) \in States
  BY ApplyAllType
<1>2. ASSUME NEW c \in Coll, NEW i \in Id, \A k \in 1..Len(w) : ~Sets(w[k], c, i)
      PROVE  ApplyAll(s, v)[c][i] = s[c][i]
  <2>1. \A k \in 1..Len(v) : ~Sets(v[k], c, i)
    BY <1>2, NoUpdatePatch DEF Sets, IsLog
  <2> QED
    BY <2>1, Untouched
<1> QED
  BY <1>1, <1>2, Overwrite

(* An entry that is blank in v and applied late, behind entries that set    *)
(* none of its ids, might as well have been applied in its place.           *)
LEMMA ApplyLate ==
    ASSUME NEW s \in States, NEW v, IsLog(v), NEW w, IsLog(w), Len(v) = Len(w),
           NEW p \in 1..Len(w), v[p].upd = NoUpdate,
           \A i \in 1..Len(w) : i # p => v[i].coll = w[i].coll /\ v[i].upd = w[i].upd,
           \A i \in (p + 1)..Len(w) :
              w[i].coll = w[p].coll => DOMAIN w[i].upd \cap DOMAIN w[p].upd = {}
    PROVE  ApplyAll(s, w) = ApplyTo(ApplyAll(s, v), w[p].coll, w[p].upd)
<1>0. Len(w) \in Nat /\ w[p].coll \in Coll /\ w[p].upd \in Patch
  BY DEF IsLog
<1>1. PICK A : IsTrace(A, s, v) /\ A[Len(v)] = ApplyAll(s, v)
  BY Trace
<1>2. PICK B : IsTrace(B, s, w) /\ B[Len(w)] = ApplyAll(s, w)
  BY Trace
<1> DEFINE Late(n) == ApplyTo(A[n], w[p].coll, w[p].upd)
           S == {n \in 0..Len(w) : B[n] = IF n < p THEN A[n] ELSE Late(n)}
<1>3. 0 \in S
  BY <1>0, <1>1, <1>2 DEF IsTrace
<1>4. ASSUME NEW n \in 0..Len(w), n < Len(w), n \in S
      PROVE  n + 1 \in S
  <2>1. n + 1 \in 1..Len(w) /\ (n + 1) - 1 = n
    BY <1>0, <1>4
  <2>2. /\ A[n + 1] = ApplyTo(A[n], v[n + 1].coll, v[n + 1].upd) /\ A[n] \in States
        /\ B[n + 1] = ApplyTo(B[n], w[n + 1].coll, w[n + 1].upd) /\ B[n] \in States
        /\ A[n + 1] \in States /\ B[n + 1] \in States
    <3>1. n + 1 \in 1..Len(v) /\ n + 1 \in 0..Len(v) /\ n \in 0..Len(v)
      BY <1>0, <2>1
    <3>2. n + 1 \in 0..Len(w) /\ n \in 0..Len(w)
      BY <1>0, <2>1
    <3> QED
      BY <1>1, <1>2, <2>1, <3>1, <3>2 DEF IsTrace
  <2>3. /\ w[n + 1].coll \in Coll /\ w[n + 1].upd \in Patch
        /\ v[n + 1].coll \in Coll /\ v[n + 1].upd \in Patch
    BY <2>1 DEF IsLog
  <2>4. CASE n + 1 < p
    BY <2>1, <2>2, <2>4, <1>4
  <2>5. CASE n + 1 = p
    <3>1. A[n + 1] = A[n] /\ B[n] = A[n]
      BY <2>1, <2>2, <2>3, <2>5, <1>4, ApplyNothing
    <3> QED
      BY <2>1, <2>2, <2>5, <3>1
  <2>6. CASE n + 1 > p
    <3>1. /\ w[n + 1].coll = w[p].coll => DOMAIN w[n + 1].upd \cap DOMAIN w[p].upd = {}
          /\ v[n + 1].coll = w[n + 1].coll /\ v[n + 1].upd = w[n + 1].upd
      BY <2>1, <2>6
    <3>2. B[n] = Late(n)
      BY <2>1, <2>6, <1>4
    <3>3. Late(n) \in States /\ Late(n + 1) \in States
      BY <1>0, <2>2, ApplyToIs
    <3>4. ASSUME NEW c \in Coll, NEW i \in Id
          PROVE  B[n + 1][c][i] = Late(n + 1)[c][i]
      <4>1. B[n + 1][c][i] = IF Sets(w[n + 1], c, i) THEN w[n + 1].upd[i] ELSE Late(n)[c][i]
        BY <2>2, <2>3, <3>2, <3>3, EntryIs
      <4>2. Late(n)[c][i] = IF Sets(w[p], c, i) THEN w[p].upd[i] ELSE A[n][c][i]
        BY <1>0, <2>2, EntryIs
      <4>3. A[n + 1][c][i] = IF Sets(w[n + 1], c, i) THEN w[n + 1].upd[i] ELSE A[n][c][i]
        BY <2>2, <2>3, <3>1, EntryIs
      <4>4. Late(n + 1)[c][i] = IF Sets(w[p], c, i) THEN w[p].upd[i] ELSE A[n + 1][c][i]
        BY <1>0, <2>2, EntryIs
      <4> QED
        BY <3>1, <4>1, <4>2, <4>3, <4>4 DEF Sets
    <3>5. B[n + 1] = Late(n + 1)
      <4> HIDE DEF Late
      <4> QED
        BY <2>2, <3>3, <3>4, SamePoints
    <3> QED
      BY <2>1, <2>6, <3>5
  <2> QED
    BY <2>1, <2>4, <2>5, <2>6
<1>5. \A n \in 0..Len(w) : n \in S
  <2> HIDE DEF S
  <2> QED
    BY <1>0, <1>3, <1>4, BoundedInduction
<1>6. Len(w) \in S
  <2> HIDE DEF S
  <2> QED
    BY <1>0, <1>5
<1> QED
  BY <1>0, <1>1, <1>2, <1>6

(* The first entries of a log.                                              *)
LEMMA SubLog ==
    ASSUME NEW E, NEW w \in Seq(E), IsLog(w), NEW n \in 0..Len(w)
    PROVE  /\ IsLog(SubSeq(w, 1, n)) /\ Len(SubSeq(w, 1, n)) = n
           /\ SameTo(SubSeq(w, 1, n), w, n)
<1>1. /\ SubSeq(w, 1, n) \in Seq(E) /\ Len(SubSeq(w, 1, n)) = n
      /\ \A i \in 1..n : SubSeq(w, 1, n)[i] = w[i]
  OBVIOUS
<1>2. DOMAIN SubSeq(w, 1, n) = 1..n
  BY <1>1
<1> QED
  BY <1>1, <1>2 DEF IsLog, SameTo

(* A replay that touches a collection nowhere leaves it.                    *)
LEMMA CleanReplay ==
    ASSUME NEW s \in States, NEW E, NEW w \in Seq(E), IsLog(w), NEW c \in Coll,
           \A k \in 1..Len(w) : w[k].coll = c =>
              ~Touches(ApplyAll(s, SubSeq(w, 1, k - 1))[c], w[k].upd)
    PROVE  ApplyAll(s, w)[c] = s[c]
<1>0. Len(w) \in Nat
  BY DEF IsLog
<1>1. PICK A : IsTrace(A, s, w) /\ A[Len(w)] = ApplyAll(s, w)
  BY Trace
<1> DEFINE S == {n \in 0..Len(w) : A[n][c] = s[c]}
<1>2. 0 \in S
  BY <1>0, <1>1 DEF IsTrace
<1>3. ASSUME NEW n \in 0..Len(w), n < Len(w), n \in S
      PROVE  n + 1 \in S
  <2>1. n + 1 \in 1..Len(w) /\ (n + 1) - 1 = n
    BY <1>0, <1>3
  <2>2. A[n + 1] = ApplyTo(A[n], w[n + 1].coll, w[n + 1].upd) /\ A[n] \in States
    BY <1>1, <2>1 DEF IsTrace
  <2>3. w[n + 1].coll \in Coll /\ w[n + 1].upd \in Patch
    BY <2>1 DEF IsLog
  <2>4. CASE w[n + 1].coll = c
    <3>1. A[n] = ApplyAll(s, SubSeq(w, 1, n))
      <4>1. /\ IsLog(SubSeq(w, 1, n)) /\ Len(SubSeq(w, 1, n)) = n
            /\ SameTo(SubSeq(w, 1, n), w, n)
        BY SubLog
      <4>2. Len(SubSeq(w, 1, n)) <= Len(w)
        BY <1>0, <4>1
      <4>3. A[Len(SubSeq(w, 1, n))] = ApplyAll(s, SubSeq(w, 1, n))
        BY <1>1, <4>1, <4>2, Stages
      <4> QED
        BY <4>1, <4>3
    <3>2. A[n + 1] = A[n]
      BY <2>1, <2>2, <2>3, <2>4, <3>1, NoTouch
    <3> QED
      BY <2>1, <3>2, <1>3
  <2>5. CASE w[n + 1].coll # c
    <3>1. A[n + 1][c] = A[n][c]
      BY <2>2, <2>3, <2>5 DEF ApplyTo, States
    <3> QED
      BY <2>1, <3>1, <1>3
  <2> QED
    BY <2>4, <2>5
<1>4. \A n \in 0..Len(w) : n \in S
  <2> HIDE DEF S
  <2> QED
    BY <1>0, <1>2, <1>3, BoundedInduction
<1> QED
  BY <1>0, <1>1, <1>4

-----------------------------------------------------------------------------
(* What a scan of the WAL accepts.                                          *)

(* The first n entries are whole and in sequence.                           *)
Good(w, n) == \A i \in 1..n : ~w[i].torn /\ w[i].seq = i

(* Replayed returns the longest good beginning.                             *)
LEMMA ReplayedIs ==
    ASSUME NEW E, NEW w \in Seq(E)
    PROVE  /\ Len(Replayed(w)) \in 0..Len(w)
           /\ Replayed(w) = SubSeq(w, 1, Len(Replayed(w)))
           /\ Good(w, Len(Replayed(w)))
           /\ \A n \in 0..Len(w) : Good(w, n) => n <= Len(Replayed(w))
<1> DEFINE N == Len(w)
           good == {n \in 0..N : Good(w, n)}
           T == {n \in 0..N : \E r \in good : r <= n /\ \A m \in good : m <= n => m <= r}
           r0 == CHOOSE n \in good : \A m \in good : m <= n
<1>0. N \in Nat
  OBVIOUS
<1>1. 0 \in T
  <2>1. 0 \in good
    BY DEF Good
  <2> QED
    BY <2>1
<1>2. ASSUME NEW n \in 0..N, n < N, n \in T
      PROVE  n + 1 \in T
  <2>1. n + 1 \in 0..N
    BY <1>2
  <2>2. CASE n + 1 \in good
    <3>1. n + 1 <= n + 1 /\ \A m \in good : m <= n + 1 => m <= n + 1
      OBVIOUS
    <3> QED
      BY <2>1, <2>2, <3>1
  <2>3. CASE n + 1 \notin good
    <3>1. PICK r \in good : r <= n /\ \A m \in good : m <= n => m <= r
      BY <1>2
    <3>2. \A m \in good : m <= n + 1 => m <= n
      BY <2>3
    <3>3. r <= n + 1
      BY <3>1
    <3> QED
      BY <2>1, <3>1, <3>2, <3>3
  <2> QED
    BY <2>2, <2>3
<1>3. N \in T
  <2>1. \A n \in 0..N : n \in T
    <3> HIDE DEF T, N
    <3> QED
      BY <1>0, <1>1, <1>2, BoundedInduction
  <2> HIDE DEF T
  <2> QED
    BY <1>0, <2>1
<1>4. \E n \in good : \A m \in good : m <= n
  BY <1>3
<1>5. r0 \in good /\ \A m \in good : m <= r0
  <2> HIDE DEF good
  <2> QED
    BY <1>4
<1>6. Replayed(w) = SubSeq(w, 1, r0)
  BY DEF Replayed, Good
<1>7. Len(Replayed(w)) = r0
  <2>1. r0 \in 0..N
    BY <1>5
  <2> HIDE DEF r0
  <2> QED
    BY <1>6, <2>1
<1> QED
  <2> HIDE DEF r0
  <2> QED
    BY <1>5, <1>6, <1>7

(* How many entries that is, from the first that is not good.               *)
LEMMA ValidIs ==
    ASSUME NEW E, NEW w \in Seq(E), NEW n \in 0..Len(w), Good(w, n),
           n = Len(w) \/ w[n + 1].torn \/ w[n + 1].seq # n + 1
    PROVE  Len(Replayed(w)) = n
<1> DEFINE r == Len(Replayed(w))
<1>1. r \in 0..Len(w) /\ Good(w, r) /\ n <= r
  BY ReplayedIs
<1> HIDE DEF r
<1>2. r > n => n + 1 \in 1..r
  BY <1>1
<1>3. ~(r > n)
  BY <1>1, <1>2 DEF Good
<1> QED
  BY <1>1, <1>3 DEF r

(* It is all of it exactly when the count says so.                          *)
LEMMA ValidWhole ==
    ASSUME NEW E, NEW w \in Seq(E)
    PROVE  Replayed(w) = w <=> Len(Replayed(w)) = Len(w)
<1>1. Replayed(w) = SubSeq(w, 1, Len(Replayed(w)))
  BY ReplayedIs
<1>2. SubSeq(w, 1, Len(w)) = w
  OBVIOUS
<1> QED
  BY <1>1, <1>2

(* Appending the next entry to a WAL that is good all through keeps it so.  *)
LEMMA ValidAppend ==
    ASSUME NEW E, NEW w \in Seq(E), Len(Replayed(w)) = Len(w),
           NEW e \in E, ~e.torn, e.seq = Len(w) + 1
    PROVE  Len(Replayed(Append(w, e))) = Len(w) + 1
<1> DEFINE v == Append(w, e)
<1>1. v \in Seq(E) /\ Len(v) = Len(w) + 1 /\ v[Len(w) + 1] = e
      /\ \A i \in 1..Len(w) : v[i] = w[i]
  OBVIOUS
<1>2. Good(w, Len(w))
  BY ReplayedIs
<1> HIDE DEF v
<1>3. Good(v, Len(v))
  <2> SUFFICES ASSUME NEW i \in 1..Len(v) PROVE ~v[i].torn /\ v[i].seq = i
    BY DEF Good
  <2>1. i = Len(w) + 1 \/ i \in 1..Len(w)
    BY <1>1
  <2> QED
    BY <1>1, <1>2, <2>1 DEF Good
<1>4. Len(v) \in 0..Len(v)
  BY <1>1
<1>5. Len(Replayed(v)) = Len(v)
  BY <1>1, <1>3, <1>4, ValidIs
<1> QED
  BY <1>1, <1>5 DEF v

(* A cut WAL replays what it still has of what it replayed.                 *)
LEMMA ValidCut ==
    ASSUME NEW E, NEW w \in Seq(E), NEW n \in 0..Len(w)
    PROVE  Len(Replayed(SubSeq(w, 1, n))) =
              IF n <= Len(Replayed(w)) THEN n ELSE Len(Replayed(w))
<1> DEFINE v == SubSeq(w, 1, n)
           r == Len(Replayed(w))
<1>1. v \in Seq(E) /\ Len(v) = n /\ \A i \in 1..n : v[i] = w[i]
  OBVIOUS
<1>2. r \in 0..Len(w) /\ Good(w, r) /\ \A m \in 0..Len(w) : Good(w, m) => m <= r
  BY ReplayedIs
<1> HIDE DEF v, r
<1>3. CASE n <= r
  <2>1. Good(v, n) /\ n \in 0..Len(v)
    BY <1>1, <1>2, <1>3 DEF Good
  <2>2. Len(Replayed(v)) = n
    BY <1>1, <2>1, ValidIs
  <2> QED
    BY <1>3, <2>2 DEF v, r
<1>4. CASE n > r
  <2>1. Good(v, r) /\ r \in 0..Len(v) /\ r + 1 \in 1..n /\ r + 1 \in 0..Len(w)
    BY <1>1, <1>2, <1>4 DEF Good
  <2>2. ~Good(w, r + 1)
    BY <1>2, <2>1
  <2>3. w[r + 1].torn \/ w[r + 1].seq # r + 1
    BY <1>2, <2>2 DEF Good
  <2>4. v[r + 1].torn \/ v[r + 1].seq # r + 1
    BY <1>1, <2>1, <2>3
  <2>5. Len(Replayed(v)) = r
    BY <1>1, <2>1, <2>4, ValidIs
  <2> QED
    BY <1>2, <1>4, <2>5 DEF v, r
<1> QED
  BY <1>2, <1>3, <1>4

(* The entries of the WAL.                                                  *)
WalEntry == [seq : Nat, coll : Coll \cup {NoOne}, upd : Patch, torn : BOOLEAN]

(* Tearing the last entry takes that one away at most.                      *)
LEMMA ValidTear ==
    ASSUME NEW w \in Seq(WalEntry), Len(w) # 0
    PROVE  Len(Replayed(Tear(w))) =
              IF Len(Replayed(w)) = Len(w) THEN Len(w) - 1 ELSE Len(Replayed(w))
<1> DEFINE v == Tear(w)
           r == Len(Replayed(w))
           n == Len(w)
<1>1. v \in Seq(WalEntry) /\ Len(v) = n /\ v[n].torn /\ \A i \in 1..(n - 1) : v[i] = w[i]
  <2>1. n \in 1..n /\ w[n] \in WalEntry
    OBVIOUS
  <2>2. [w[n] EXCEPT !.torn = TRUE] \in WalEntry /\ [w[n] EXCEPT !.torn = TRUE].torn
    <3> HIDE DEF n
    <3> QED
      BY <2>1 DEF WalEntry
  <2> DEFINE e == [w[n] EXCEPT !.torn = TRUE]
  <2>3. v = [w EXCEPT ![n] = e]
    BY DEF Tear
  <2> HIDE DEF e, v
  <2> QED
    BY <2>1, <2>2, <2>3 DEF e
<1>2. r \in 0..n /\ Good(w, r) /\ \A m \in 0..n : Good(w, m) => m <= r
  BY ReplayedIs
<1>3. n \in Nat \ {0}
  OBVIOUS
<1> HIDE DEF v, r, n
<1>4. CASE r = n
  <2>1. Good(v, n - 1) /\ n - 1 \in 0..Len(v) /\ (n - 1) + 1 = n
    BY <1>1, <1>2, <1>3, <1>4 DEF Good
  <2>2. Len(Replayed(v)) = n - 1
    BY <1>1, <2>1, ValidIs
  <2> QED
    BY <1>4, <2>2 DEF v, r, n
<1>5. CASE r # n
  <2>0. r \in 0..(n - 1)
    BY <1>2, <1>3, <1>5
  <2>1. Good(v, r) /\ r \in 0..Len(v) /\ r + 1 \in 1..n /\ r + 1 \in 0..n
    <3>1. r \in 0..Len(v) /\ r + 1 \in 1..n /\ r + 1 \in 0..n /\ \A i \in 1..r : i \in 1..(n - 1)
      BY <1>1, <1>3, <2>0
    <3> QED
      BY <1>1, <1>2, <3>1 DEF Good
  <2>2. ~Good(w, r + 1)
    BY <1>2, <2>1
  <2>3. w[r + 1].torn \/ w[r + 1].seq # r + 1
    BY <1>2, <2>2 DEF Good
  <2>4. v[r + 1].torn \/ v[r + 1].seq # r + 1
    BY <1>1, <1>3, <2>1, <2>3
  <2>5. Len(Replayed(v)) = r
    BY <1>1, <2>1, <2>4, ValidIs
  <2> QED
    BY <1>5, <2>5 DEF v, r, n
<1> QED
  BY <1>4, <1>5 DEF v, r, n

-----------------------------------------------------------------------------
(* The history.  Store speaks of the points after its first n writes with   *)
(* those in S left out; here the same of any start s and any history h.     *)

(* The entries of the history, its first n without those in S, the failed   *)
(* ones among them, and the points after them.                              *)
HistEntry == [coll : Coll, upd : Updates, failed : BOOLEAN]

KeptOf(h, n, S) ==
    [i \in 1..n |-> IF i \in S THEN [h[i] EXCEPT !.upd = NoUpdate] ELSE h[i]]
FailedOf(h, n)      == {i \in 1..n : h[i].failed}
AfterOf(s, h, n, S) == ApplyAll(s, KeptOf(h, n, S))

(* An update is a patch.                                                    *)
LEMMA UpdatesPatch == Updates \subseteq Patch
<1> SUFFICES ASSUME NEW u \in Updates PROVE u \in Patch
  OBVIOUS
<1>1. PICK S \in (SUBSET Id) \ {{}} : u \in [S -> Val] \/ u \in [S -> {Absent}]
  BY DEF Updates
<1>2. u \in [S -> Val \cup {Absent}]
  BY <1>1
<1> QED
  BY <1>1, <1>2 DEF Patch

(* What remains of the first n writes is a log of n entries.                *)
LEMMA KeptIs ==
    ASSUME NEW h \in Seq(HistEntry), NEW n \in 0..Len(h), NEW S
    PROVE  /\ IsLog(KeptOf(h, n, S)) /\ Len(KeptOf(h, n, S)) = n
           /\ \A i \in 1..n : /\ KeptOf(h, n, S)[i].coll = h[i].coll
                            /\ KeptOf(h, n, S)[i].upd = IF i \in S THEN NoUpdate ELSE h[i].upd
<1> DEFINE v == KeptOf(h, n, S)
<1>1. n \in Nat /\ \A i \in 1..n : h[i] \in HistEntry
  OBVIOUS
<1>2. \A i \in 1..n : v[i].coll = h[i].coll /\ v[i].upd = IF i \in S THEN NoUpdate ELSE h[i].upd
  BY <1>1 DEF KeptOf, HistEntry
<1>3. DOMAIN v = 1..n /\ Len(v) = n
  <2>1. v \in Seq({v[i] : i \in 1..n}) /\ DOMAIN v = 1..n
    BY <1>1 DEF KeptOf
  <2> QED
    BY <1>1, <2>1
<1>4. \A i \in 1..n : v[i].coll \in Coll /\ v[i].upd \in Patch
  BY <1>1, <1>2, UpdatesPatch, NoUpdatePatch DEF HistEntry
<1> QED
  BY <1>2, <1>3, <1>4, <1>1 DEF IsLog

(* The points after them are points.                                        *)
LEMMA AfterType ==
    ASSUME NEW s \in States, NEW h \in Seq(HistEntry), NEW n \in 0..Len(h), NEW S
    PROVE  AfterOf(s, h, n, S) \in States
  BY KeptIs, ApplyAllType DEF AfterOf

(* Histories that say the same of the first n writes.                       *)
LEMMA AfterSame ==
    ASSUME NEW s \in States, NEW h \in Seq(HistEntry), NEW g \in Seq(HistEntry),
           NEW n \in 0..Len(h), n <= Len(g), SameTo(h, g, n),
           NEW S, NEW T, \A i \in 1..n : i \in S <=> i \in T
    PROVE  AfterOf(s, h, n, S) = AfterOf(s, g, n, T)
<1> DEFINE v == KeptOf(h, n, S)
           w == KeptOf(g, n, T)
<1>0. n \in 0..Len(g)
  OBVIOUS
<1>1. /\ IsLog(v) /\ Len(v) = n
      /\ \A i \in 1..n : v[i].coll = h[i].coll /\ v[i].upd = IF i \in S THEN NoUpdate ELSE h[i].upd
  BY KeptIs
<1>2. /\ IsLog(w) /\ Len(w) = n
      /\ \A i \in 1..n : w[i].coll = g[i].coll /\ w[i].upd = IF i \in T THEN NoUpdate ELSE g[i].upd
  BY <1>0, KeptIs
<1> HIDE DEF v, w
<1>3. SameTo(v, w, Len(v))
  BY <1>1, <1>2 DEF SameTo
<1>4. ApplyAll(s, v) = ApplyAll(s, w)
  BY <1>1, <1>2, <1>3, SameLog
<1> QED
  BY <1>4 DEF v, w, AfterOf

(* Before the first write they are the start's.                             *)
LEMMA AfterNone ==
    ASSUME NEW s \in States, NEW h \in Seq(HistEntry), NEW S
    PROVE  AfterOf(s, h, 0, S) = s
<1>1. 0 \in 0..Len(h)
  OBVIOUS
<1>2. IsLog(KeptOf(h, 0, S)) /\ Len(KeptOf(h, 0, S)) = 0
  BY <1>1, KeptIs
<1> QED
  BY <1>2, EmptyLog DEF AfterOf

(* One write more.                                                          *)
LEMMA AfterNext ==
    ASSUME NEW s \in States, NEW h \in Seq(HistEntry), NEW n \in 0..Len(h), n < Len(h), NEW S
    PROVE  AfterOf(s, h, n + 1, S) =
              IF n + 1 \in S THEN AfterOf(s, h, n, S)
              ELSE ApplyTo(AfterOf(s, h, n, S), h[n + 1].coll, h[n + 1].upd)
<1> DEFINE m == n + 1
           v == KeptOf(h, n, S)
           w == KeptOf(h, m, S)
<1>0. m \in 0..Len(h) /\ m \in 1..m /\ n \in Nat /\ \A i \in 1..n : i \in 1..m
  OBVIOUS
<1>1. /\ IsLog(v) /\ Len(v) = n
      /\ \A i \in 1..n : v[i].coll = h[i].coll /\ v[i].upd = IF i \in S THEN NoUpdate ELSE h[i].upd
  BY KeptIs
<1>2. /\ IsLog(w) /\ Len(w) = m
      /\ \A i \in 1..m : w[i].coll = h[i].coll /\ w[i].upd = IF i \in S THEN NoUpdate ELSE h[i].upd
  <2> HIDE DEF m
  <2> QED
    BY <1>0, KeptIs
<1>3. ApplyAll(s, w) = ApplyTo(ApplyAll(s, v), w[m].coll, w[m].upd)
  <2> HIDE DEF v, w
  <2>1. SameTo(v, w, Len(v)) /\ Len(w) = Len(v) + 1
    BY <1>0, <1>1, <1>2 DEF SameTo
  <2> QED
    BY <1>1, <1>2, <2>1, LastEntry
<1>4. ApplyAll(s, v) \in States /\ w[m].coll \in Coll
  <2> HIDE DEF v, w
  <2> QED
    BY <1>0, <1>1, <1>2, ApplyAllType DEF IsLog
<1>5. w[m].coll = h[m].coll /\ w[m].upd = IF m \in S THEN NoUpdate ELSE h[m].upd
  BY <1>0, <1>2
<1>6. ApplyTo(ApplyAll(s, v), w[m].coll, NoUpdate) = ApplyAll(s, v)
  <2> HIDE DEF v, w
  <2> QED
    BY <1>4, ApplyNothing
<1> QED
  <2>1. AfterOf(s, h, m, S) = ApplyAll(s, w) /\ AfterOf(s, h, n, S) = ApplyAll(s, v)
    BY DEF AfterOf
  <2> HIDE DEF v, w
  <2> QED
    BY <1>3, <1>5, <1>6, <2>1

(* Replaying the writes m+1 to m+r over the points after any of them, some  *)
(* of which may have been left out, gives all of them.                      *)
LEMMA AfterReplay ==
    ASSUME NEW s \in States, NEW h \in Seq(HistEntry), NEW m \in 0..Len(h),
           NEW w, IsLog(w), m + Len(w) <= Len(h),
           \A i \in 1..Len(w) : w[i].coll = h[m + i].coll /\ w[i].upd = h[m + i].upd,
           NEW k \in m..(m + Len(w)), NEW S, NEW T,
           \A i \in 1..(m + Len(w)) : i \in T <=> i \in S /\ i <= m
    PROVE  ApplyAll(AfterOf(s, h, k, S), w) = AfterOf(s, h, m + Len(w), T)
<1> DEFINE r == Len(w)
           v == KeptOf(h, m, S)
           x == [i \in 1..(k - m) |-> KeptOf(h, k, S)[m + i]]
           vx == KeptOf(h, k, S)
           vw == KeptOf(h, m + r, T)
<1>0. r \in Nat /\ m \in Nat /\ k \in Nat /\ k \in 0..Len(h) /\ m + r \in 0..Len(h)
      /\ k - m \in 0..r /\ k - m \in Nat
  BY DEF IsLog
<1>1. /\ IsLog(v) /\ Len(v) = m
      /\ \A i \in 1..m : v[i].coll = h[i].coll /\ v[i].upd = IF i \in S THEN NoUpdate ELSE h[i].upd
  BY KeptIs
<1>2. /\ IsLog(vx) /\ Len(vx) = k
      /\ \A i \in 1..k : vx[i].coll = h[i].coll /\ vx[i].upd = IF i \in S THEN NoUpdate ELSE h[i].upd
  BY <1>0, KeptIs
<1>3. /\ IsLog(vw) /\ Len(vw) = m + r
      /\ \A i \in 1..(m + r) : vw[i].coll = h[i].coll /\ vw[i].upd = IF i \in T THEN NoUpdate ELSE h[i].upd
  <2> HIDE DEF r
  <2> QED
    BY <1>0, KeptIs
<1> HIDE DEF v, vx, vw
<1>4. IsLog(x) /\ Len(x) = k - m /\ \A i \in 1..(k - m) : x[i] = vx[m + i]
  <2>1. DOMAIN x = 1..(k - m) /\ Len(x) = k - m
    <3> DEFINE d == k - m
    <3>1. d \in Nat
      BY <1>0
    <3> HIDE DEF d
    <3> DEFINE y == [i \in 1..d |-> vx[m + i]]
               Y == {vx[m + i] : i \in 1..d}
    <3>2. y \in Seq(Y) /\ DOMAIN y = 1..d
      <4>1. y \in [1..d -> Y]
        OBVIOUS
      <4> HIDE DEF y, Y
      <4> QED
        BY <3>1, <4>1
    <3>3. Len(y) = d
      <4> HIDE DEF y
      <4> QED
        BY <3>1, <3>2
    <3> QED
      BY <3>3 DEF d, vx
  <2>2. \A i \in 1..(k - m) : x[i] = vx[m + i] /\ m + i \in 1..k
    BY <1>0 DEF vx
  <2>3. \A i \in 1..(k - m) : x[i].coll \in Coll /\ x[i].upd \in Patch
    BY <1>2, <2>2 DEF IsLog
  <2> HIDE DEF x
  <2> QED
    BY <1>0, <2>1, <2>2, <2>3 DEF IsLog
<1> HIDE DEF x
<1>5. ApplyAll(s, vx) = ApplyAll(ApplyAll(s, v), x)
  <2>1. Len(vx) = Len(v) + Len(x)
    BY <1>0, <1>1, <1>2, <1>4
  <2>2. SameTo(v, vx, Len(v))
    BY <1>0, <1>1, <1>2 DEF SameTo
  <2>3. Follows(vx, Len(v), x)
    BY <1>1, <1>4 DEF Follows
  <2> QED
    BY <1>1, <1>2, <1>4, <2>1, <2>2, <2>3, Concatenation
<1>6. ApplyAll(ApplyAll(ApplyAll(s, v), x), w) = ApplyAll(ApplyAll(s, v), w)
  <2>1. Len(x) <= Len(w)
    BY <1>0, <1>4
  <2>2. ASSUME NEW i \in 1..Len(x)
        PROVE  x[i].coll = w[i].coll /\ (x[i].upd = w[i].upd \/ x[i].upd = NoUpdate)
    <3>1. m + i \in 1..k /\ i \in 1..Len(w) /\ i \in 1..(k - m)
      BY <1>0, <1>4
    <3>2. x[i].coll = h[m + i].coll /\ (x[i].upd = h[m + i].upd \/ x[i].upd = NoUpdate)
      BY <1>2, <1>4, <3>1
    <3> QED
      BY <3>1, <3>2
  <2> QED
    BY <1>1, <1>4, <2>1, <2>2, ApplyAllType, ReplayAgain
<1>7. ApplyAll(s, vw) = ApplyAll(ApplyAll(s, v), w)
  <2>1. Len(vw) = Len(v) + Len(w)
    BY <1>1, <1>3
  <2>2. SameTo(v, vw, Len(v))
    <3>1. \A i \in 1..m : i \in 1..(m + r) /\ i <= m
      BY <1>0
    <3>2. \A i \in 1..m : i \in T <=> i \in S
      BY <3>1
    <3> QED
      BY <1>1, <1>3, <3>1, <3>2 DEF SameTo
  <2>3. Follows(vw, Len(v), w)
    <3> SUFFICES ASSUME NEW i \in 1..Len(w)
                 PROVE  vw[Len(v) + i].coll = w[i].coll /\ vw[Len(v) + i].upd = w[i].upd
      BY DEF Follows
    <3>1. m + i \in 1..(m + r) /\ ~(m + i <= m) /\ Len(v) + i = m + i
      BY <1>0, <1>1
    <3>2. m + i \notin T
      BY <3>1
    <3>3. vw[m + i].coll = h[m + i].coll /\ vw[m + i].upd = h[m + i].upd
      BY <1>3, <3>1, <3>2
    <3> QED
      BY <3>1, <3>3
  <2> QED
    BY <1>1, <1>3, <2>1, <2>2, <2>3, Concatenation
<1> QED
  BY <1>5, <1>6, <1>7 DEF vx, vw, AfterOf

(* In particular over the points after any of them that failed writes made. *)
LEMMA ReplayFrom ==
    ASSUME NEW s \in States, NEW h \in Seq(HistEntry), NEW m \in 0..Len(h),
           NEW w, IsLog(w), m + Len(w) <= Len(h), Follows(h, m, w),
           NEW k \in m..(m + Len(w))
    PROVE  ApplyAll(AfterOf(s, h, k, FailedOf(h, m)), w) = AfterOf(s, h, m + Len(w), FailedOf(h, m))
<1> DEFINE S == FailedOf(h, m)
<1>1. \A i \in 1..(m + Len(w)) : i \in S <=> i \in S /\ i <= m
  BY DEF FailedOf
<1>2. \A i \in 1..Len(w) : w[i].coll = h[m + i].coll /\ w[i].upd = h[m + i].upd
  BY DEF Follows
<1> HIDE DEF S
<1>3. ApplyAll(AfterOf(s, h, k, S), w) = AfterOf(s, h, m + Len(w), S)
  BY <1>1, <1>2, AfterReplay, SMTT(30)
<1> QED
  BY <1>3 DEF S

(* Entries w, one for each write after the m-th up to the n-th of h, and k   *)
(* in between.                                                              *)
Fits(s, h, m, w, n, k) ==
    /\ s \in States /\ h \in Seq(HistEntry) /\ m \in 0..Len(h)
    /\ IsLog(w) /\ n = m + Len(w) /\ n <= Len(h) /\ Follows(h, m, w) /\ k \in m..n

(* The same in those words.                                                 *)
LEMMA ReplayFits ==
    ASSUME NEW s, NEW h, NEW m, NEW w, NEW n, NEW k, Fits(s, h, m, w, n, k)
    PROVE  ApplyAll(AfterOf(s, h, k, FailedOf(h, m)), w) = AfterOf(s, h, n, FailedOf(h, m))
<1>1. /\ s \in States /\ h \in Seq(HistEntry) /\ m \in 0..Len(h)
      /\ IsLog(w) /\ n = m + Len(w) /\ m + Len(w) <= Len(h) /\ Follows(h, m, w)
      /\ k \in m..(m + Len(w))
  BY DEF Fits
<1>2. ApplyAll(AfterOf(s, h, k, FailedOf(h, m)), w) = AfterOf(s, h, m + Len(w), FailedOf(h, m))
  BY <1>1, ReplayFrom
<1> QED
  BY <1>1, <1>2

(* A write left out, and applied behind writes to other collections.        *)
LEMMA AfterLate ==
    ASSUME NEW s \in States, NEW h \in Seq(HistEntry), NEW n \in 0..Len(h), NEW S, NEW T,
           NEW p \in 1..n, p \in S, p \notin T,
           \A i \in 1..n : i # p => (i \in S <=> i \in T),
           \A i \in (p + 1)..n :
              i \in T \/ h[i].coll # h[p].coll \/ DOMAIN h[i].upd \cap DOMAIN h[p].upd = {}
    PROVE  AfterOf(s, h, n, T) = ApplyTo(AfterOf(s, h, n, S), h[p].coll, h[p].upd)
<1> DEFINE v == KeptOf(h, n, S)
           w == KeptOf(h, n, T)
<1>1. /\ IsLog(v) /\ Len(v) = n
      /\ \A i \in 1..n : v[i].coll = h[i].coll /\ v[i].upd = IF i \in S THEN NoUpdate ELSE h[i].upd
  BY KeptIs
<1>2. /\ IsLog(w) /\ Len(w) = n
      /\ \A i \in 1..n : w[i].coll = h[i].coll /\ w[i].upd = IF i \in T THEN NoUpdate ELSE h[i].upd
  BY KeptIs
<1> HIDE DEF v, w
<1>3. /\ v[p].upd = NoUpdate /\ w[p].coll = h[p].coll /\ w[p].upd = h[p].upd
      /\ \A i \in 1..Len(w) : i # p => v[i].coll = w[i].coll /\ v[i].upd = w[i].upd
  BY <1>1, <1>2
<1>4. \A i \in (p + 1)..Len(w) :
         w[i].coll = w[p].coll => DOMAIN w[i].upd \cap DOMAIN w[p].upd = {}
  <2>1. \A i \in (p + 1)..n : i \in 1..n
    OBVIOUS
  <2> QED
    BY <1>2, <1>3, <2>1, NoUpdatePatch
<1>5. ApplyAll(s, w) = ApplyTo(ApplyAll(s, v), w[p].coll, w[p].upd)
  BY <1>1, <1>2, <1>3, <1>4, ApplyLate, SMTT(30)
<1> QED
  BY <1>3, <1>5 DEF v, w, AfterOf

-----------------------------------------------------------------------------
(* The invariant.                                                           *)

(* The labels of a thread.                                                  *)
Labels == {"idle", "sync", "apply", "after"} \cup Job

(* How many entries of the WAL an open would replay.                        *)
Valid == Len(Replayed(wal))

(* The counters behind the bounds.                                          *)
Counts == [writes : Nat, calls : Nat, downs : Nat, errors : Nat]

(* A WAL: entries that are torn or name a collection and an update.         *)
WalType(w) ==
    /\ w \in Seq(WalEntry)
    /\ \A i \in 1..Len(w) : w[i].torn \/ (w[i].coll \in Coll /\ w[i].upd \in Updates)

(* Every variable has its shape; more of it than TypeOK says.               *)
Typing ==
    /\ toc \in [Coll -> RefSet] /\ epoch \in Nat
    /\ WalType(wal)
    /\ flushed \in 0..Len(wal) /\ nextSeq \in Nat
    /\ lock \in Thread \cup {NoOne} /\ up \in BOOLEAN /\ closing \in BOOLEAN
    /\ mem \in States /\ dirty \in [Coll -> BOOLEAN]
    /\ sealed \in [Coll -> RefSet] /\ base \in [Coll -> RefSet]
    /\ pc \in [Thread -> Labels]
    /\ op \in [Thread -> [coll : Coll \cup {NoOne}, upd : Patch, idx : Nat]]
    /\ snap \in [Thread -> [Coll -> RefSet]] /\ todo \in [Thread -> SUBSET Coll]
    /\ start \in States /\ hist \in Seq(HistEntry)
    /\ acked \in 0..Len(hist) /\ settled \in 0..Len(hist) /\ walFrom \in 0..Len(hist)
    /\ count \in Counts

(* The counters bound the epochs and the WAL, and so RefSet is large        *)
(* enough.                                                                  *)
Bounds ==
    /\ epoch # 0 /\ epoch <= 1 + count.calls /\ count.calls <= MaxCalls
    /\ \A t \in Thread : pc[t] \in {"compact", "vseal"} => epoch <= count.calls
    /\ Len(wal) <= count.writes + 1 /\ count.writes <= MaxWrites

(* A checkpoint or a vacuum has the handle to itself; a thread holds the    *)
(* journal lock exactly while it appends or truncates.                      *)
Alone ==
    /\ \A t \in Thread : pc[t] \in Job => \A s \in Thread : s = t \/ pc[s] = "idle"
    /\ up \/ \A t \in Thread : pc[t] = "idle"
    /\ \A t \in Thread : pc[t] \in {"sync", "truncate", "vtruncate"} <=> lock = t

(* The WAL's valid beginning is the history behind its first walFrom        *)
(* writes; only the last write can have failed; while the process runs, at  *)
(* most that one is behind what is replayed, and then nothing more is       *)
(* appended.                                                                *)
Log ==
    /\ walFrom + Valid <= Len(hist)
    /\ \A i \in 1..Valid : wal[i].coll = hist[walFrom + i].coll
                           /\ wal[i].upd = hist[walFrom + i].upd
    /\ \A i \in (walFrom + 1)..Len(hist) : hist[i].failed => i = Len(hist)
    /\ up => /\ Len(hist) <= walFrom + Len(wal)
             /\ Len(hist) = walFrom + Valid
                \/ (Len(hist) = walFrom + Valid + 1 /\ hist[Len(hist)].failed)
    /\ up /\ walFrom < Len(hist) /\ hist[Len(hist)].failed =>
          Valid # Len(wal) \/ nextSeq # Len(wal) + 1

(* An append in progress is the last write, is whole, and is promised to no *)
(* one.                                                                     *)
Appends ==
    \A t \in Thread : pc[t] = "sync" =>
       /\ Valid = Len(wal) /\ nextSeq = Len(wal) /\ flushed < Len(wal)
       /\ op[t].idx = Len(hist) /\ Len(hist) = walFrom + Len(wal)
       /\ acked < Len(hist) /\ settled < Len(hist)
       /\ \A s \in Thread : s = t \/ op[s].idx < Len(hist)

(* What a thread has logged is on the WAL, in Full flushed, and, until it   *)
(* is applied, a write of its own.                                          *)
Written ==
    \A t \in Thread :
       /\ pc[t] = "idle" => op[t].idx = 0
       /\ pc[t] # "sync" => op[t].idx <= walFrom + Valid
       /\ pc[t] # "sync" /\ Durability = "Full" => op[t].idx <= settled
       /\ pc[t] \in {"sync", "apply"} =>
             LET n == op[t].idx IN
             /\ n \in (walFrom + 1)..Len(hist)
             /\ hist[n] = [coll |-> op[t].coll, upd |-> op[t].upd, failed |-> FALSE]
             /\ \A s \in Thread : s # t /\ pc[s] \in {"sync", "apply"} => op[s].idx # n

(* What is acknowledged or settled is among what would be replayed.         *)
Promises ==
    /\ acked <= walFrom + Valid
    /\ settled <= walFrom + Valid /\ settled <= walFrom + flushed
    /\ Durability = "Full" => acked <= settled

(* The TOC leads into this file, to the points after some beginning of the  *)
(* history that ends inside the WAL, or just before it when the WAL is cut. *)
File ==
    /\ TocReadable
    /\ \E k \in walFrom..(walFrom + Valid) :
          /\ TocState = AfterOf(start, hist, k, FailedOf(hist, k))
          /\ \A t \in Thread : pc[t] = "sync" => k < Len(hist)
    /\ Cut => TocState = AfterOf(start, hist, walFrom, FailedOf(hist, walFrom))

(* Memory is the history without those and without the failed ones.         *)
Memory == up => mem = AfterOf(start, hist, Len(hist), FailedOf(hist, Len(hist)) \cup InFlight)

(* A compacted collection: nothing to carry forward.                        *)
Unreferenced(c) == dirty[c] /\ base[c] = NoRef /\ sealed[c] = NoRef

(* What a checkpoint or vacuum has sealed, committed, or is about to mark   *)
(* is what memory holds, in this file.                                      *)
Jobs ==
    \A t \in Thread, c \in Coll :
       /\ pc[t] = "seal" /\ c \notin todo[t] =>
             /\ snap[t][c] = Ref(epoch, mem[c]) \/ snap[t][c] = Ref(0, mem[c])
             /\ snap[t][c].epoch = 0 => CleanReuse(c) = NoRef
       /\ pc[t] = "vseal" /\ c \notin todo[t] => snap[t][c] = Ref(0, mem[c])
       /\ pc[t] \in {"truncate", "vtruncate"} => toc[c] = Ref(epoch, mem[c])
       /\ pc[t] = "mark" /\ c \in todo[t] => snap[t][c] = Ref(epoch, mem[c])
       /\ pc[t] = "compact" /\ c \notin todo[t] => Unreferenced(c)
       /\ pc[t] \in {"vseal", "vtruncate", "done"} => Unreferenced(c)

(* A reference that would be carried forward leads to what memory holds,    *)
(* but while the last checkpoint of the process marks what it sealed.       *)
Clean ==
    up => \A c \in Coll : CleanReuse(c) # NoRef =>
       CleanReuse(c) = Ref(epoch, mem[c]) \/ (closing /\ \E t \in Thread : pc[t] = "mark")

(* With an empty WAL a collection is dirty only if compacted or about to be *)
(* marked sealed.                                                           *)
Dirty ==
    up /\ count.errors = 0 /\ wal = <<>> => \A c \in Coll : dirty[c] =>
       Unreferenced(c) \/ \E t \in Thread : pc[t] = "mark" /\ c \in todo[t]

(* Without failed calls the next append continues a WAL that replay accepts.*)
Sequence ==
    count.errors = 0 /\ Valid = Len(wal) /\ up /\ (\A t \in Thread : pc[t] # "sync") =>
       nextSeq = Len(wal) + 1

(* The inductive invariant.                                                 *)
IInv == Typing /\ Bounds /\ Alone /\ Log /\ Appends /\ Written /\ Promises /\ File
        /\ Memory /\ Jobs /\ Clean /\ Dirty /\ Sequence

-----------------------------------------------------------------------------
(* The first state.                                                         *)

(* References to this or an earlier file are typed.                         *)
LEMMA RefType ==
    ASSUME StoreAssumption, NEW e \in Nat, e <= MaxCalls + 1, NEW p \in Points
    PROVE  Ref(e, p) \in RefSet /\ Ref(e, p).epoch = e /\ Ref(e, p).body = p
  BY DEF StoreAssumption, Ref, RefSet

(* The empty collections are points.                                        *)
LEMMA NoPointsType == NoPoints \in Points /\ [c \in Coll |-> NoPoints] \in States
  BY DEF NoPoints, Points, States

(* Nothing is replayed from an empty WAL ...                                *)
LEMMA EmptyPrefix == Len(Replayed(<<>>)) = 0
<1>1. <<>> \in Seq({}) /\ 0 \in 0..Len(<<>>) /\ Len(<<>>) = 0
  OBVIOUS
<1>2. Good(<<>>, 0)
  BY DEF Good
<1> QED
  BY <1>1, <1>2, ValidIs

(* ... or from a foreign one.                                               *)
LEMMA ForeignPrefix == Len(Replayed(<<Foreign>>)) = 0
<1>1. <<Foreign>> \in Seq({Foreign}) /\ 0 \in 0..Len(<<Foreign>>) /\ <<Foreign>>[0 + 1].torn
  BY DEF Foreign
<1>2. Good(<<Foreign>>, 0)
  BY DEF Good
<1> QED
  BY <1>1, <1>2, ValidIs

(* The missing reference is a reference, of epoch 0.                        *)
LEMMA NoRefType ==
    ASSUME StoreAssumption
    PROVE  NoRef \in RefSet /\ NoRef.epoch = 0
  BY RefType, NoPointsType DEF NoRef, StoreAssumption

(* The invariant holds initially.                                           *)
LEMMA InitIInv ==
    ASSUME StoreAssumption, Init
    PROVE  IInv
<1> DEFINE none == [c \in Coll |-> NoPoints]
<1>0. /\ Ref(1, NoPoints) \in RefSet /\ Ref(1, NoPoints).epoch = 1 /\ Ref(1, NoPoints).body = NoPoints
      /\ NoRef \in RefSet /\ NoRef.epoch = 0 /\ NoUpdate \in Patch
  BY RefType, NoRefType, NoPointsType, NoUpdatePatch DEF StoreAssumption
<1>1. Valid = 0 /\ Len(wal) \in 0..1 /\ wal \in Seq(WalEntry)
      /\ \A i \in 1..Len(wal) : wal[i].torn
  <2>1. CASE wal = <<>>
    BY <2>1, EmptyPrefix DEF Valid
  <2>2. CASE wal = <<Foreign>>
    BY <2>2, <1>0, ForeignPrefix DEF Valid, WalEntry, Foreign
  <2> QED
    BY <2>1, <2>2 DEF Init
<1>2. Len(hist) = 0 /\ hist \in Seq(HistEntry) /\ start = none /\ none \in States /\ TocState = none
  BY <1>0, NoPointsType DEF Init, TocState
<1>3. Typing
  <2>1. toc \in [Coll -> RefSet] /\ epoch \in Nat /\ flushed \in 0..Len(wal) /\ nextSeq \in Nat
    BY <1>0, <1>1 DEF Init
  <2>2. lock \in Thread \cup {NoOne} /\ up \in BOOLEAN /\ closing \in BOOLEAN
    BY DEF Init
  <2>3. /\ mem \in States /\ dirty \in [Coll -> BOOLEAN]
        /\ sealed \in [Coll -> RefSet] /\ base \in [Coll -> RefSet]
    BY <1>0, <1>2, <2>1 DEF Init, Loaded
  <2>4. op \in [Thread -> [coll : Coll \cup {NoOne}, upd : Patch, idx : Nat]]
    BY <1>0 DEF Init, NoOp
  <2>5. /\ pc \in [Thread -> Labels] /\ todo \in [Thread -> SUBSET Coll]
        /\ snap \in [Thread -> [Coll -> RefSet]]
    BY <1>0 DEF Init, Labels
  <2>6. /\ acked \in 0..Len(hist) /\ settled \in 0..Len(hist) /\ walFrom \in 0..Len(hist)
        /\ count \in Counts
    BY <1>2 DEF Init, Counts
  <2> QED
    BY <1>1, <1>2, <2>1, <2>2, <2>3, <2>4, <2>5, <2>6 DEF Typing, WalType
<1>4. Bounds
  BY <1>1 DEF Init, Bounds, StoreAssumption
<1>5. Alone
  BY DEF Init, Alone, StoreAssumption, Job
<1>6. Log
  BY <1>1, <1>2 DEF Init, Log
<1>7. Appends /\ Written /\ Promises
  BY <1>1, <1>2 DEF Init, Appends, Written, Promises, NoOp
<1>8. File
  <2>1. none = AfterOf(start, hist, 0, FailedOf(hist, 0))
    BY <1>2, AfterNone
  <2>2. 0 \in walFrom..(walFrom + Valid)
    BY <1>1 DEF Init
  <2>3. TocReadable
    BY <1>0 DEF Init, TocReadable
  <2>4. \A t \in Thread : pc[t] # "sync"
    BY DEF Init
  <2>5. walFrom = 0
    BY DEF Init
  <2> QED
    BY <1>2, <2>1, <2>2, <2>3, <2>4, <2>5 DEF File
<1>9. Memory
  <2>1. FailedOf(hist, Len(hist)) \cup InFlight = {}
    BY <1>2 DEF FailedOf, InFlight, Init
  <2>2. mem = none
    BY DEF Init, Loaded
  <2> QED
    BY <1>2, <2>1, <2>2, AfterNone DEF Memory
<1>10. Jobs /\ Dirty
  BY DEF Init, Jobs, Dirty, Loaded
<1>11. Clean
  BY DEF Init, Clean, CleanReuse, Loaded
<1>12. Sequence
  BY <1>1, EmptyPrefix DEF Init, Sequence
<1> QED
  BY <1>3, <1>4, <1>5, <1>6, <1>7, <1>8, <1>9, <1>10, <1>11, <1>12 DEF IInv

-----------------------------------------------------------------------------
(* Checkpoints.                                                             *)

(* The numbers.                                                             *)
LEMMA Sizes ==
    ASSUME StoreAssumption, IInv
    PROVE  /\ wal \in Seq(WalEntry) /\ Len(wal) \in Nat /\ Valid \in 0..Len(wal)
           /\ hist \in Seq(HistEntry) /\ Len(hist) \in Nat
           /\ walFrom \in Nat /\ acked \in Nat /\ settled \in Nat /\ flushed \in 0..Len(wal)
           /\ walFrom + Valid <= Len(hist) /\ settled <= Len(hist)
           /\ acked <= walFrom + Valid
           /\ \A t \in Thread : op[t].idx \in Nat
           /\ count \in Counts /\ count.calls \in Nat /\ count.errors \in Nat /\ count.writes \in Nat
<1>1. wal \in Seq(WalEntry)
  BY DEF IInv, Typing, WalType
<1>2. Len(wal) \in Nat /\ Valid \in 0..Len(wal)
  BY <1>1, ReplayedIs DEF Valid
<1>3. hist \in Seq(HistEntry)
  BY DEF IInv, Typing
<1>4. Len(hist) \in Nat
  BY <1>3
<1>5. /\ walFrom \in 0..Len(hist) /\ acked \in 0..Len(hist) /\ settled \in 0..Len(hist)
      /\ flushed \in 0..Len(wal)
  BY DEF IInv, Typing
<1>6. walFrom + Valid <= Len(hist) /\ acked <= walFrom + Valid
  BY DEF IInv, Log, Promises
<1>7. \A t \in Thread : op[t].idx \in Nat
  BY DEF IInv, Typing
<1>8. count \in Counts /\ count.calls \in Nat /\ count.errors \in Nat /\ count.writes \in Nat
  BY DEF IInv, Typing, Counts
<1> QED
  BY <1>1, <1>2, <1>3, <1>4, <1>5, <1>6, <1>7, <1>8

(* Counting one up leaves the other counters.                               *)
LEMMA BumpIs ==
    ASSUME StoreAssumption, IInv,
           NEW f \in {"writes", "calls", "downs", "errors"}, NEW max \in Nat, Bump(f, max)
    PROVE  /\ count' \in Counts /\ count'[f] = count[f] + 1 /\ count'[f] <= max
           /\ \A g \in {"writes", "calls", "downs", "errors"} : g # f => count'[g] = count[g]
<1>1. count \in Counts
  BY DEF IInv, Typing
<1>2. /\ count' = [count EXCEPT ![f] = count[f] + 1] /\ count[f] < max
  BY DEF Bump
<1>3. CASE f = "writes"
  BY <1>1, <1>2, <1>3 DEF Counts
<1>4. CASE f = "calls"
  BY <1>1, <1>2, <1>4 DEF Counts
<1>5. CASE f = "downs"
  BY <1>1, <1>2, <1>5 DEF Counts
<1>6. CASE f = "errors"
  BY <1>1, <1>2, <1>6 DEF Counts
<1> QED
  BY <1>3, <1>4, <1>5, <1>6

(* The bounds are numbers.                                                  *)
LEMMA MaxTypes == StoreAssumption =>
    MaxWrites \in Nat /\ MaxCalls \in Nat /\ MaxDowns \in Nat /\ MaxErrors \in Nat
  BY DEF StoreAssumption

(* The epoch is a positive number within RefSet.                            *)
LEMMA EpochIs ==
    ASSUME StoreAssumption, IInv
    PROVE  /\ epoch \in Nat /\ epoch # 0 /\ epoch <= MaxCalls + 1
           /\ \A t \in Thread : pc[t] \in {"compact", "vseal"} => epoch + 1 <= MaxCalls + 1
           /\ \A c \in Coll : mem[c] \in Points
<1>1. /\ epoch \in Nat /\ epoch # 0 /\ epoch <= 1 + count.calls /\ count.calls \in Nat
      /\ count.calls <= MaxCalls /\ MaxCalls \in Nat
      /\ \A t \in Thread : pc[t] \in {"compact", "vseal"} => epoch <= count.calls
  BY MaxTypes DEF IInv, Typing, Bounds, Counts
<1>2. \A c \in Coll : mem[c] \in Points
  BY DEF IInv, Typing, States
<1> QED
  BY <1>1, <1>2

(* Sealing a collection records what it holds, or references that lead      *)
(* there.                                                                   *)
LEMMA SealStep ==
    ASSUME StoreAssumption, IInv, NEW t \in Thread, NEW c \in Coll,
           SealCollection(t, c) \/ SealFresh(t, c)
    PROVE  IInv'
<1>1. UNCHANGED <<diskVars, nextSeq, lock, up, closing, dataVars, pc, op, histVars, count>>
  BY DEF SealCollection, SealFresh
<1>2. /\ Bounds' /\ Alone' /\ Log' /\ Appends' /\ Written' /\ Promises' /\ File' /\ Memory'
      /\ Clean' /\ Sequence'
  <2>1. Bounds' /\ Alone'
    BY <1>1 DEF IInv, Bounds, Alone, diskVars
  <2>2. Log' /\ Appends'
    BY <1>1 DEF IInv, Log, Appends, Valid, diskVars, histVars
  <2>3. Written' /\ Promises' /\ Sequence'
    BY <1>1 DEF IInv, Written, Promises, Sequence, Valid, diskVars, histVars
  <2>4. File' /\ Memory'
    BY <1>1 DEF IInv, File, Memory, InFlight, Valid, TocReadable, TocState, Cut, diskVars, histVars, dataVars
  <2>5. Clean'
    BY <1>1 DEF IInv, Clean, CleanReuse, diskVars, dataVars
  <2> QED
    BY <2>1, <2>2, <2>3, <2>4, <2>5
<1>3. pc[t] \in {"seal", "vseal"} /\ up /\ \A s \in Thread : s = t \/ pc[s] = "idle"
  BY DEF IInv, Alone, SealCollection, SealFresh, Job
<1>4. /\ Ref(0, mem[c]) \in RefSet /\ Ref(0, mem[c]).epoch = 0
      /\ Ref(epoch, mem[c]) \in RefSet /\ Ref(epoch, mem[c]).epoch = epoch /\ epoch # 0
  <2>1. 0 \in Nat /\ 0 <= MaxCalls + 1
    BY MaxTypes
  <2> QED
    BY <2>1, EpochIs, RefType
<1>5. CleanReuse(c) # NoRef => pc[t] = "vseal" \/ CleanReuse(c) = Ref(epoch, mem[c])
  BY <1>3 DEF IInv, Clean
<1>6. PICK r \in RefSet :
         /\ snap' = [snap EXCEPT ![t][c] = r]
         /\ pc[t] = "seal" => r = Ref(epoch, mem[c]) \/ (r = Ref(0, mem[c]) /\ CleanReuse(c) = NoRef)
         /\ pc[t] = "vseal" => r = Ref(0, mem[c])
  BY <1>4, <1>5 DEF SealCollection, SealFresh
<1>7. todo' = [todo EXCEPT ![t] = @ \ {c}]
  BY DEF SealCollection, SealFresh
<1>8. Typing'
  BY <1>1, <1>6, <1>7 DEF IInv, Typing, diskVars, dataVars, histVars
<1>9. Jobs'
  <2>1. snap \in [Thread -> [Coll -> RefSet]] /\ todo \in [Thread -> SUBSET Coll]
    BY DEF IInv, Typing
  <2>2. \A d \in Coll : CleanReuse(d)' = CleanReuse(d) /\ Unreferenced(d)' = Unreferenced(d)
    BY <1>1 DEF CleanReuse, Unreferenced, dataVars
  <2>3. \A s \in Thread, d \in Coll :
           /\ snap'[s][d] = IF s = t /\ d = c THEN r ELSE snap[s][d]
           /\ d \in todo'[s] <=> d \in todo[s] /\ ~(s = t /\ d = c)
    BY <1>6, <1>7, <2>1
  <2> QED
    BY <1>1, <1>3, <1>4, <1>6, <2>2, <2>3 DEF IInv, Jobs, diskVars, dataVars
<1>10. Dirty'
  BY <1>1, <1>3, <1>7 DEF IInv, Dirty, Unreferenced, diskVars, dataVars
<1> QED
  BY <1>2, <1>8, <1>9, <1>10 DEF IInv

(* Nothing was noted that a state without mishaps excludes.                 *)
LEMMA NotNoted ==
    ASSUME NoMishap', NEW S, NEW c, NEW k, Note(S), If(c, k) \subseteq S
    PROVE  ~c
  BY DEF NoMishap, Note, If

(* A checkpoint, a vacuum or the close begins.                              *)
LEMMA BeginStep ==
    ASSUME StoreAssumption, NoMishap', IInv, NEW t \in Thread,
           CallCheckpoint(t) \/ CallVacuum(t) \/ Close(t)
    PROVE  IInv'
<1>1. /\ UNCHANGED <<diskVars, nextSeq, lock, up, dataVars, op, snap, histVars>>
      /\ up /\ pc[t] = "idle" /\ todo' = [todo EXCEPT ![t] = Coll]
  BY DEF CallCheckpoint, CallVacuum, Close, Goto
<1>2. \A s \in Thread : pc[s] = "idle"
  <2>1. CASE Close(t)
    BY <2>1 DEF Close
  <2>2. CASE CallCheckpoint(t) \/ CallVacuum(t)
    <3>1. \A s \in Thread \ {t} : pc[s] = "idle"
      BY <2>2, NotNoted DEF CallCheckpoint, CallVacuum, NoteBeside
    <3> QED
      BY <1>1, <3>1
  <2> QED
    BY <2>1, <2>2
<1>3. PICK x \in {"seal", "compact"} :
         /\ pc' = [pc EXCEPT ![t] = x]
         /\ x = "compact" => count'.calls = count.calls + 1
  <2>1. CASE CallCheckpoint(t)
    BY <2>1 DEF CallCheckpoint, Goto
  <2>2. CASE CallVacuum(t)
    <3>1. Bump("calls", MaxCalls) /\ pc' = [pc EXCEPT ![t] = "compact"]
      BY <2>2 DEF CallVacuum, Goto
    <3> QED
      BY <3>1, MaxTypes, BumpIs
  <2>3. CASE Close(t)
    BY <2>3 DEF Close, Goto
  <2> QED
    BY <2>1, <2>2, <2>3
<1>4. /\ count' \in Counts
      /\ count'.writes = count.writes /\ count'.errors = count.errors
      /\ count'.calls >= count.calls /\ count'.calls <= MaxCalls
  <2>1. count.calls \in Nat /\ count.calls <= MaxCalls
    BY DEF IInv, Typing, Bounds, Counts
  <2>2. CASE Bump("calls", MaxCalls)
    BY <2>1, <2>2, MaxTypes, BumpIs
  <2>3. CASE Bump("downs", MaxDowns)
    BY <2>1, <2>3, MaxTypes, BumpIs
  <2> QED
    BY <2>2, <2>3 DEF CallCheckpoint, CallVacuum, Close
<1>5. /\ pc \in [Thread -> Labels] /\ pc'[t] = x
      /\ \A s \in Thread : s = t \/ pc'[s] = "idle"
  BY <1>2, <1>3 DEF IInv, Typing
<1>6. Typing'
  <2>1. closing' \in BOOLEAN
    BY DEF CallCheckpoint, CallVacuum, Close, IInv, Typing
  <2> QED
    BY <1>1, <1>3, <1>4, <2>1 DEF IInv, Typing, Labels, Job, diskVars, dataVars, histVars
<1>7. Bounds'
  <2>1. /\ epoch \in Nat /\ epoch # 0 /\ epoch <= 1 + count.calls /\ count.calls \in Nat
        /\ Len(wal) <= count.writes + 1 /\ count.writes <= MaxWrites
    BY DEF IInv, Typing, Bounds, Counts
  <2>2. \A s \in Thread : pc'[s] \in {"compact", "vseal"} => epoch <= count'.calls
    BY <1>3, <1>5, <2>1
  <2> QED
    BY <1>1, <1>4, <2>1, <2>2, SMTT(30) DEF Counts, Bounds, diskVars
<1>8. Alone'
  BY <1>1, <1>2, <1>3, <1>5 DEF IInv, Alone, Job
<1>9. Log' /\ Promises' /\ Sequence'
  BY <1>1, <1>2, <1>4 DEF IInv, Log, Promises, Sequence, Valid, diskVars, histVars
<1>10. Appends' /\ Written'
  BY <1>1, <1>2, <1>3, <1>5 DEF IInv, Appends, Written, Valid, diskVars, histVars
<1>11. File'
  BY <1>1, <1>5 DEF IInv, File, Valid, TocReadable, TocState, Cut, diskVars, histVars
<1>12. Memory'
  <2>1. InFlight = {} /\ InFlight' = {}
    BY <1>2, <1>5 DEF InFlight
  <2> QED
    BY <1>1, <2>1 DEF IInv, Memory, dataVars, histVars
<1>13. \A d \in Coll : CleanReuse(d)' = CleanReuse(d) /\ Unreferenced(d)' = Unreferenced(d)
  BY <1>1 DEF CleanReuse, Unreferenced, dataVars
<1>14. Jobs'
  <2>1. todo'[t] = Coll
    BY <1>1 DEF IInv, Typing
  <2> QED
    BY <1>5, <2>1 DEF Jobs
<1>15. Clean' /\ Dirty'
  BY <1>1, <1>2, <1>4, <1>13 DEF IInv, Clean, Dirty, diskVars, dataVars
<1> QED
  BY <1>6, <1>7, <1>8, <1>9, <1>10, <1>11, <1>12, <1>14, <1>15 DEF IInv

(* Where a thread seals, commits, truncates, marks or compacts, it is alone *)
(* and memory is the log.                                                   *)
LEMMA JobAlone ==
    ASSUME StoreAssumption, IInv, NEW t \in Thread, pc[t] \in Job
    PROVE  /\ up /\ InFlight = {}
           /\ \A s \in Thread : s = t \/ pc[s] = "idle"
           /\ \A s \in Thread : pc[s] \notin {"sync", "apply"}
           /\ lock = IF pc[t] \in {"truncate", "vtruncate"} THEN t ELSE NoOne
           /\ mem = AfterOf(start, hist, Len(hist), FailedOf(hist, Len(hist)))
<1>1. up /\ \A s \in Thread : s = t \/ pc[s] = "idle"
  BY DEF IInv, Alone, Job
<1>2. \A s \in Thread : pc[s] \notin {"sync", "apply"}
  BY <1>1 DEF Job
<1>3. InFlight = {}
  BY <1>2 DEF InFlight
<1>4. lock = IF pc[t] \in {"truncate", "vtruncate"} THEN t ELSE NoOne
  <2>1. \A s \in Thread : pc[s] \in {"sync", "truncate", "vtruncate"} <=> lock = s
    BY DEF IInv, Alone
  <2>2. lock \in Thread \cup {NoOne}
    BY DEF IInv, Typing
  <2>3. CASE pc[t] \in {"truncate", "vtruncate"}
    BY <2>1, <2>3
  <2>4. CASE pc[t] \notin {"truncate", "vtruncate"}
    <3>1. \A s \in Thread : pc[s] \notin {"sync", "truncate", "vtruncate"}
      BY <1>1, <1>2, <2>4
    <3> QED
      BY <2>1, <2>2, <2>4, <3>1
  <2> QED
    BY <2>3, <2>4
<1> QED
  BY <1>1, <1>2, <1>3, <1>4 DEF IInv, Memory

(* The committed TOC holds what the log made, when it is about to empty.    *)
LEMMA Committed ==
    ASSUME StoreAssumption, IInv, NEW t \in Thread,
           pc[t] \in {"truncate", "vtruncate"}
    PROVE  TocState = AfterOf(start, hist, Len(hist), FailedOf(hist, Len(hist)))
<1>1. mem = AfterOf(start, hist, Len(hist), FailedOf(hist, Len(hist)))
  BY JobAlone DEF Job
<1>2. \A c \in Coll : toc[c].body = mem[c]
  <2>1. Jobs
    BY DEF IInv
  <2>2. \A c \in Coll : toc[c] = Ref(epoch, mem[c])
    BY <2>1 DEF Jobs
  <2>3. \A b : Ref(epoch, b).body = b
    BY DEF Ref
  <2> QED
    BY <2>2, <2>3
<1>3. mem = [c \in Coll |-> mem[c]]
  BY DEF IInv, Typing, States
<1> QED
  BY <1>1, <1>2, <1>3 DEF TocState

(* All the log is in the WAL but a last write whose append failed.          *)
LEMMA LogEnd ==
    ASSUME StoreAssumption, IInv, up
    PROVE  \E k \in walFrom..(walFrom + Valid) :
              AfterOf(start, hist, Len(hist), FailedOf(hist, Len(hist))) = AfterOf(start, hist, k, FailedOf(hist, k))
<1>0. /\ walFrom \in Nat /\ Valid \in Nat /\ Len(hist) \in Nat /\ hist \in Seq(HistEntry) /\ start \in States
  BY Sizes DEF IInv, Typing
<1>1. CASE Len(hist) = walFrom + Valid
  BY <1>0, <1>1
<1>2. CASE Len(hist) = walFrom + Valid + 1 /\ hist[Len(hist)].failed
  <2> DEFINE k == walFrom + Valid
  <2>1. k \in 0..Len(hist) /\ k < Len(hist) /\ k + 1 = Len(hist) /\ k \in walFrom..k
    BY <1>0, <1>2
  <2> HIDE DEF k
  <2>2. k + 1 \in FailedOf(hist, k + 1)
    BY <1>2, <2>1 DEF FailedOf
  <2>3. AfterOf(start, hist, k + 1, FailedOf(hist, k + 1)) = AfterOf(start, hist, k, FailedOf(hist, k + 1))
    BY <1>0, <2>1, <2>2, AfterNext
  <2>4. \A i \in 1..k : i \in FailedOf(hist, k + 1) <=> i \in FailedOf(hist, k)
    BY <2>1 DEF FailedOf
  <2>5. AfterOf(start, hist, k, FailedOf(hist, k + 1)) = AfterOf(start, hist, k, FailedOf(hist, k))
    <3>1. k <= Len(hist) /\ SameTo(hist, hist, k)
      BY <2>1 DEF SameTo
    <3> QED
      BY <1>0, <2>1, <2>4, <3>1, AfterSame
  <2> QED
    BY <2>1, <2>3, <2>5 DEF k
<1> QED
  BY <1>1, <1>2 DEF IInv, Log

(* A checkpoint or a vacuum ends, with or without an error.                 *)
LEMMA ReturnStep ==
    ASSUME StoreAssumption, IInv, NEW t \in Thread, NEW ok \in BOOLEAN,
           pc[t] \in Job, Return(t, ok),
           UNCHANGED <<toc, epoch, nextSeq, dataVars>>, lock' = NoOne,
           \/ UNCHANGED <<wal, flushed, settled, walFrom>>
           \/ EmptyWal /\ pc[t] \in {"truncate", "vtruncate"},
           \/ UNCHANGED <<wal, count>> /\ (pc[t] = "done" \/ (pc[t] = "mark" /\ todo[t] = {}))
           \/ Bump("errors", MaxErrors) /\ pc[t] # "mark"
    PROVE  IInv'
<1>1. /\ up /\ InFlight = {} /\ mem = AfterOf(start, hist, Len(hist), FailedOf(hist, Len(hist)))
      /\ \A s \in Thread : s = t \/ pc[s] = "idle"
      /\ \A s \in Thread : pc[s] \notin {"sync", "apply"}
  BY JobAlone
<1>2. /\ pc' = [pc EXCEPT ![t] = "idle"] /\ todo' = [todo EXCEPT ![t] = {}]
      /\ snap' = [snap EXCEPT ![t] = [c \in Coll |-> NoRef]]
      /\ op' = [op EXCEPT ![t] = NoOp]
      /\ up' = ~closing /\ UNCHANGED <<closing, start, hist>>
      /\ acked' = acked \/ (acked' = op[t].idx /\ acked' > acked)
  BY DEF Return, Ack
<1>3. \A s \in Thread : pc'[s] = "idle"
  BY <1>1, <1>2 DEF IInv, Typing
<1>4. /\ Len(hist) \in Nat /\ walFrom \in Nat /\ Valid \in Nat /\ walFrom + Valid <= Len(hist)
      /\ acked \in Nat /\ settled \in 0..Len(hist) /\ acked <= walFrom + Valid
      /\ \A s \in Thread : op[s].idx \in Nat /\ op[s].idx <= walFrom + Valid
  <2>1. \A s \in Thread : op[s].idx <= walFrom + Valid
    BY <1>1 DEF IInv, Written
  <2> QED
    BY <2>1, Sizes
<1>5. /\ acked' \in Nat /\ acked' <= walFrom + Valid
      /\ Durability = "Full" => acked' <= settled
      /\ op' \in [Thread -> [coll : Coll \cup {NoOne}, upd : Patch, idx : Nat]]
      /\ \A s \in Thread : op'[s].idx \in Nat /\ op'[s].idx <= walFrom + Valid
                          /\ (Durability = "Full" => op'[s].idx <= settled)
                          /\ op'[s].idx = 0
  <2>1. Durability = "Full" => acked <= settled /\ \A s \in Thread : op[s].idx <= settled
    BY <1>1 DEF IInv, Promises, Written
  <2>2. NoOp \in [coll : Coll \cup {NoOne}, upd : Patch, idx : Nat] /\ NoOp.idx = 0
    BY NoUpdatePatch DEF NoOp
  <2>3. op \in [Thread -> [coll : Coll \cup {NoOne}, upd : Patch, idx : Nat]]
    BY DEF IInv, Typing
  <2>4. \A s \in Thread : op'[s] = IF s = t THEN NoOp ELSE op[s]
    BY <1>2, <2>3
  <2>5. \A s \in Thread : op'[s].idx = 0
    <3>1. \A s \in Thread : s # t => op[s].idx = 0
      BY <1>1 DEF IInv, Written
    <3> QED
      BY <2>2, <2>4, <3>1
  <2> QED
    BY <1>2, <1>4, <2>1, <2>2, <2>3, <2>4, <2>5
<1>6. ASSUME UNCHANGED <<wal, flushed, settled, walFrom>>
      PROVE  /\ Log' /\ Promises' /\ Written' /\ File'
             /\ WalType(wal') /\ Len(wal') <= Len(wal) /\ flushed' \in 0..Len(wal')
             /\ acked' \in 0..Len(hist) /\ settled' \in 0..Len(hist) /\ walFrom' \in 0..Len(hist)
  <2>1. Valid' = Valid
    BY <1>6 DEF Valid
  <2>2. Log' /\ Promises'
    BY <1>1, <1>2, <1>4, <1>5, <1>6, <2>1 DEF IInv, Log, Promises
  <2>3. Written'
    BY <1>2, <1>3, <1>5, <1>6, <2>1 DEF Written
  <2>4. File'
    BY <1>2, <1>3, <1>6, <2>1 DEF IInv, File, TocReadable, TocState, Cut
  <2>5. WalType(wal') /\ Len(wal') <= Len(wal) /\ flushed' \in 0..Len(wal')
        /\ acked' \in 0..Len(hist) /\ settled' \in 0..Len(hist) /\ walFrom' \in 0..Len(hist)
    <3>1. WalType(wal) /\ walFrom \in 0..Len(hist)
      BY DEF IInv, Typing
    <3> QED
      BY <1>4, <1>5, <1>6, <3>1, Sizes
  <2> QED
    BY <2>2, <2>3, <2>4, <2>5
<1>7. ASSUME EmptyWal, pc[t] \in {"truncate", "vtruncate"}
      PROVE  /\ Log' /\ Promises' /\ Written' /\ File'
             /\ WalType(wal') /\ Len(wal') <= Len(wal) /\ flushed' \in 0..Len(wal')
             /\ acked' \in 0..Len(hist) /\ settled' \in 0..Len(hist) /\ walFrom' \in 0..Len(hist)
  <2>1. wal' = <<>> /\ flushed' = 0 /\ settled' = Len(hist) /\ walFrom' = Len(hist) /\ Valid' = 0
        /\ Len(wal') = 0 /\ wal' \in Seq(WalEntry)
    BY <1>7, EmptyPrefix DEF EmptyWal, Valid
  <2>2. Log' /\ Promises'
    BY <1>1, <1>2, <1>4, <1>5, <2>1 DEF Log, Promises
  <2>3. Written'
    BY <1>2, <1>3, <1>4, <1>5, <2>1 DEF Written
  <2>4. File'
    <3>1. TocState' = AfterOf(start, hist, Len(hist), FailedOf(hist, Len(hist)))
      BY <1>7, Committed DEF TocState
    <3>2. TocReadable'
      BY DEF IInv, File, TocReadable
    <3>3. Len(hist) \in walFrom'..(walFrom' + Valid')
      BY <1>4, <2>1
    <3> QED
      BY <1>2, <1>3, <2>1, <3>1, <3>2, <3>3 DEF File
  <2>5. WalType(wal') /\ Len(wal') <= Len(wal) /\ flushed' \in 0..Len(wal')
        /\ acked' \in 0..Len(hist) /\ settled' \in 0..Len(hist) /\ walFrom' \in 0..Len(hist)
    <3>1. Len(wal) \in Nat
      BY Sizes
    <3> QED
      BY <1>4, <1>5, <2>1, <3>1 DEF WalType
  <2> QED
    BY <2>2, <2>3, <2>4, <2>5
<1>8. /\ Log' /\ Promises' /\ Written' /\ File'
      /\ WalType(wal') /\ Len(wal') <= Len(wal) /\ flushed' \in 0..Len(wal')
      /\ acked' \in 0..Len(hist) /\ settled' \in 0..Len(hist) /\ walFrom' \in 0..Len(hist)
  BY <1>6, <1>7
<1>9. /\ count' \in Counts /\ count'.writes = count.writes /\ count'.calls = count.calls
      /\ count'.errors = 0 => UNCHANGED <<wal, count>> /\ (pc[t] = "done" \/ (pc[t] = "mark" /\ todo[t] = {}))
  <2>1. count \in Counts
    BY DEF IInv, Typing
  <2>2. CASE Bump("errors", MaxErrors)
    BY <2>1, <2>2, MaxTypes, BumpIs DEF Counts
  <2> QED
    BY <2>1, <2>2
<1>10. Typing'
  <2>1. [c \in Coll |-> NoRef] \in [Coll -> RefSet]
    BY NoRefType
  <2>2. pc' \in [Thread -> Labels] /\ todo' \in [Thread -> SUBSET Coll] /\ snap' \in [Thread -> [Coll -> RefSet]]
    BY <1>2, <2>1 DEF IInv, Typing, Labels
  <2>3. up' \in BOOLEAN /\ lock' \in Thread \cup {NoOne}
    BY <1>2
  <2>4. /\ UNCHANGED <<toc, epoch, nextSeq, mem, dirty, sealed, base, closing, start, hist>>
    BY <1>2 DEF dataVars
  <2> QED
    BY <1>5, <1>8, <1>9, <2>2, <2>3, <2>4 DEF IInv, Typing
<1>11. Bounds'
  <2>1. Len(wal) \in Nat /\ Len(wal') \in Nat /\ count \in Counts
    BY <1>8, Sizes DEF WalType
  <2>2. epoch # 0 /\ epoch <= 1 + count.calls /\ count.calls <= MaxCalls /\ count.writes <= MaxWrites
        /\ Len(wal) <= count.writes + 1
    BY DEF IInv, Bounds
  <2>3. Len(wal') <= count'.writes + 1
    <3>1. count.writes \in Nat /\ count'.writes = count.writes /\ Len(wal') <= Len(wal)
      BY <1>8, <1>9, <2>1 DEF Counts
    <3> QED
      BY <2>1, <2>2, <3>1
  <2> QED
    BY <1>3, <1>9, <2>2, <2>3 DEF Bounds
<1>12. Alone'
  BY <1>3 DEF Alone, Job, StoreAssumption
<1>13. Appends' /\ Jobs'
  BY <1>3 DEF Appends, Jobs
<1>14. Memory'
  <2>1. InFlight' = {}
    BY <1>3 DEF InFlight
  <2> QED
    BY <1>1, <1>2, <2>1 DEF Memory, dataVars
<1>15. \A c \in Coll : CleanReuse(c)' = CleanReuse(c) /\ Unreferenced(c)' = Unreferenced(c)
  BY DEF CleanReuse, Unreferenced, dataVars
<1>16. Clean'
  <2>1. up' => ~closing
    BY <1>2
  <2> QED
    BY <1>1, <1>2, <1>15, <2>1 DEF IInv, Clean, dataVars
<1>17. Dirty'
  BY <1>1, <1>2, <1>9, <1>15 DEF IInv, Dirty, dataVars
<1>18. Sequence'
  <2>1. wal' = wal => Valid' = Valid
    BY DEF Valid
  <2> QED
    BY <1>1, <1>9, <2>1 DEF IInv, Sequence
<1> QED
  BY <1>8, <1>10, <1>11, <1>12, <1>13, <1>14, <1>16, <1>17, <1>18 DEF IInv

(* Within a checkpoint or a vacuum nothing of the log or of memory changes  *)
(* but by the truncation.                                                   *)
LEMMA JobFrame ==
    ASSUME StoreAssumption, IInv, NEW t \in Thread, pc[t] \in Job,
           NEW x \in Job, pc' = [pc EXCEPT ![t] = x],
           UNCHANGED <<wal, flushed, nextSeq, up, closing, mem, op, histVars>>,
           count'.errors = count.errors,
           lock' = IF x \in {"truncate", "vtruncate"} THEN t ELSE NoOne
    PROVE  /\ Alone' /\ Log' /\ Appends' /\ Written' /\ Promises' /\ Memory' /\ Sequence'
           /\ pc'[t] = x /\ pc' \in [Thread -> Labels]
           /\ \A s \in Thread : s = t \/ pc'[s] = "idle"
<1>1. /\ up /\ InFlight = {} /\ mem = AfterOf(start, hist, Len(hist), FailedOf(hist, Len(hist)))
      /\ \A s \in Thread : s = t \/ pc[s] = "idle"
      /\ \A s \in Thread : pc[s] \notin {"sync", "apply"}
  BY JobAlone
<1>2. /\ pc'[t] = x /\ pc' \in [Thread -> Labels]
      /\ \A s \in Thread : s = t \/ pc'[s] = "idle"
      /\ \A s \in Thread : pc'[s] \notin {"sync", "apply"}
  BY <1>1 DEF IInv, Typing, Labels, Job
<1>3. Valid' = Valid
  BY DEF Valid
<1>4. Alone'
  <2>2. NoOne \notin Thread
    BY DEF StoreAssumption
  <2>3. \A s \in Thread : pc'[s] \in {"sync", "truncate", "vtruncate"} <=> lock' = s
    BY <1>2, <2>2
  <2>4. \A s \in Thread : pc'[s] \in Job => s = t
    BY <1>2 DEF Job
  <2> QED
    BY <1>1, <1>2, <2>3, <2>4 DEF Alone
<1>5. Log' /\ Promises'
  BY <1>3 DEF IInv, Log, Promises, histVars
<1>6. Appends' /\ Written'
  <2>1. \A s \in Thread : pc'[s] = "idle" => pc[s] = "idle"
    BY <1>1, <1>2 DEF Job
  <2> QED
    BY <1>1, <1>2, <1>3, <2>1 DEF IInv, Appends, Written, histVars
<1>7. Memory'
  <2>1. InFlight' = {}
    BY <1>2 DEF InFlight
  <2> QED
    BY <1>1, <2>1 DEF Memory, histVars
<1>8. Sequence'
  BY <1>1, <1>2, <1>3 DEF IInv, Sequence
<1> QED
  BY <1>2, <1>4, <1>5, <1>6, <1>7, <1>8

(* A commit puts the TOC at the points memory holds, which is the whole     *)
(* WAL's; one with nothing to persist leaves it there.                      *)
LEMMA CommitStep ==
    ASSUME StoreAssumption, IInv, NEW t \in Thread,
           CommitNothing(t) \/ Commit(t)
    PROVE  IInv'
<1>1. /\ pc[t] = "seal" /\ todo[t] = {}
      /\ UNCHANGED <<wal, flushed, nextSeq, up, closing, mem, dirty, sealed, base, op, histVars, count,
                    epoch, snap, todo>>
  BY DEF CommitNothing, Commit, Goto, dataVars, jobVars, diskVars
<1>2. /\ up /\ mem = AfterOf(start, hist, Len(hist), FailedOf(hist, Len(hist)))
      /\ \A s \in Thread : s = t \/ pc[s] = "idle"
      /\ lock = NoOne
  BY <1>1, JobAlone DEF Job
<1>3. PICK x \in {"mark", "truncate"} :
         /\ pc' = [pc EXCEPT ![t] = x]
         /\ lock' = IF x = "truncate" THEN t ELSE NoOne
         /\ x = "mark" => toc' = toc
         /\ x = "truncate" => toc' = [c \in Coll |-> IF snap[t][c].epoch = 0 THEN Ref(epoch, snap[t][c].body)
                                                     ELSE snap[t][c]]
  BY <1>2 DEF CommitNothing, Commit, Goto, diskVars
<1>4. /\ Alone' /\ Log' /\ Appends' /\ Written' /\ Promises' /\ Memory' /\ Sequence'
      /\ pc'[t] = x /\ pc' \in [Thread -> Labels]
      /\ \A s \in Thread : s = t \/ pc'[s] = "idle"
  BY <1>1, <1>3, JobFrame DEF Job
<1>5. x = "truncate" => \A c \in Coll : toc'[c] = Ref(epoch, mem[c])
  <2>1. \A c \in Coll : snap[t][c] = Ref(epoch, mem[c]) \/ snap[t][c] = Ref(0, mem[c])
    BY <1>1 DEF IInv, Jobs
  <2>2. \A e, b : Ref(e, b).epoch = e /\ Ref(e, b).body = b
    BY DEF Ref
  <2>3. epoch # 0
    BY EpochIs
  <2> QED
    BY <1>3, <2>1, <2>2, <2>3
<1>6. toc' \in [Coll -> RefSet] /\ TocReadable'
  <2>1. \A c \in Coll : Ref(epoch, mem[c]) \in RefSet /\ Ref(epoch, mem[c]).epoch = epoch
    BY EpochIs, RefType
  <2>2. toc \in [Coll -> RefSet] /\ TocReadable
    BY DEF IInv, Typing, File
  <2> QED
    BY <1>1, <1>3, <1>5, <2>1, <2>2 DEF TocReadable
<1>7. Typing'
  BY <1>1, <1>3, <1>4, <1>6 DEF IInv, Typing, histVars
<1>8. Bounds'
  BY <1>1, <1>2, <1>4 DEF IInv, Bounds
<1>9. File'
  <2>1. Valid' = Valid
    BY <1>1 DEF Valid
  <2>2. \A s \in Thread : pc'[s] # "sync"
    BY <1>4
  <2>3. CASE x = "mark"
    BY <1>1, <1>3, <1>6, <2>1, <2>2, <2>3 DEF IInv, File, TocState, Cut, histVars
  <2>4. CASE x = "truncate"
    <3>1. TocState' = AfterOf(start, hist, Len(hist), FailedOf(hist, Len(hist)))
      <4>1. \A c \in Coll : toc'[c].body = mem[c]
        <5>1. \A b : Ref(epoch, b).body = b
          BY DEF Ref
        <5> QED
          BY <1>5, <2>4, <5>1
      <4>2. mem = [c \in Coll |-> mem[c]]
        BY DEF IInv, Typing, States
      <4> QED
        BY <1>2, <4>1, <4>2 DEF TocState
    <3>2. PICK k \in walFrom..(walFrom + Valid) :
            AfterOf(start, hist, Len(hist), FailedOf(hist, Len(hist))) = AfterOf(start, hist, k, FailedOf(hist, k))
      BY <1>2, LogEnd
    <3>3. ~Cut
      BY <1>2, Sizes, SMTT(30) DEF IInv, Log, Cut
    <3>4. ~Cut'
      BY <1>1, <3>3 DEF Cut, histVars
    <3> QED
      BY <1>1, <1>6, <2>1, <2>2, <3>1, <3>2, <3>4 DEF File, histVars
  <2> QED
    BY <2>3, <2>4
<1>10. \A c \in Coll : CleanReuse(c)' = CleanReuse(c) /\ Unreferenced(c)' = Unreferenced(c)
  BY <1>1 DEF CleanReuse, Unreferenced
<1>11. Jobs'
  BY <1>1, <1>4, <1>5 DEF Jobs
<1>12. Clean'
  BY <1>1, <1>2, <1>10 DEF IInv, Clean
<1>13. Dirty'
  BY <1>1, <1>2, <1>10 DEF IInv, Dirty
<1> QED
  BY <1>4, <1>7, <1>8, <1>9, <1>11, <1>12, <1>13 DEF IInv

(* What is emptied is recovered from the TOC.                               *)
LEMMA TruncateStep ==
    ASSUME StoreAssumption, IInv, NEW t \in Thread, Truncate(t)
    PROVE  IInv'
<1>1. /\ wal' = <<>> /\ flushed' = 0 /\ settled' = Len(hist) /\ walFrom' = Len(hist)
      /\ nextSeq' = 1 /\ snap' = [snap EXCEPT ![t] = toc] /\ lock' = NoOne
      /\ UNCHANGED <<toc, epoch, up, closing, mem, dirty, sealed, base, op, start, hist, acked, count>>
  BY DEF Truncate, EmptyWal, dataVars
<1>2. PICK x \in {"mark", "done"} :
         /\ pc' = [pc EXCEPT ![t] = x]
         /\ x = "mark" => pc[t] = "truncate" /\ todo' = [todo EXCEPT ![t] = Coll]
         /\ x = "done" => pc[t] = "vtruncate" /\ todo' = todo
  BY DEF Truncate, Goto
<1>3. pc[t] \in {"truncate", "vtruncate"} /\ pc[t] \in Job
  BY <1>2 DEF Job
<1>4. /\ up /\ InFlight = {} /\ mem = AfterOf(start, hist, Len(hist), FailedOf(hist, Len(hist)))
      /\ \A s \in Thread : s = t \/ pc[s] = "idle"
  BY <1>3, JobAlone
<1>5. /\ pc'[t] = x /\ pc' \in [Thread -> Labels] /\ todo' \in [Thread -> SUBSET Coll]
      /\ \A s \in Thread : s = t \/ pc'[s] = "idle"
      /\ \A s \in Thread : pc'[s] \notin {"sync", "apply"}
      /\ x = "mark" => todo'[t] = Coll
  BY <1>2, <1>4 DEF IInv, Typing, Labels, Job
<1>6. Valid' = 0 /\ Len(wal') = 0 /\ WalType(wal')
  BY <1>1, EmptyPrefix DEF Valid, WalType
<1>7. /\ Len(hist) \in Nat /\ Len(wal) \in Nat /\ count \in Counts
      /\ walFrom + Valid <= Len(hist) /\ settled <= Len(hist) /\ acked <= Len(hist) /\ acked \in Nat
      /\ walFrom \in Nat /\ Valid \in Nat
      /\ \A s \in Thread : op[s].idx \in Nat /\ op[s].idx <= Len(hist)
  <2>1. \A s \in Thread : op[s].idx <= walFrom + Valid
    BY <1>3, <1>4 DEF IInv, Written
  <2> QED
    BY <2>1, Sizes, SMTT(30)
<1>8. Typing'
  <2>1. toc \in [Coll -> RefSet]
    BY DEF IInv, Typing
  <2>2. snap' \in [Thread -> [Coll -> RefSet]]
    BY <1>1, <2>1 DEF IInv, Typing
  <2>3. /\ flushed' \in 0..Len(wal') /\ nextSeq' \in Nat /\ lock' \in Thread \cup {NoOne}
        /\ acked' \in 0..Len(hist) /\ settled' \in 0..Len(hist) /\ walFrom' \in 0..Len(hist)
    BY <1>1, <1>6, <1>7
  <2> QED
    BY <1>1, <1>5, <1>6, <2>2, <2>3 DEF IInv, Typing
<1>9. Bounds'
  BY <1>1, <1>5, <1>6, <1>7, <1>2, SMTT(30) DEF IInv, Bounds, Counts
<1>10. Alone'
  <2>2. \A s \in Thread : pc'[s] \in Job => s = t
    BY <1>5 DEF Job
  <2>3. \A s \in Thread : pc'[s] \notin {"sync", "truncate", "vtruncate"} /\ lock' # s
    BY <1>1, <1>5 DEF StoreAssumption
  <2> QED
    BY <1>1, <1>2, <1>4, <1>5, <2>2, <2>3 DEF Alone
<1>11. Log' /\ Promises' /\ Sequence'
  BY <1>1, <1>6, <1>7 DEF Log, Promises, Sequence
<1>12. Appends' /\ Written'
  <2>1. \A s \in Thread : pc'[s] = "idle" => op[s].idx = 0
    BY <1>2, <1>4, <1>5 DEF IInv, Written, Job
  <2> QED
    BY <1>1, <1>5, <1>6, <1>7, <2>1 DEF Appends, Written
<1>13. File'
  <2>1. TocState' = AfterOf(start, hist, Len(hist), FailedOf(hist, Len(hist)))
    BY <1>1, <1>3, Committed DEF TocState
  <2>2. TocReadable' /\ ~Cut'
    BY <1>1, <1>6, <1>7 DEF IInv, File, TocReadable, Cut
  <2>3. Len(hist) \in walFrom'..(walFrom' + Valid')
    BY <1>1, <1>6, <1>7
  <2> QED
    BY <1>1, <1>5, <2>1, <2>2, <2>3 DEF File
<1>14. Memory'
  <2>1. InFlight' = {}
    BY <1>5 DEF InFlight
  <2> QED
    BY <1>1, <1>4, <2>1 DEF Memory
<1>15. \A c \in Coll : CleanReuse(c)' = CleanReuse(c) /\ Unreferenced(c)' = Unreferenced(c)
  BY <1>1 DEF CleanReuse, Unreferenced
<1>16. Jobs
  BY DEF IInv
<1>17. Jobs'
  <2>1. x = "mark" => \A c \in Coll : snap'[t][c] = Ref(epoch, mem[c])
    <3>1. snap'[t] = toc
      BY <1>1 DEF IInv, Typing
    <3> QED
      BY <1>2, <1>16, <3>1 DEF Jobs
  <2>2. x = "done" => \A c \in Coll : Unreferenced(c)
    BY <1>2, <1>16 DEF Jobs
  <2> QED
    BY <1>1, <1>5, <1>15, <2>1, <2>2 DEF Jobs
<1>18. Clean'
  BY <1>1, <1>3, <1>4, <1>15 DEF IInv, Clean
<1>19. Dirty'
  BY <1>1, <1>2, <1>5, <1>15, <1>16 DEF Dirty, Jobs
<1> QED
  BY <1>8, <1>9, <1>10, <1>11, <1>12, <1>13, <1>14, <1>17, <1>18, <1>19 DEF IInv

(* Marking a collection sealed records references that lead to its points.  *)
LEMMA MarkStep ==
    ASSUME StoreAssumption, NoMishap', IInv, NEW t \in Thread, NEW d \in Coll, MarkSealed(t, d)
    PROVE  IInv'
<1>1. /\ pc[t] = "mark" /\ d \in todo[t]
      /\ sealed' = [sealed EXCEPT ![d] = snap[t][d]] /\ dirty' = [dirty EXCEPT ![d] = FALSE]
      /\ todo' = [todo EXCEPT ![t] = @ \ {d}]
      /\ UNCHANGED <<toc, epoch, wal, flushed, nextSeq, lock, up, closing, mem, base, pc, op, snap,
                    histVars, count>>
  BY DEF MarkSealed, diskVars
<1>2. /\ up /\ lock = NoOne /\ \A s \in Thread : s = t \/ pc[s] = "idle"
  BY <1>1, JobAlone DEF Job
<1>3. /\ Alone' /\ Log' /\ Appends' /\ Written' /\ Promises' /\ Memory' /\ Sequence'
  <2>1. pc' = [pc EXCEPT ![t] = "mark"]
    BY <1>1 DEF IInv, Typing
  <2> QED
    BY <1>1, <1>2, <2>1, JobFrame DEF Job
<1>4. snap[t][d] \in RefSet /\ snap[t][d] = Ref(epoch, mem[d])
  <2>1. snap[t][d] \in RefSet
    BY DEF IInv, Typing
  <2>2. Jobs
    BY DEF IInv
  <2> QED
    BY <1>1, <2>1, <2>2 DEF Jobs
<1>5. Typing'
  BY <1>1, <1>4 DEF IInv, Typing, histVars
<1>6. Bounds' /\ File'
  BY <1>1 DEF IInv, Bounds, File, Valid, TocReadable, TocState, Cut, histVars
<1>7. Jobs'
  <2>1. todo \in [Thread -> SUBSET Coll]
    BY DEF IInv, Typing
  <2>2. \A c \in Coll : c \in todo'[t] => c \in todo[t]
    BY <1>1, <2>1
  <2> QED
    BY <1>1, <1>2, <2>2 DEF IInv, Jobs
<1>8. Clean'
  <2>1. \A c \in Coll : c # d => CleanReuse(c)' = CleanReuse(c)
    BY <1>1 DEF CleanReuse, IInv, Typing
  <2>2. dirty \in [Coll -> BOOLEAN] /\ sealed \in [Coll -> RefSet] /\ Clean
    BY DEF IInv, Typing
  <2>3. closing \/ CleanReuse(d)' = Ref(epoch, mem[d])
    <3>1. closing \/ base[d] \in {NoRef, snap[t][d]}
      BY NotNoted DEF MarkSealed
    <3> QED
      BY <1>1, <1>4, <2>2, <3>1 DEF CleanReuse
  <2> QED
    BY <1>1, <1>2, <2>1, <2>3 DEF IInv, Clean
<1>9. Dirty'
  <2>1. dirty \in [Coll -> BOOLEAN] /\ sealed \in [Coll -> RefSet] /\ todo \in [Thread -> SUBSET Coll]
    BY DEF IInv, Typing
  <2>2. \A c \in Coll : dirty'[c] => c # d /\ dirty[c] /\ (Unreferenced(c) => Unreferenced(c)')
    BY <1>1, <2>1 DEF Unreferenced
  <2>3. \A c \in Coll : c # d /\ c \in todo[t] => c \in todo'[t]
    BY <1>1, <2>1
  <2> QED
    BY <1>1, <1>2, <2>2, <2>3 DEF IInv, Dirty
<1> QED
  BY <1>3, <1>5, <1>6, <1>7, <1>8, <1>9 DEF IInv

(* The calls that end here.                                                 *)
LEMMA EndStep ==
    ASSUME StoreAssumption, IInv, NEW t \in Thread,
           CommitError(t) \/ TruncateError(t) \/ VacuumDone(t)
    PROVE  IInv'
<1>1. CASE CommitError(t)
  <2>1. pc[t] \in {"seal", "vseal"} /\ lock' = NoOne /\ pc[t] \in Job /\ pc[t] # "mark"
    BY <1>1 DEF CommitError, Free, Job
  <2>2. /\ UNCHANGED <<toc, epoch, nextSeq, dataVars>> /\ UNCHANGED <<wal, flushed, settled, walFrom>>
        /\ Return(t, FALSE) /\ Bump("errors", MaxErrors)
    BY <1>1 DEF CommitError, diskVars
  <2> QED
    BY <2>1, <2>2, ReturnStep
<1>2. CASE TruncateError(t)
  <2>1. pc[t] \in {"truncate", "vtruncate"} /\ lock' = NoOne /\ pc[t] \in Job /\ pc[t] # "mark"
    BY <1>2 DEF TruncateError, Job
  <2>2. /\ UNCHANGED <<toc, epoch, nextSeq, dataVars>>
        /\ EmptyWal \/ UNCHANGED <<wal, flushed, settled, walFrom>>
        /\ Return(t, FALSE) /\ Bump("errors", MaxErrors)
    BY <1>2 DEF TruncateError
  <2> QED
    BY <2>1, <2>2, ReturnStep
<1>3. CASE VacuumDone(t)
  <2>1. /\ pc[t] = "done" /\ pc[t] \in Job
        /\ UNCHANGED <<toc, epoch, nextSeq, dataVars>> /\ UNCHANGED <<wal, flushed, settled, walFrom>>
        /\ UNCHANGED <<wal, count>> /\ Return(t, TRUE) /\ lock' = lock
    BY <1>3 DEF VacuumDone, diskVars, Job
  <2>2. lock' = NoOne
    BY <2>1, JobAlone
  <2> QED
    BY <2>1, <2>2, ReturnStep
<1> QED
  BY <1>1, <1>2, <1>3

(* A checkpoint returns, or goes on as a vacuum.                            *)
LEMMA DoneStep ==
    ASSUME StoreAssumption, IInv, NEW t \in Thread, CheckpointDone(t)
    PROVE  IInv'
<1>1. /\ pc[t] = "mark" /\ todo[t] = {} /\ pc[t] \in Job
      /\ UNCHANGED <<toc, epoch, wal, flushed, nextSeq, lock, mem, dirty, sealed, base, settled, walFrom>>
  BY DEF CheckpointDone, diskVars, dataVars, Job
<1>2. /\ up /\ lock = NoOne /\ \A s \in Thread : s = t \/ pc[s] = "idle"
  BY <1>1, JobAlone
<1>3. CASE Return(t, TRUE) /\ UNCHANGED count
  BY <1>1, <1>2, <1>3, ReturnStep DEF dataVars
<1>4. ASSUME ~closing, t \in Vacuumers, Bump("calls", MaxCalls),
             pc' = [pc EXCEPT ![t] = "compact"], todo' = [todo EXCEPT ![t] = Coll],
             UNCHANGED <<up, closing, op, snap, start, hist, acked>>
      PROVE  IInv'
  <2>2. /\ count' \in Counts /\ count'.calls = count.calls + 1 /\ count'.calls <= MaxCalls
        /\ count'.errors = count.errors /\ count'.writes = count.writes
    BY <1>4, MaxTypes, BumpIs
  <2>3. /\ Alone' /\ Log' /\ Appends' /\ Written' /\ Promises' /\ Memory' /\ Sequence'
        /\ pc'[t] = "compact" /\ pc' \in [Thread -> Labels]
        /\ \A s \in Thread : s = t \/ pc'[s] = "idle"
    BY <1>1, <1>2, <1>4, <2>2, JobFrame DEF Job, histVars
  <2>4. todo' \in [Thread -> SUBSET Coll] /\ todo'[t] = Coll
    BY <1>4 DEF IInv, Typing
  <2>5. Typing'
    BY <1>1, <1>4, <2>2, <2>3, <2>4 DEF IInv, Typing
  <2>6. Bounds'
    <3>1. epoch \in Nat /\ epoch # 0 /\ epoch <= 1 + count.calls /\ count.calls \in Nat
          /\ Len(wal) <= count.writes + 1 /\ count.writes <= MaxWrites
      BY EpochIs, Sizes DEF IInv, Bounds
    <3> QED
      BY <1>1, <2>2, <3>1 DEF Bounds
  <2>7. File'
    BY <1>1, <1>4, <2>3 DEF IInv, File, Valid, TocReadable, TocState, Cut
  <2>8. \A c \in Coll : CleanReuse(c)' = CleanReuse(c) /\ Unreferenced(c)' = Unreferenced(c)
    BY <1>1 DEF CleanReuse, Unreferenced
  <2>9. Jobs'
    BY <2>3, <2>4 DEF Jobs
  <2>10. Clean'
    BY <1>1, <1>2, <1>4, <2>8 DEF IInv, Clean
  <2>11. Dirty'
    BY <1>1, <1>2, <2>2, <2>8 DEF IInv, Dirty
  <2> QED
    BY <2>3, <2>5, <2>6, <2>7, <2>9, <2>10, <2>11 DEF IInv
<1> QED
  BY <1>3, <1>4 DEF CheckpointDone

-----------------------------------------------------------------------------
(* Vacuums.                                                                 *)

(* Compacting leaves the points and drops the references.                   *)
LEMMA CompactStep ==
    ASSUME StoreAssumption, IInv, NEW t \in Thread, NEW d \in Coll, Compact(t, d)
    PROVE  IInv'
<1>1. /\ pc[t] = "compact" /\ d \in todo[t] /\ pc[t] \in Job
      /\ base' = [base EXCEPT ![d] = NoRef] /\ sealed' = [sealed EXCEPT ![d] = NoRef]
      /\ dirty' = [dirty EXCEPT ![d] = TRUE]
      /\ UNCHANGED <<toc, epoch, wal, flushed, nextSeq, lock, up, closing, mem, op, snap, histVars, count>>
  BY DEF Compact, diskVars, Job
<1>2. /\ up /\ lock = NoOne /\ \A s \in Thread : s = t \/ pc[s] = "idle"
  BY <1>1, JobAlone
<1>3. pc \in [Thread -> Labels] /\ todo \in [Thread -> SUBSET Coll]
  BY DEF IInv, Typing
<1>4. PICK x \in {"compact", "vseal"} :
         /\ pc' = [pc EXCEPT ![t] = x]
         /\ x = "vseal" => todo[t] = {d} /\ todo' = [todo EXCEPT ![t] = Coll]
         /\ x = "compact" => todo' = [todo EXCEPT ![t] = @ \ {d}]
  <2>1. CASE todo[t] = {d}
    BY <2>1 DEF Compact, Goto
  <2>2. CASE todo[t] # {d}
    <3>1. pc' = [pc EXCEPT ![t] = "compact"]
      BY <1>1, <1>3, <2>2 DEF Compact
    <3> QED
      BY <2>2, <3>1 DEF Compact
  <2> QED
    BY <2>1, <2>2
<1>6. /\ Alone' /\ Log' /\ Appends' /\ Written' /\ Promises' /\ Memory' /\ Sequence'
      /\ pc'[t] = x /\ pc' \in [Thread -> Labels]
      /\ \A s \in Thread : s = t \/ pc'[s] = "idle"
  BY <1>1, <1>2, <1>4, JobFrame DEF Job
<1>7. Typing'
  <2>1. todo' \in [Thread -> SUBSET Coll]
    BY <1>3, <1>4
  <2> QED
    BY <1>1, <1>6, <2>1, NoRefType DEF IInv, Typing, histVars
<1>8. Bounds'
  BY <1>1, <1>2, <1>4, <1>6 DEF IInv, Bounds
<1>9. File'
  BY <1>1, <1>6 DEF IInv, File, Valid, TocReadable, TocState, Cut, histVars
<1>10. /\ \A c \in Coll : c # d => CleanReuse(c)' = CleanReuse(c) /\ Unreferenced(c)' = Unreferenced(c)
       /\ CleanReuse(d)' = NoRef /\ Unreferenced(d)'
  <2>1. dirty \in [Coll -> BOOLEAN] /\ sealed \in [Coll -> RefSet] /\ base \in [Coll -> RefSet]
    BY DEF IInv, Typing
  <2> QED
    BY <1>1, <2>1 DEF CleanReuse, Unreferenced
<1>11. Jobs'
  <2>1. \A c \in Coll : c \notin todo[t] => Unreferenced(c)
    BY <1>1 DEF IInv, Jobs
  <2>2. x = "compact" => \A c \in Coll : c \notin todo'[t] => Unreferenced(c)'
    BY <1>3, <1>4, <1>10, <2>1
  <2>3. x = "vseal" => \A c \in Coll : c \in todo'[t] /\ Unreferenced(c)'
    BY <1>3, <1>4, <1>10, <2>1
  <2> QED
    BY <1>4, <1>6, <2>2, <2>3 DEF Jobs
<1>12. Clean'
  BY <1>1, <1>2, <1>10 DEF IInv, Clean
<1>13. Dirty'
  <2>1. \A c \in Coll : c # d => (dirty'[c] <=> dirty[c])
    BY <1>1 DEF IInv, Typing
  <2> QED
    BY <1>1, <1>2, <1>10, <2>1 DEF IInv, Dirty
<1> QED
  BY <1>6, <1>7, <1>8, <1>9, <1>11, <1>12, <1>13 DEF IInv

(* A vacuum's swap replaces the file by one that holds what memory holds.   *)
LEMMA SwapStep ==
    ASSUME StoreAssumption, IInv, NEW t \in Thread, SwapFile(t)
    PROVE  IInv'
<1>1. /\ pc[t] = "vseal" /\ todo[t] = {} /\ pc[t] \in Job
      /\ pc' = [pc EXCEPT ![t] = "vtruncate"] /\ lock' = t /\ epoch' = epoch + 1
      /\ toc' = [c \in Coll |-> Ref(epoch + 1, snap[t][c].body)]
      /\ UNCHANGED <<wal, flushed, nextSeq, up, closing, mem, dirty, sealed, base, op, snap, todo,
                    histVars, count>>
  BY DEF SwapFile, Goto, dataVars, jobVars, Job
<1>2. /\ up /\ mem = AfterOf(start, hist, Len(hist), FailedOf(hist, Len(hist)))
      /\ \A s \in Thread : s = t \/ pc[s] = "idle"
  BY <1>1, JobAlone
<1>4. /\ Alone' /\ Log' /\ Appends' /\ Written' /\ Promises' /\ Memory' /\ Sequence'
      /\ pc'[t] = "vtruncate" /\ pc' \in [Thread -> Labels]
      /\ \A s \in Thread : s = t \/ pc'[s] = "idle"
  BY <1>1, JobFrame DEF Job
<1>5. \A c \in Coll : Unreferenced(c) /\ snap[t][c] = Ref(0, mem[c])
  BY <1>1 DEF IInv, Jobs
<1>6. \A c \in Coll : toc'[c] = Ref(epoch + 1, mem[c]) /\ toc'[c].body = mem[c] /\ toc'[c] \in RefSet
                    /\ toc'[c].epoch = epoch + 1
  <2>1. \A e, b : Ref(e, b).body = b /\ Ref(e, b).epoch = e
    BY DEF Ref
  <2>2. epoch + 1 \in Nat /\ epoch + 1 <= MaxCalls + 1 /\ \A c \in Coll : mem[c] \in Points
    BY <1>1, EpochIs
  <2>3. \A c \in Coll : Ref(epoch + 1, mem[c]) \in RefSet
    <3> DEFINE e == epoch + 1
    <3>1. e \in Nat /\ e <= MaxCalls + 1
      BY <2>2
    <3> HIDE DEF e
    <3>2. \A c \in Coll : Ref(e, mem[c]) \in RefSet
      BY <2>2, <3>1, RefType
    <3> QED
      BY <3>2 DEF e
  <2> QED
    BY <1>1, <1>5, <2>1, <2>3
<1>7. Typing'
  <2>1. toc' \in [Coll -> RefSet] /\ epoch' \in Nat
    BY <1>1, <1>6, EpochIs
  <2> QED
    BY <1>1, <1>4, <2>1 DEF IInv, Typing, histVars
<1>8. Bounds'
  <2>1. epoch \in Nat /\ count.calls \in Nat /\ epoch <= count.calls
    BY <1>1, EpochIs, Sizes DEF IInv, Bounds
  <2> QED
    BY <1>1, <1>2, <1>4, <2>1 DEF IInv, Bounds
<1>9. File'
  <2>1. Valid' = Valid
    BY <1>1 DEF Valid
  <2>2. \A s \in Thread : pc'[s] # "sync"
    BY <1>4
  <2>3. TocState' = AfterOf(start, hist, Len(hist), FailedOf(hist, Len(hist)))
    <3>1. mem = [c \in Coll |-> mem[c]]
      BY DEF IInv, Typing, States
    <3> QED
      BY <1>2, <1>6, <3>1 DEF TocState
  <2>4. PICK k \in walFrom..(walFrom + Valid) :
          AfterOf(start, hist, Len(hist), FailedOf(hist, Len(hist))) = AfterOf(start, hist, k, FailedOf(hist, k))
    BY <1>2, LogEnd
  <2>5. ~Cut
    BY <1>2, Sizes DEF IInv, Log, Cut
  <2>6. ~Cut' /\ TocReadable'
    BY <1>1, <1>6, <2>5 DEF Cut, TocReadable, histVars
  <2> QED
    BY <1>1, <2>1, <2>2, <2>3, <2>4, <2>6 DEF File, histVars
<1>10. \A c \in Coll : CleanReuse(c)' = NoRef /\ Unreferenced(c)'
  BY <1>1, <1>5 DEF CleanReuse, Unreferenced
<1>11. Jobs'
  BY <1>1, <1>4, <1>6, <1>10 DEF Jobs
<1>12. Clean' /\ Dirty'
  BY <1>1, <1>10 DEF IInv, Clean, Dirty
<1> QED
  BY <1>4, <1>7, <1>8, <1>9, <1>11, <1>12 DEF IInv

-----------------------------------------------------------------------------
(* Writes.                                                                  *)

(* Nothing but writes runs while one is being logged, applied or ended.     *)
LEMMA NoJob ==
    ASSUME StoreAssumption, IInv, NEW t \in Thread, pc[t] \notin Job, pc[t] # "idle"
    PROVE  \A s \in Thread : pc[s] \notin Job
  BY DEF IInv, Alone

(* What an append changes of the log.                                       *)
LEMMA AppendedIs ==
    ASSUME StoreAssumption, NoMishap', IInv, NEW t \in Thread, NEW c \in Coll, NEW u \in Updates,
           LogWrite(t, c, u)
    PROVE  /\ Valid = Len(wal) /\ nextSeq = Len(wal) + 1 /\ Len(hist) = walFrom + Len(wal)
           /\ \A i \in (walFrom + 1)..Len(hist) : ~hist[i].failed
           /\ WalType(wal') /\ Len(wal') = Len(wal) + 1 /\ Valid' = Len(wal')
           /\ \A i \in 1..Len(wal) : wal'[i] = wal[i]
           /\ wal'[Len(wal')] = Entry(nextSeq, c, u)
           /\ hist' \in Seq(HistEntry) /\ Len(hist') = Len(hist) + 1
           /\ \A i \in 1..Len(hist) : hist'[i] = hist[i]
           /\ hist'[Len(hist')] = [coll |-> c, upd |-> u, failed |-> FALSE]
<1>0. /\ wal \in Seq(WalEntry) /\ Len(wal) \in Nat /\ Valid \in 0..Len(wal) /\ WalType(wal)
      /\ hist \in Seq(HistEntry) /\ Len(hist) \in Nat /\ walFrom \in Nat /\ nextSeq \in Nat
      /\ walFrom + Valid <= Len(hist)
  BY Sizes DEF IInv, Typing
<1>1. /\ up /\ Replayed(wal) = wal /\ nextSeq = Len(wal) + 1
      /\ wal' = Append(wal, Entry(nextSeq, c, u))
      /\ hist' = Append(hist, [coll |-> c, upd |-> u, failed |-> FALSE])
  <2>1. Appendable
    BY NotNoted DEF LogWrite
  <2> QED
    BY <2>1 DEF LogWrite, Appendable
<1>2. Valid = Len(wal)
  BY <1>1 DEF Valid
<1>3. walFrom < Len(hist) => ~hist[Len(hist)].failed
  BY <1>1, <1>2 DEF IInv, Log
<1>4. Len(hist) = walFrom + Len(wal) /\ \A i \in (walFrom + 1)..Len(hist) : ~hist[i].failed
  BY <1>0, <1>1, <1>2, <1>3 DEF IInv, Log
<1>5. Entry(nextSeq, c, u) \in WalEntry /\ ~Entry(nextSeq, c, u).torn
      /\ Entry(nextSeq, c, u).seq = nextSeq
      /\ Entry(nextSeq, c, u).coll = c /\ Entry(nextSeq, c, u).upd = u
  BY <1>0, UpdatesPatch DEF Entry, WalEntry
<1>6. [coll |-> c, upd |-> u, failed |-> FALSE] \in HistEntry
  BY DEF HistEntry
<1>7. /\ wal' \in Seq(WalEntry) /\ Len(wal') = Len(wal) + 1
      /\ \A i \in 1..Len(wal) : wal'[i] = wal[i]
      /\ wal'[Len(wal) + 1] = Entry(nextSeq, c, u)
  BY <1>0, <1>1, <1>5
<1>8. /\ hist' \in Seq(HistEntry) /\ Len(hist') = Len(hist) + 1
      /\ \A i \in 1..Len(hist) : hist'[i] = hist[i]
      /\ hist'[Len(hist) + 1] = [coll |-> c, upd |-> u, failed |-> FALSE]
  BY <1>0, <1>1, <1>6
<1>9. Valid' = Len(wal')
  <2>1. Len(Replayed(wal')) = Len(wal) + 1
    BY <1>0, <1>1, <1>2, <1>5, ValidAppend DEF Valid
  <2> QED
    BY <1>7, <2>1 DEF Valid
<1>10. WalType(wal')
  BY <1>0, <1>5, <1>7 DEF WalType
<1> QED
  BY <1>0, <1>1, <1>2, <1>4, <1>7, <1>8, <1>9, <1>10

(* A logged write is the last of the history and the last of the WAL.       *)
LEMMA LogWriteStep ==
    ASSUME StoreAssumption, NoMishap', IInv, NEW t \in Thread, NEW c \in Coll, NEW u \in Updates,
           LogWrite(t, c, u)
    PROVE  IInv'
<1>1. /\ up /\ ~closing /\ lock = NoOne /\ pc[t] = "idle"
      /\ pc' = [pc EXCEPT ![t] = "sync"] /\ lock' = t
      /\ op' = [op EXCEPT ![t] = [coll |-> c, upd |-> u, idx |-> Len(hist) + 1]]
      /\ UNCHANGED <<toc, epoch, flushed, nextSeq, up, closing, mem, dirty, sealed, base, snap, todo,
                     start, acked, settled, walFrom>>
  BY DEF LogWrite, Free, Goto, dataVars
<1>2. /\ Valid = Len(wal) /\ nextSeq = Len(wal) + 1 /\ Len(hist) = walFrom + Len(wal)
      /\ \A i \in (walFrom + 1)..Len(hist) : ~hist[i].failed
      /\ WalType(wal') /\ Len(wal') = Len(wal) + 1 /\ Valid' = Len(wal')
      /\ \A i \in 1..Len(wal) : wal'[i] = wal[i]
      /\ wal'[Len(wal')] = Entry(nextSeq, c, u)
      /\ hist' \in Seq(HistEntry) /\ Len(hist') = Len(hist) + 1
      /\ \A i \in 1..Len(hist) : hist'[i] = hist[i]
      /\ hist'[Len(hist')] = [coll |-> c, upd |-> u, failed |-> FALSE]
  BY AppendedIs
<1>3. \A s \in Thread : pc[s] \notin Job
  BY NotNoted DEF LogWrite
<1>4. \A s \in Thread : pc[s] # "sync"
  BY <1>1 DEF IInv, Alone, StoreAssumption
<1>5. /\ pc \in [Thread -> Labels] /\ pc'[t] = "sync" /\ \A s \in Thread : s # t => pc'[s] = pc[s]
      /\ \A s \in Thread : pc'[s] \notin Job
      /\ \A s \in Thread : pc'[s] = "sync" => s = t
  BY <1>1, <1>3, <1>4 DEF IInv, Typing, Job
<1>6. /\ Len(wal) \in Nat /\ Len(hist) \in Nat /\ walFrom \in Nat /\ flushed \in 0..Len(wal)
      /\ acked \in Nat /\ acked <= walFrom + Valid /\ settled \in Nat /\ settled <= Len(hist)
      /\ start \in States /\ hist \in Seq(HistEntry) /\ Valid \in Nat
  BY Sizes DEF IInv, Typing
<1>n. /\ Len(wal) \in Nat /\ Len(hist) \in Nat /\ walFrom \in Nat /\ Valid = Len(wal)
      /\ Len(hist) = walFrom + Len(wal) /\ Len(wal') = Len(wal) + 1 /\ Valid' = Len(wal')
      /\ Len(hist') = Len(hist) + 1
  BY <1>2, <1>6
<1>l. Len(hist) \in Nat /\ Len(hist') = Len(hist) + 1
  BY <1>2, <1>6
<1>s. hist' \in Seq(HistEntry) /\ hist \in Seq(HistEntry) /\ start \in States
  BY <1>2, <1>6
<1>h. /\ \A i \in 1..Len(hist) : hist'[i] = hist[i]
      /\ hist'[Len(hist')].coll = c /\ ~hist'[Len(hist')].failed
      /\ \A i \in (walFrom + 1)..Len(hist) : ~hist[i].failed
  BY <1>2
<1>7. /\ op'[t].coll = c /\ op'[t].upd = u /\ op'[t].idx = Len(hist')
      /\ \A s \in Thread : s # t => op'[s] = op[s]
      /\ op' \in [Thread -> [coll : Coll \cup {NoOne}, upd : Patch, idx : Nat]]
  <2>1. [coll |-> c, upd |-> u, idx |-> Len(hist) + 1] \in [coll : Coll \cup {NoOne}, upd : Patch, idx : Nat]
    BY <1>6, UpdatesPatch
  <2>2. op \in [Thread -> [coll : Coll \cup {NoOne}, upd : Patch, idx : Nat]]
    BY DEF IInv, Typing
  <2> QED
    BY <1>1, <1>2, <2>1, <2>2
<1>8. /\ count' \in Counts /\ count'.writes = count.writes + 1 /\ count'.writes <= MaxWrites
      /\ count'.calls = count.calls /\ count'.errors = count.errors
  BY MaxTypes, BumpIs DEF LogWrite
<1>9. Typing'
  <2>1. pc' \in [Thread -> Labels] /\ lock' \in Thread \cup {NoOne}
    BY <1>1, <1>5 DEF Labels
  <2>2. /\ flushed' \in 0..Len(wal') /\ acked' \in 0..Len(hist') /\ settled' \in 0..Len(hist')
        /\ walFrom' \in 0..Len(hist')
    BY <1>1, <1>2, <1>6, SMTT(30)
  <2> QED
    BY <1>1, <1>2, <1>7, <1>8, <2>1, <2>2 DEF IInv, Typing
<1>10. Bounds'
  <2>1. Len(wal) <= count.writes + 1 /\ count.writes \in Nat
    BY Sizes DEF IInv, Bounds
  <2>2. Len(wal') <= count'.writes + 1
    <3>1. count'.writes = count.writes + 1
      BY <1>8
    <3> QED
      BY <1>n, <2>1, <3>1
  <2>3. \A s \in Thread : pc'[s] \notin {"compact", "vseal"}
    BY <1>5 DEF Job
  <2> QED
    BY <1>1, <1>8, <2>2, <2>3 DEF IInv, Bounds
<1>11. Alone'
  BY <1>1, <1>4, <1>5 DEF IInv, Alone, StoreAssumption, Job
<1>12. Log'
  <2>1. walFrom' + Valid' = Len(hist') /\ Len(hist') = walFrom + Len(wal')
    BY <1>1, <1>2, <1>6
  <2>2. \A i \in (walFrom + 1)..Len(hist') : ~hist'[i].failed
    <3>1. \A i \in (walFrom + 1)..Len(hist') : i = Len(hist') \/ (i \in 1..Len(hist) /\ i \in (walFrom + 1)..Len(hist))
      BY <1>n
    <3> QED
      BY <1>h, <3>1
  <2>3. \A i \in 1..Valid' : wal'[i].coll = hist'[walFrom + i].coll /\ wal'[i].upd = hist'[walFrom + i].upd
    <3>1. ASSUME NEW i \in 1..Valid', i # Len(wal')
          PROVE  wal'[i].coll = hist'[walFrom + i].coll /\ wal'[i].upd = hist'[walFrom + i].upd
      <4>1. i \in 1..Valid /\ walFrom + i \in 1..Len(hist)
        BY <1>n, <3>1
      <4> QED
        BY <1>2, <4>1 DEF IInv, Log
    <3>2. wal'[Len(wal')].coll = c /\ wal'[Len(wal')].upd = u /\ walFrom + Len(wal') = Len(hist')
      BY <1>2, <1>6, <2>1 DEF Entry
    <3> QED
      BY <1>2, <3>1, <3>2
  <2> QED
    BY <1>1, <1>2, <1>6, <2>1, <2>2, <2>3, SMTT(30) DEF Log
<1>13. \A s \in Thread : op[s].idx \in Nat /\ op[s].idx < Len(hist')
  <2>1. \A s \in Thread : op[s].idx \in Nat /\ op[s].idx <= walFrom + Valid
    BY <1>4, Sizes DEF IInv, Written
  <2> QED
    BY <1>n, <2>1
<1>14. Appends'
  <2>1. \A s \in Thread : s = t \/ op'[s].idx < Len(hist')
    BY <1>7, <1>13
  <2> QED
    BY <1>1, <1>2, <1>5, <1>6, <1>7, <2>1 DEF Appends
<1>15. Written'
  <2>1. ASSUME NEW s \in Thread, s # t
        PROVE  /\ pc'[s] = "idle" => op'[s].idx = 0
               /\ op'[s].idx <= walFrom' + Valid'
               /\ Durability = "Full" => op'[s].idx <= settled'
               /\ pc'[s] = "apply" =>
                     /\ op'[s].idx \in (walFrom' + 1)..Len(hist')
                     /\ hist'[op'[s].idx] = [coll |-> op'[s].coll, upd |-> op'[s].upd, failed |-> FALSE]
    <3>1. /\ pc[s] = "idle" => op[s].idx = 0
          /\ op'[s] = op[s] /\ op[s].idx <= walFrom + Valid
          /\ Durability = "Full" => op[s].idx <= settled
          /\ pc[s] = "apply" =>
                /\ op[s].idx \in (walFrom + 1)..Len(hist)
                /\ hist[op[s].idx] = [coll |-> op[s].coll, upd |-> op[s].upd, failed |-> FALSE]
      BY <1>4, <1>7, <2>1 DEF IInv, Written
    <3>6. op[s].idx \in Nat
      BY Sizes
    <3>7. pc[s] = "apply" => /\ op[s].idx \in (walFrom + 1)..Len(hist')
                            /\ hist'[op[s].idx] = hist[op[s].idx]
      BY <1>n, <1>h, <3>1, <3>6
    <3>8. op[s].idx <= walFrom' + Valid'
      BY <1>1, <1>2, <1>6, <3>1, <3>6, SMTT(30)
    <3> QED
      BY <1>1, <1>5, <2>1, <3>1, <3>7, <3>8
  <2>2. /\ op'[t].idx \in (walFrom' + 1)..Len(hist')
        /\ hist'[op'[t].idx] = [coll |-> op'[t].coll, upd |-> op'[t].upd, failed |-> FALSE]
    BY <1>1, <1>2, <1>6, <1>7
  <2>3. ASSUME NEW r \in Thread, NEW s \in Thread, s # r,
               pc'[r] \in {"sync", "apply"}, pc'[s] \in {"sync", "apply"}
        PROVE  op'[s].idx # op'[r].idx
    <3>1. CASE r # t /\ s # t
      <4>1. pc[r] \in {"sync", "apply"} /\ pc[s] \in {"sync", "apply"}
        BY <1>5, <2>3, <3>1
      <4>2. op[s].idx # op[r].idx
        BY <2>3, <4>1 DEF IInv, Written
      <4> QED
        BY <1>7, <3>1, <4>2
    <3>2. CASE r = t \/ s = t
      BY <1>7, <1>13, <1>l, <2>3, <3>2
    <3> QED
      BY <3>1, <3>2
  <2> QED
    BY <1>5, <2>1, <2>2, <2>3 DEF Written
<1>16. Promises'
  BY <1>1, <1>2, <1>6, SMTT(30) DEF IInv, Promises
<1>17. SameTo(hist', hist, Len(hist)) /\ \A i \in 1..Len(hist) : i \in FailedOf(hist', Len(hist')) <=> i \in FailedOf(hist, Len(hist))
  BY <1>2, <1>6, SMTT(30) DEF SameTo, FailedOf
<1>18. File'
  <2>1. PICK k \in walFrom..(walFrom + Valid) : TocState = AfterOf(start, hist, k, FailedOf(hist, k))
    BY DEF IInv, File
  <2>2. k \in 0..Len(hist) /\ k <= Len(hist') /\ k < Len(hist')
    BY <1>2, <1>6, SMTT(30)
  <2>3. SameTo(hist, hist', k) /\ \A i \in 1..k : i \in FailedOf(hist, k) <=> i \in FailedOf(hist', k)
    <3>1. \A i \in 1..k : hist'[i] = hist[i]
      BY <1>h, <1>l, <2>2
    <3> QED
      BY <3>1 DEF SameTo, FailedOf
  <2>4. AfterOf(start, hist, k, FailedOf(hist, k)) = AfterOf(start, hist', k, FailedOf(hist', k))
    BY <1>s, <2>2, <2>3, AfterSame
  <2>5. ~Cut'
    BY <1>1, <1>2, <1>6 DEF Cut
  <2>6. TocReadable' /\ TocState' = TocState
    BY <1>1 DEF IInv, File, TocReadable, TocState
  <2>7. k \in walFrom'..(walFrom' + Valid')
    BY <1>1, <1>2, <1>6
  <2> QED
    BY <1>1, <2>1, <2>2, <2>4, <2>5, <2>6, <2>7 DEF File
<1>19. Memory'
  <2> DEFINE S == FailedOf(hist, Len(hist)) \cup InFlight
             T == FailedOf(hist', Len(hist')) \cup InFlight'
             n == Len(hist)
  <2>1. \A i \in 1..n : i \in InFlight <=> i \in InFlight'
    <3>1. pc[t] \notin {"sync", "apply"}
      BY <1>1
    <3>2. ASSUME NEW i \in 1..n
          PROVE  /\ i \in InFlight <=> \E s \in Thread : pc[s] \in {"sync", "apply"} /\ op[s].idx = i
                 /\ i \in InFlight' <=> \E s \in Thread : pc'[s] \in {"sync", "apply"} /\ op'[s].idx = i
      BY DEF InFlight
    <3>3. \A i \in 1..n : i # Len(hist')
      BY <1>l
    <3>4. ASSUME NEW i \in 1..n, NEW s \in Thread
          PROVE  pc[s] \in {"sync", "apply"} /\ op[s].idx = i <=> pc'[s] \in {"sync", "apply"} /\ op'[s].idx = i
      BY <1>5, <1>7, <3>1, <3>3
    <3> QED
      BY <3>2, <3>4
  <2>2. n + 1 \in T
    BY <1>2, <1>5, <1>7 DEF InFlight
  <2>3. \A i \in 1..n : i \in S <=> i \in T
    BY <1>17, <2>1
  <2>4. n \in 0..Len(hist') /\ n < Len(hist') /\ n + 1 = Len(hist') /\ n \in 0..Len(hist) /\ n <= Len(hist)
    BY <1>2, <1>6
  <2>5. mem = AfterOf(start, hist, n, S)
    BY <1>1 DEF IInv, Memory
  <2>6. SameTo(hist, hist', n)
    BY <1>17 DEF SameTo
  <2> HIDE DEF S, T, n
  <2>7. AfterOf(start, hist', n + 1, T) = AfterOf(start, hist', n, T)
    BY <1>2, <1>6, <2>2, <2>4, AfterNext, SMTT(30)
  <2>8. AfterOf(start, hist, n, S) = AfterOf(start, hist', n, T)
    BY <1>s, <2>3, <2>4, <2>6, AfterSame
  <2>9. mem' = AfterOf(start', hist', Len(hist'), T)
    BY <1>1, <2>4, <2>5, <2>7, <2>8
  <2> QED
    BY <2>9 DEF Memory, T
<1>20. Jobs'
  BY <1>5 DEF Jobs, Job
<1>21. Clean'
  <2>1. \A d \in Coll : CleanReuse(d)' = CleanReuse(d)
    BY <1>1 DEF CleanReuse
  <2> QED
    BY <1>1, <1>3, <2>1 DEF IInv, Clean, Job
<1>22. Dirty'
  <2>1. wal' # <<>>
    BY <1>2, <1>6
  <2> QED
    BY <2>1 DEF Dirty
<1>23. Sequence'
  BY <1>2, <1>5 DEF Sequence
<1> QED
  BY <1>9, <1>10, <1>11, <1>12, <1>14, <1>15, <1>16, <1>18, <1>19, <1>20, <1>21, <1>22, <1>23 DEF IInv

(* An append in progress.                                                   *)
LEMMA InAppend ==
    ASSUME StoreAssumption, IInv, NEW t \in Thread, pc[t] = "sync"
    PROVE  /\ up /\ lock = t /\ \A s \in Thread : pc[s] \notin Job
           /\ \A s \in Thread : s # t => pc[s] # "sync"
           /\ Valid = Len(wal) /\ nextSeq = Len(wal) /\ Len(hist) = walFrom + Len(wal)
           /\ Len(wal) \in Nat /\ walFrom \in Nat /\ flushed \in Nat /\ flushed < Len(wal)
           /\ op[t].idx = Len(hist) /\ Len(hist) \in Nat
           /\ hist[Len(hist)] = [coll |-> op[t].coll, upd |-> op[t].upd, failed |-> FALSE]
           /\ ~hist[Len(hist)].failed
           /\ acked \in Nat /\ acked < Len(hist) /\ settled \in Nat /\ settled < Len(hist)
           /\ \A s \in Thread : op[s].idx \in Nat /\ (s = t \/ op[s].idx < Len(hist))
<1>1. up /\ lock = t /\ \A s \in Thread : s # t => pc[s] # "sync"
  BY DEF IInv, Alone
<1>2. \A s \in Thread : pc[s] \notin Job
  BY NoJob DEF Job
<1>3. /\ Valid = Len(wal) /\ nextSeq = Len(wal) /\ flushed < Len(wal)
      /\ op[t].idx = Len(hist) /\ Len(hist) = walFrom + Len(wal)
      /\ acked < Len(hist) /\ settled < Len(hist)
      /\ \A s \in Thread : s = t \/ op[s].idx < Len(hist)
  BY DEF IInv, Appends
<1>4. hist[op[t].idx] = [coll |-> op[t].coll, upd |-> op[t].upd, failed |-> FALSE]
  BY DEF IInv, Written
<1>5. /\ Len(wal) \in Nat /\ walFrom \in Nat /\ flushed \in Nat /\ Len(hist) \in Nat
      /\ acked \in Nat /\ settled \in Nat /\ \A s \in Thread : op[s].idx \in Nat
  BY Sizes
<1>6. ~hist[Len(hist)].failed
  <2>1. ~hist[op[t].idx].failed
    BY <1>4
  <2> QED
    BY <1>3, <2>1
<1> QED
  BY <1>1, <1>2, <1>3, <1>4, <1>5, <1>6

(* Its append is done.                                                      *)
LEMMA LogDoneStep ==
    ASSUME StoreAssumption, IInv, NEW t \in Thread, LogDone(t)
    PROVE  IInv'
<1>1. /\ pc[t] = "sync" /\ pc' = [pc EXCEPT ![t] = "apply"]
      /\ flushed' = (IF Durability = "Full" THEN Len(wal) ELSE flushed)
      /\ settled' = (IF Durability = "Full" THEN op[t].idx ELSE settled)
      /\ nextSeq' = nextSeq + 1 /\ lock' = NoOne
      /\ UNCHANGED <<toc, epoch, wal, up, closing, mem, dirty, sealed, base, op, snap, todo,
                     start, hist, acked, walFrom, count>>
  BY DEF LogDone, Goto, FlushedByAppend, dataVars, jobVars
<1>2. /\ up /\ lock = t /\ \A s \in Thread : pc[s] \notin Job
      /\ \A s \in Thread : s # t => pc[s] # "sync"
      /\ Valid = Len(wal) /\ nextSeq = Len(wal) /\ Len(hist) = walFrom + Len(wal)
      /\ Len(wal) \in Nat /\ walFrom \in Nat /\ flushed \in Nat /\ flushed < Len(wal)
      /\ op[t].idx = Len(hist) /\ Len(hist) \in Nat
      /\ acked \in Nat /\ acked < Len(hist) /\ settled \in Nat /\ settled < Len(hist)
      /\ \A s \in Thread : op[s].idx \in Nat /\ (s = t \/ op[s].idx < Len(hist))
  BY <1>1, InAppend
<1>3. ~hist[Len(hist)].failed
  BY <1>1, InAppend
<1>4. /\ pc \in [Thread -> Labels] /\ pc'[t] = "apply" /\ \A s \in Thread : s # t => pc'[s] = pc[s]
      /\ \A s \in Thread : pc'[s] \notin Job
      /\ \A s \in Thread : pc'[s] # "sync"
  BY <1>1, <1>2 DEF IInv, Typing, Job
<1>5. /\ flushed' \in Nat /\ flushed' <= Len(wal) /\ flushed <= flushed'
      /\ settled' \in Nat /\ settled' <= Len(hist) /\ settled <= settled'
  BY <1>1, <1>2
<1>6. Typing'
  <2>1. pc' \in [Thread -> Labels] /\ lock' \in Thread \cup {NoOne}
    BY <1>1, <1>4 DEF Labels
  <2>2. flushed' \in 0..Len(wal') /\ settled' \in 0..Len(hist') /\ nextSeq' \in Nat
    BY <1>1, <1>2, <1>5
  <2> QED
    BY <1>1, <2>1, <2>2 DEF IInv, Typing
<1>7. Bounds'
  BY <1>1, <1>4 DEF IInv, Bounds, Job
<1>8. Alone'
  BY <1>1, <1>2, <1>4 DEF IInv, Alone, StoreAssumption, Job
<1>9. Valid' = Valid
  BY <1>1 DEF Valid
<1>10. Log'
  BY <1>1, <1>2, <1>3, <1>9 DEF IInv, Log
<1>11. Appends'
  BY <1>4 DEF Appends
<1>12. Written'
  <2>1. \A s \in Thread : pc'[s] = "apply" => pc[s] \in {"sync", "apply"}
    BY <1>1, <1>4
  <2>2. \A s \in Thread : op[s].idx <= walFrom + Valid /\ (Durability = "Full" => op[s].idx <= settled')
    <3>1. \A s \in Thread : op[s].idx <= Len(hist)
      BY <1>2
    <3>2. Len(hist) = walFrom + Valid /\ (Durability = "Full" => settled' = Len(hist))
      BY <1>1, <1>2
    <3> QED
      BY <3>1, <3>2
  <2> QED
    BY <1>1, <1>4, <1>9, <2>1, <2>2 DEF IInv, Written
<1>13. Promises'
  <2>1. settled' <= walFrom + flushed'
    BY <1>1, <1>2 DEF IInv, Promises
  <2> QED
    BY <1>1, <1>2, <1>5, <1>9, <2>1 DEF IInv, Promises
<1>14. File'
  BY <1>1, <1>4, <1>9 DEF IInv, File, TocReadable, TocState, Cut
<1>15. Memory'
  <2>1. InFlight' = InFlight
    BY <1>1, <1>4 DEF InFlight
  <2> QED
    BY <1>1, <2>1 DEF IInv, Memory
<1>16. Jobs'
  BY <1>4 DEF Jobs, Job
<1>17. Clean' /\ Dirty'
  <2>1. \A d \in Coll : CleanReuse(d)' = CleanReuse(d) /\ Unreferenced(d)' = Unreferenced(d)
    BY <1>1 DEF CleanReuse, Unreferenced
  <2> QED
    BY <1>1, <1>2, <2>1 DEF IInv, Clean, Dirty, Job
<1>18. Sequence'
  BY <1>1, <1>2, <1>9 DEF Sequence
<1> QED
  BY <1>6, <1>7, <1>8, <1>10, <1>11, <1>12, <1>13, <1>14, <1>15, <1>16, <1>17, <1>18 DEF IInv

(* Tearing the last entry leaves what the entries say.                      *)
LEMMA TearIs ==
    ASSUME NEW w, WalType(w), Len(w) # 0
    PROVE  /\ WalType(Tear(w)) /\ Len(Tear(w)) = Len(w)
           /\ \A i \in 1..Len(w) : Tear(w)[i].coll = w[i].coll /\ Tear(w)[i].upd = w[i].upd
           /\ Len(Replayed(Tear(w))) =
                 IF Len(Replayed(w)) = Len(w) THEN Len(w) - 1 ELSE Len(Replayed(w))
<1> DEFINE n == Len(w)
           e == [w[n] EXCEPT !.torn = TRUE]
<1>1. w \in Seq(WalEntry) /\ n \in 1..Len(w) /\ n \in Nat
  BY DEF WalType
<1>2. w[n] \in WalEntry
  BY <1>1
<1>3. e \in WalEntry /\ e.torn /\ e.coll = w[n].coll /\ e.upd = w[n].upd
  BY <1>2 DEF WalEntry
<1>4. Tear(w) = [w EXCEPT ![n] = e]
  BY DEF Tear
<1> HIDE DEF e
<1>5. Tear(w) \in Seq(WalEntry) /\ Len(Tear(w)) = n
      /\ \A i \in 1..n : Tear(w)[i] = IF i = n THEN e ELSE w[i]
  BY <1>1, <1>3, <1>4
<1>6. \A i \in 1..n : Tear(w)[i].coll = w[i].coll /\ Tear(w)[i].upd = w[i].upd
                      /\ (w[i].torn => Tear(w)[i].torn)
  BY <1>3, <1>5
<1>7. WalType(Tear(w))
  <2>1. \A i \in 1..n : w[i].torn \/ (w[i].coll \in Coll /\ w[i].upd \in Updates)
    BY DEF WalType
  <2>2. \A i \in 1..Len(Tear(w)) : Tear(w)[i].torn \/ (Tear(w)[i].coll \in Coll /\ Tear(w)[i].upd \in Updates)
    BY <1>5, <1>6, <2>1
  <2> QED
    BY <1>5, <2>2 DEF WalType
<1> QED
  BY <1>1, <1>5, <1>6, <1>7, ValidTear

(* Counting.                                                                *)
LEMMA Between ==
    ASSUME NEW a \in Nat, NEW b \in Nat, NEW k \in Nat, NEW m \in Nat, NEW l \in Nat,
           a <= k, k < m, m = a + l, l <= b + 1
    PROVE  k \in a..(a + b) /\ k \in 0..m
  OBVIOUS

(* Its append fails: the entry, whole or torn, stays in the file.           *)
LEMMA LogErrorStep ==
    ASSUME StoreAssumption, IInv, NEW t \in Thread, LogError(t)
    PROVE  IInv'
<1>1. /\ pc[t] = "sync" /\ pc' = [pc EXCEPT ![t] = "idle"]
      /\ wal' = wal \/ wal' = Tear(wal)
      /\ hist' = [hist EXCEPT ![op[t].idx].failed = TRUE]
      /\ op' = [op EXCEPT ![t] = NoOp] /\ lock' = NoOne
      /\ UNCHANGED <<toc, epoch, flushed, nextSeq, up, closing, mem, dirty, sealed, base, snap, todo,
                     start, acked, settled, walFrom>>
  BY DEF LogError, Goto, dataVars
<1>2. /\ up /\ lock = t /\ \A s \in Thread : pc[s] \notin Job
      /\ \A s \in Thread : s # t => pc[s] # "sync"
      /\ Valid = Len(wal) /\ nextSeq = Len(wal) /\ Len(hist) = walFrom + Len(wal)
      /\ Len(wal) \in Nat /\ walFrom \in Nat /\ flushed \in Nat /\ flushed < Len(wal)
      /\ op[t].idx = Len(hist) /\ Len(hist) \in Nat
      /\ acked \in Nat /\ acked < Len(hist) /\ settled \in Nat /\ settled < Len(hist)
      /\ \A s \in Thread : op[s].idx \in Nat /\ (s = t \/ op[s].idx < Len(hist))
  BY <1>1, InAppend
<1>n. Len(hist) \in Nat /\ Len(hist) # 0
  BY <1>2
<1>3. /\ pc \in [Thread -> Labels] /\ pc'[t] = "idle" /\ \A s \in Thread : s # t => pc'[s] = pc[s]
      /\ \A s \in Thread : pc'[s] \notin Job
      /\ \A s \in Thread : pc'[s] # "sync"
  BY <1>1, <1>2 DEF IInv, Typing, Job
<1>4. /\ hist \in Seq(HistEntry) /\ hist' \in Seq(HistEntry) /\ start \in States
  <2>1. hist \in Seq(HistEntry) /\ start \in States
    BY DEF IInv, Typing
  <2>2. hist[Len(hist)] \in HistEntry
    BY <1>n, <2>1
  <2>3. [hist[Len(hist)] EXCEPT !.failed = TRUE] \in HistEntry
    BY <2>2 DEF HistEntry
  <2> QED
    BY <1>1, <1>2, <2>1, <2>3
<1>5. /\ Len(hist') = Len(hist)
      /\ \A i \in 1..Len(hist) : hist'[i].coll = hist[i].coll /\ hist'[i].upd = hist[i].upd
      /\ \A i \in 1..Len(hist) : i # Len(hist) => hist'[i] = hist[i]
      /\ hist'[Len(hist)].failed
  <2> DEFINE n == Len(hist)
             e == [hist[n] EXCEPT !.failed = TRUE]
  <2>1. n \in 1..Len(hist) /\ hist[n] \in HistEntry
    BY <1>4, <1>n
  <2>2. e.coll = hist[n].coll /\ e.upd = hist[n].upd /\ e.failed
    BY <2>1 DEF HistEntry
  <2>3. hist' = [hist EXCEPT ![n] = e]
    BY <1>1, <1>2
  <2> HIDE DEF e
  <2>4. Len(hist') = n /\ \A i \in 1..n : hist'[i] = IF i = n THEN e ELSE hist[i]
    BY <1>4, <2>1, <2>3
  <2> QED
    BY <2>1, <2>2, <2>4
<1>6. /\ WalType(wal') /\ Len(wal') = Len(wal)
      /\ \A i \in 1..Len(wal) : wal'[i].coll = wal[i].coll /\ wal'[i].upd = wal[i].upd
      /\ Valid' = IF wal' = wal THEN Len(wal) ELSE Len(wal) - 1
  <2>1. WalType(wal)
    BY DEF IInv, Typing
  <2>2. Len(wal) # 0
    BY <1>2
  <2>3. CASE wal' = wal
    BY <1>2, <2>1, <2>3 DEF Valid
  <2>4. CASE wal' = Tear(wal) /\ wal' # wal
    <3>1. /\ WalType(wal') /\ Len(wal') = Len(wal)
          /\ \A i \in 1..Len(wal) : wal'[i].coll = wal[i].coll /\ wal'[i].upd = wal[i].upd
          /\ Len(Replayed(wal')) = IF Len(Replayed(wal)) = Len(wal) THEN Len(wal) - 1 ELSE Len(Replayed(wal))
      BY <2>1, <2>2, <2>4, TearIs
    <3> QED
      BY <1>2, <2>4, <3>1 DEF Valid
  <2> QED
    BY <1>1, <2>3, <2>4
<1>7. Valid' \in Nat /\ Valid' <= Len(wal) /\ Len(wal) <= Valid' + 1
  BY <1>2, <1>6
<1>m. /\ walFrom \in Nat /\ Len(wal) \in Nat /\ Valid' \in Nat /\ Valid \in Nat
      /\ Len(hist) = walFrom + Len(wal) /\ Valid = Len(wal)
      /\ Len(wal') = Len(wal) /\ Valid' <= Len(wal) /\ Len(wal) <= Valid' + 1
  BY <1>2, <1>6, <1>7
<1>8. count' \in Counts /\ count'.errors # 0 /\ count'.writes = count.writes /\ count'.calls = count.calls
  <2>1. /\ count' \in Counts /\ count'.errors = count.errors + 1
        /\ count'.writes = count.writes /\ count'.calls = count.calls
    BY MaxTypes, BumpIs DEF LogError
  <2>2. count.errors \in Nat
    BY Sizes
  <2> QED
    BY <2>1, <2>2
<1>9. /\ op' \in [Thread -> [coll : Coll \cup {NoOne}, upd : Patch, idx : Nat]]
      /\ op'[t].idx = 0 /\ \A s \in Thread : s # t => op'[s] = op[s]
  <2>1. NoOp \in [coll : Coll \cup {NoOne}, upd : Patch, idx : Nat] /\ NoOp.idx = 0
    BY NoUpdatePatch DEF NoOp
  <2>2. op \in [Thread -> [coll : Coll \cup {NoOne}, upd : Patch, idx : Nat]]
    BY DEF IInv, Typing
  <2> QED
    BY <1>1, <2>1, <2>2
<1>10. Typing'
  <2>1. pc' \in [Thread -> Labels] /\ lock' \in Thread \cup {NoOne}
    BY <1>1, <1>3 DEF Labels
  <2>2. flushed' \in 0..Len(wal')
    BY <1>1, <1>2, <1>6
  <2>3. acked' \in 0..Len(hist') /\ settled' \in 0..Len(hist') /\ walFrom' \in 0..Len(hist')
    BY <1>1, <1>5 DEF IInv, Typing
  <2> QED
    BY <1>1, <1>4, <1>6, <1>8, <1>9, <2>1, <2>2, <2>3 DEF IInv, Typing
<1>11. Bounds'
  BY <1>1, <1>3, <1>6, <1>8 DEF IInv, Bounds, Job
<1>12. Alone'
  BY <1>1, <1>2, <1>3 DEF IInv, Alone, StoreAssumption, Job
<1>13. Log'
  <2>1. \A i \in 1..Valid' : wal'[i].coll = hist'[walFrom + i].coll /\ wal'[i].upd = hist'[walFrom + i].upd
    <3>1. SUFFICES ASSUME NEW i \in 1..Valid'
                   PROVE  wal'[i].coll = hist'[walFrom + i].coll /\ wal'[i].upd = hist'[walFrom + i].upd
      OBVIOUS
    <3>2. i \in 1..Valid /\ i \in 1..Len(wal) /\ walFrom + i \in 1..Len(hist)
      BY <1>2, <1>7
    <3> QED
      BY <1>5, <1>6, <3>2 DEF IInv, Log
  <2>2. \A i \in (walFrom + 1)..Len(hist) : hist'[i].failed => i = Len(hist)
    <3>1. \A i \in (walFrom + 1)..Len(hist) : i \in 1..Len(hist)
      BY <1>2
    <3> QED
      BY <1>5, <3>1 DEF IInv, Log
  <2>3. /\ Len(hist) <= walFrom + Len(wal') /\ walFrom + Valid' <= Len(hist)
        /\ Len(hist) = walFrom + Valid' \/ Len(hist) = walFrom + Valid' + 1
    BY <1>m, SMTT(30)
  <2>4. nextSeq' # Len(wal') + 1
    BY <1>1, <1>2, <1>6
  <2> QED
    BY <1>1, <1>5, <2>1, <2>2, <2>3, <2>4 DEF Log
<1>14. Appends'
  BY <1>3 DEF Appends
<1>15. Written'
  <2>1. ASSUME NEW s \in Thread, s # t
        PROVE  /\ pc'[s] = "idle" => op'[s].idx = 0
               /\ op'[s].idx <= walFrom' + Valid'
               /\ Durability = "Full" => op'[s].idx <= settled'
               /\ pc'[s] = "apply" =>
                     /\ op'[s].idx \in (walFrom' + 1)..Len(hist')
                     /\ hist'[op'[s].idx] = [coll |-> op'[s].coll, upd |-> op'[s].upd, failed |-> FALSE]
    <3>1. /\ pc[s] = "idle" => op[s].idx = 0
          /\ op'[s] = op[s] /\ pc'[s] = pc[s]
          /\ Durability = "Full" => op[s].idx <= settled
          /\ pc[s] = "apply" =>
                /\ op[s].idx \in (walFrom + 1)..Len(hist)
                /\ hist[op[s].idx] = [coll |-> op[s].coll, upd |-> op[s].upd, failed |-> FALSE]
      BY <1>2, <1>3, <1>9, <2>1 DEF IInv, Written
    <3>2. op[s].idx \in Nat /\ op[s].idx < Len(hist)
      BY <1>2, <2>1
    <3>3. op[s].idx <= walFrom + Valid'
      BY <1>m, <3>2, SMTT(30)
    <3>5. pc[s] = "apply" => op[s].idx \in 1..Len(hist)
      BY <1>2, <3>1, <3>2
    <3>6. pc[s] = "apply" => hist'[op[s].idx] = hist[op[s].idx]
      BY <1>5, <3>2, <3>5
    <3> QED
      BY <1>1, <1>5, <3>1, <3>3, <3>6
  <2>2. op'[t].idx = 0 /\ 0 <= walFrom' + Valid' /\ 0 <= settled'
    BY <1>1, <1>2, <1>7, <1>9, SMTT(30)
  <2>3. ASSUME NEW r \in Thread, NEW s \in Thread, s # r,
               pc'[r] \in {"sync", "apply"}, pc'[s] \in {"sync", "apply"}
        PROVE  op'[s].idx # op'[r].idx
    <3>1. r # t /\ s # t
      BY <1>3, <2>3
    <3>2. pc[r] \in {"sync", "apply"} /\ pc[s] \in {"sync", "apply"}
      BY <1>3, <2>3, <3>1
    <3>3. op[s].idx # op[r].idx
      BY <2>3, <3>2 DEF IInv, Written
    <3> QED
      BY <1>9, <3>1, <3>3
  <2> QED
    BY <1>3, <2>1, <2>2, <2>3 DEF Written
<1>16. Promises'
  BY <1>1, <1>2, <1>7, SMTT(30) DEF IInv, Promises
<1>17. File'
  <2>1. PICK k \in Nat : /\ walFrom <= k /\ k < Len(hist)
                         /\ TocState = AfterOf(start, hist, k, FailedOf(hist, k))
    <3>1. PICK k \in walFrom..(walFrom + Valid) : /\ TocState = AfterOf(start, hist, k, FailedOf(hist, k))
                                                 /\ k < Len(hist)
      BY <1>1 DEF IInv, File
    <3>2. k \in Nat /\ walFrom <= k
      BY <1>m, <3>1
    <3> QED
      BY <3>1, <3>2
  <2>2. k \in 0..Len(hist) /\ k < Len(hist) /\ k <= Len(hist') /\ k \in walFrom..(walFrom + Valid')
    <3>1. Len(hist') = Len(hist)
      BY <1>5
    <3>2. k \in 0..Len(hist) /\ k \in walFrom..(walFrom + Valid')
      BY <1>m, <1>n, <2>1, Between
    <3> QED
      BY <1>n, <2>1, <3>1, <3>2
  <2>3. \A i \in 1..k : i \in 1..Len(hist) /\ i # Len(hist)
    BY <1>n, <2>2
  <2>4. SameTo(hist, hist', k) /\ \A i \in 1..k : i \in FailedOf(hist, k) <=> i \in FailedOf(hist', k)
    BY <1>5, <2>3 DEF SameTo, FailedOf
  <2>5. AfterOf(start, hist, k, FailedOf(hist, k)) = AfterOf(start, hist', k, FailedOf(hist', k))
    BY <1>4, <2>2, <2>4, AfterSame
  <2>6. ~Cut'
    BY <1>1, <1>2, <1>5, <1>6, SMTT(30) DEF Cut
  <2>7. TocReadable' /\ TocState' = TocState
    BY <1>1 DEF IInv, File, TocReadable, TocState
  <2> QED
    BY <1>1, <1>3, <2>1, <2>2, <2>5, <2>6, <2>7 DEF File
<1>18. Memory'
  <2> DEFINE S == FailedOf(hist, Len(hist)) \cup InFlight
             T == FailedOf(hist', Len(hist')) \cup InFlight'
             n == Len(hist)
  <2>1. n \in InFlight
    BY <1>1, <1>2 DEF InFlight
  <2>2. n \in T
    BY <1>5, <1>n DEF FailedOf
  <2>3. \A i \in 1..n : i # n => (i \in InFlight <=> i \in InFlight')
    <3>1. op[t].idx = n /\ pc'[t] = "idle"
      BY <1>2, <1>3
    <3>2. \A i : i \in InFlight <=> \E s \in Thread : pc[s] \in {"sync", "apply"} /\ op[s].idx = i
      BY DEF InFlight
    <3>3. \A i : i \in InFlight' <=> \E s \in Thread : pc'[s] \in {"sync", "apply"} /\ op'[s].idx = i
      BY DEF InFlight
    <3>4. \A s \in Thread : s # t => pc'[s] = pc[s] /\ op'[s] = op[s]
      BY <1>3, <1>9
    <3> QED
      BY <3>1, <3>2, <3>3, <3>4
  <2>4. \A i \in 1..n : i # n => (i \in FailedOf(hist, n) <=> i \in FailedOf(hist', n))
    BY <1>5 DEF FailedOf
  <2>5. \A i \in 1..n : i \in S <=> i \in T
    BY <1>5, <2>1, <2>2, <2>3, <2>4
  <2>6. n \in 0..Len(hist) /\ n <= Len(hist')
    BY <1>5, <1>n
  <2>7. mem = AfterOf(start, hist, n, S)
    BY <1>2 DEF IInv, Memory
  <2>8. SameTo(hist, hist', n)
    BY <1>5 DEF SameTo
  <2> HIDE DEF S, T
  <2>9. AfterOf(start, hist, n, S) = AfterOf(start, hist', n, T)
    BY <1>4, <2>5, <2>6, <2>8, AfterSame
  <2> QED
    BY <1>1, <1>5, <2>7, <2>9 DEF Memory, T
<1>19. Jobs'
  BY <1>3 DEF Jobs, Job
<1>20. Clean'
  <2>1. \A d \in Coll : CleanReuse(d)' = CleanReuse(d)
    BY <1>1 DEF CleanReuse
  <2> QED
    BY <1>1, <1>2, <2>1 DEF IInv, Clean, Job
<1>21. Dirty' /\ Sequence'
  BY <1>8 DEF Dirty, Sequence
<1> QED
  BY <1>10, <1>11, <1>12, <1>13, <1>14, <1>15, <1>16, <1>17, <1>18, <1>19, <1>20, <1>21 DEF IInv

(* A write is applied, and no write logged behind it has set an id of it.   *)
LEMMA ApplyStep ==
    ASSUME StoreAssumption, NoMishap', IInv, NEW t \in Thread, Apply(t)
    PROVE  IInv'
<1> DEFINE c == op[t].coll
           u == op[t].upd
           p == op[t].idx
           n == Len(hist)
<1>1. /\ pc[t] = "apply" /\ pc' = [pc EXCEPT ![t] = "after"]
      /\ mem' = ApplyTo(mem, c, u)
      /\ dirty' = [dirty EXCEPT ![c] = @ \/ Touches(mem[c], u)]
      /\ UNCHANGED <<toc, epoch, wal, flushed, nextSeq, lock, up, closing, sealed, base, op, snap, todo,
                     start, hist, acked, settled, walFrom, count>>
  BY DEF Apply, Goto, diskVars, jobVars, histVars
<1>2. up /\ \A s \in Thread : pc[s] \notin Job
  <2>1. \A s \in Thread : pc[s] \notin Job
    BY <1>1, NoJob DEF Job
  <2> QED
    BY <1>1, <2>1 DEF IInv, Alone
<1>3. /\ pc \in [Thread -> Labels] /\ pc'[t] = "after" /\ \A s \in Thread : s # t => pc'[s] = pc[s]
      /\ \A s \in Thread : pc'[s] \notin Job
      /\ \A s \in Thread : pc'[s] = "sync" <=> pc[s] = "sync"
  BY <1>1, <1>2 DEF IInv, Typing, Job
<1>4. /\ hist \in Seq(HistEntry) /\ start \in States /\ mem \in States /\ n \in Nat
      /\ walFrom \in Nat /\ p \in Nat /\ dirty \in [Coll -> BOOLEAN]
  BY Sizes DEF IInv, Typing
<1>5. /\ p \in (walFrom + 1)..n
      /\ hist[p] = [coll |-> c, upd |-> u, failed |-> FALSE]
      /\ \A s \in Thread : s # t /\ pc[s] \in {"sync", "apply"} => op[s].idx # p
  BY <1>1 DEF IInv, Written
<1>6. p \in 1..n /\ walFrom < p
  BY <1>4, <1>5
<1>7. c \in Coll /\ u \in Updates /\ u \in Patch /\ hist[p].coll = c /\ hist[p].upd = u /\ ~hist[p].failed
  <2>1. hist[p] \in HistEntry
    BY <1>4, <1>6
  <2> QED
    BY <1>5, <2>1, UpdatesPatch DEF HistEntry
<1>8. mem' \in States /\ \A d \in Coll : d # c => mem'[d] = mem[d]
  <2>1. mem' \in States
    BY <1>1, <1>4, <1>7, ApplyToIs
  <2>2. \A d \in Coll : d # c => mem'[d] = mem[d]
    BY <1>1, <1>4 DEF ApplyTo, States
  <2> QED
    BY <2>1, <2>2
<1> HIDE DEF c, u
<1>9. dirty' \in [Coll -> BOOLEAN]
  BY <1>1, <1>4, <1>7 DEF Touches
<1>10. Typing'
  <2>1. pc' \in [Thread -> Labels]
    BY <1>1, <1>3 DEF Labels
  <2> QED
    BY <1>1, <1>8, <1>9, <2>1 DEF IInv, Typing
<1>11. Bounds'
  BY <1>1, <1>3 DEF IInv, Bounds, Job
<1>12. Alone'
  BY <1>1, <1>2, <1>3 DEF IInv, Alone, Job
<1>13. Valid' = Valid
  BY <1>1 DEF Valid
<1>14. Log' /\ Promises'
  BY <1>1, <1>13 DEF IInv, Log, Promises
<1>15. Appends'
  BY <1>1, <1>3, <1>13 DEF IInv, Appends
<1>16. Written'
  <2>1. \A s \in Thread : pc'[s] \in {"sync", "apply"} => pc[s] \in {"sync", "apply"}
    BY <1>3
  <2>2. \A s \in Thread : op[s].idx <= walFrom + Valid \/ pc'[s] = "sync"
    BY <1>1, <1>3 DEF IInv, Written
  <2>3. \A s \in Thread : Durability = "Full" => op[s].idx <= settled \/ pc'[s] = "sync"
    BY <1>1, <1>3 DEF IInv, Written
  <2> QED
    BY <1>1, <1>13, <2>1, <2>2, <2>3 DEF IInv, Written
<1>17. File'
  BY <1>1, <1>3, <1>13 DEF IInv, File, TocReadable, TocState, Cut
<1>18. Memory'
  <2> DEFINE S == FailedOf(hist, n) \cup InFlight
             T == FailedOf(hist, n) \cup InFlight'
  <2>1. \A i : i \in InFlight <=> \E s \in Thread : pc[s] \in {"sync", "apply"} /\ op[s].idx = i
    BY DEF InFlight
  <2>2. \A i : i \in InFlight' <=> \E s \in Thread : pc'[s] \in {"sync", "apply"} /\ op[s].idx = i
    BY <1>1 DEF InFlight
  <2>3. ASSUME NEW s \in Thread, s # t, pc[s] \in {"sync", "apply"}
        PROVE  op[s].idx # p
    BY <1>5, <2>3
  <2>4. p \notin InFlight'
    BY <1>3, <2>2, <2>3
  <2>5. p \in InFlight
    BY <1>1, <2>1
  <2>6. \A i : i # p => (i \in InFlight <=> i \in InFlight')
    BY <1>3, <2>1, <2>2
  <2>7. p \notin FailedOf(hist, n)
    BY <1>7 DEF FailedOf
  <2>8. mem = AfterOf(start, hist, n, S)
    BY <1>2 DEF IInv, Memory
  <2>9. p \in S /\ p \notin T /\ \A i \in 1..n : i # p => (i \in S <=> i \in T)
    BY <2>4, <2>5, <2>6, <2>7
  <2>10. \A i \in (p + 1)..n :
            i \in T \/ hist[i].coll # hist[p].coll \/ DOMAIN hist[i].upd \cap DOMAIN hist[p].upd = {}
    <3>1. reordered' = {} /\ reordered' = reordered \cup ({c} \X Overtaken(t))
      BY DEF NoMishap, Apply, c
    <3>2. Overtaken(t) = {}
      <4>1. \A i \in Overtaken(t) : <<c, i>> \in {c} \X Overtaken(t)
        OBVIOUS
      <4> QED
        BY <3>1, <4>1
    <3>3. SUFFICES ASSUME NEW i \in (p + 1)..n, i \notin T, hist[i].coll = hist[p].coll,
                          NEW e \in DOMAIN hist[i].upd, e \in DOMAIN hist[p].upd
                   PROVE  FALSE
      OBVIOUS
    <3>4. i \in 1..n /\ i # p
      BY <1>4, <1>6, <3>3
    <3>5. ~hist[i].failed /\ i \notin InFlight
      BY <2>6, <3>3, <3>4 DEF FailedOf
    <3> QED
      BY <1>7, <3>2, <3>3, <3>5 DEF Overtaken, c, u
  <2>11. n \in 0..Len(hist)
    BY <1>4
  <2> HIDE DEF S, T, n, p
  <2>12. AfterOf(start, hist, n, T) = ApplyTo(AfterOf(start, hist, n, S), hist[p].coll, hist[p].upd)
    BY <1>4, <1>6, <2>9, <2>10, <2>11, AfterLate
  <2>13. mem' = AfterOf(start, hist, n, T)
    BY <1>1, <1>7, <2>8, <2>12
  <2> QED
    BY <1>1, <2>13 DEF Memory, T, n
<1>19. Jobs'
  BY <1>3 DEF Jobs, Job
<1>20. Clean'
  <2>1. ASSUME NEW d \in Coll, CleanReuse(d)' # NoRef
        PROVE  CleanReuse(d)' = CleanReuse(d) /\ mem'[d] = mem[d]
    <3>1. CASE d # c
      BY <1>1, <1>4, <1>8, <3>1 DEF CleanReuse
    <3>2. CASE d = c
      <4>1. ~dirty'[c]
        BY <2>1, <3>2 DEF CleanReuse
      <4>2. ~Touches(mem[c], u) /\ ~dirty[c]
        BY <1>1, <1>4, <1>7, <4>1
      <4>3. mem' = mem
        BY <1>1, <1>4, <1>7, <4>2, NoTouch
      <4> QED
        BY <1>1, <3>2, <4>1, <4>2, <4>3 DEF CleanReuse
    <3> QED
      BY <3>1, <3>2
  <2>2. \A d \in Coll : CleanReuse(d) # NoRef => CleanReuse(d) = Ref(epoch, mem[d])
    BY <1>2 DEF IInv, Clean, Job
  <2>3. \A d \in Coll : CleanReuse(d)' # NoRef => CleanReuse(d)' = Ref(epoch', mem'[d])
    BY <1>1, <2>1, <2>2
  <2> QED
    BY <1>1, <2>3 DEF IInv, Clean
<1>21. Dirty'
  <2>1. wal # <<>>
    <3>1. n <= walFrom + Len(wal)
      BY <1>2 DEF IInv, Log
    <3> QED
      BY <1>4, <1>6, <3>1
  <2> QED
    BY <1>1, <2>1 DEF Dirty
<1>22. Sequence'
  BY <1>1, <1>3, <1>13 DEF IInv, Sequence
<1> QED
  BY <1>10, <1>11, <1>12, <1>14, <1>15, <1>16, <1>17, <1>18, <1>19, <1>20, <1>21, <1>22 DEF IInv

(* AfterWrite: acknowledge, or checkpoint at the limit first.               *)
LEMMA AfterWriteStep ==
    ASSUME StoreAssumption, NoMishap', IInv, NEW t \in Thread, AfterWrite(t)
    PROVE  IInv'
<1>1. /\ pc[t] = "after" /\ lock = NoOne
      /\ UNCHANGED <<toc, epoch, wal, flushed, nextSeq, lock, up, closing, mem, dirty, sealed, base, snap,
                     start, hist, settled, walFrom, count>>
  BY DEF AfterWrite, Free, Goto, diskVars, dataVars
<1>2. /\ up /\ \A s \in Thread : pc[s] \notin Job
      /\ \A s \in Thread : pc[s] # "sync"
  <2>1. \A s \in Thread : pc[s] \notin Job
    BY <1>1, NoJob DEF Job
  <2> QED
    BY <1>1, <2>1 DEF IInv, Alone, StoreAssumption
<1>3. PICK x \in {"idle", "seal"} :
         /\ pc' = [pc EXCEPT ![t] = x]
         /\ x = "idle" => Ack(t) /\ todo' = todo
         /\ x = "seal" => /\ \A s \in Thread \ {t} : pc[s] = "idle"
                          /\ UNCHANGED <<op, acked>>
                          /\ todo' = [todo EXCEPT ![t] = Coll]
  <2>1. CASE /\ Len(wal) < WalLimit /\ Goto(t, "after", "idle") /\ Ack(t)
             /\ UNCHANGED <<todo, mishaps>>
    BY <2>1 DEF Goto
  <2>2. CASE /\ Len(wal) >= WalLimit /\ Goto(t, "after", "seal") /\ todo' = [todo EXCEPT ![t] = Coll]
             /\ NoteBeside(t) /\ UNCHANGED <<op, acked>>
    <3>1. \A s \in Thread \ {t} : pc[s] = "idle"
      BY <2>2, NotNoted DEF NoteBeside
    <3> QED
      BY <2>2, <3>1 DEF Goto
  <2> QED
    BY <2>1, <2>2 DEF AfterWrite
<1>4. /\ pc'[t] = x /\ \A s \in Thread : s # t => pc'[s] = pc[s]
      /\ pc' \in [Thread -> Labels] /\ \A s \in Thread : pc'[s] # "sync"
      /\ \A s \in Thread : pc'[s] = "apply" <=> pc[s] = "apply"
      /\ \A s \in Thread : pc'[s] \in Job => s = t /\ x = "seal"
  BY <1>1, <1>2, <1>3 DEF IInv, Typing, Labels, Job
<1>5. /\ walFrom \in Nat /\ Valid \in Nat /\ acked \in Nat /\ Len(hist) \in Nat /\ settled \in Nat
      /\ acked <= walFrom + Valid /\ walFrom + Valid <= Len(hist)
      /\ op \in [Thread -> [coll : Coll \cup {NoOne}, upd : Patch, idx : Nat]]
      /\ todo \in [Thread -> SUBSET Coll]
  <2>1. /\ op \in [Thread -> [coll : Coll \cup {NoOne}, upd : Patch, idx : Nat]]
        /\ todo \in [Thread -> SUBSET Coll]
    BY DEF IInv, Typing
  <2>2. Valid \in Nat
    BY Sizes
  <2> QED
    BY <2>1, <2>2, Sizes
<1>6. /\ op[t].idx \in Nat /\ op[t].idx <= walFrom + Valid
      /\ Durability = "Full" => op[t].idx <= settled /\ acked <= settled
  BY <1>1, Sizes DEF IInv, Written, Promises
<1>7. /\ acked' \in Nat /\ acked' <= walFrom + Valid
      /\ Durability = "Full" => acked' <= settled
  <2>1. acked' = acked \/ acked' = op[t].idx
    BY <1>3 DEF Ack
  <2> QED
    BY <1>5, <1>6, <2>1
<1>8. /\ op' \in [Thread -> [coll : Coll \cup {NoOne}, upd : Patch, idx : Nat]]
      /\ \A s \in Thread : s # t => op'[s] = op[s]
      /\ op'[t].idx = 0 \/ op'[t] = op[t]
  <2>1. NoOp \in [coll : Coll \cup {NoOne}, upd : Patch, idx : Nat] /\ NoOp.idx = 0
    BY NoUpdatePatch DEF NoOp
  <2>2. op' = op \/ op' = [op EXCEPT ![t] = NoOp]
    BY <1>3 DEF Ack
  <2>3. op \in [Thread -> [coll : Coll \cup {NoOne}, upd : Patch, idx : Nat]]
    BY <1>5
  <2>4. CASE op' = op
    BY <2>3, <2>4
  <2>5. CASE op' = [op EXCEPT ![t] = NoOp]
    BY <2>1, <2>3, <2>5
  <2> QED
    BY <2>2, <2>4, <2>5
<1>9. todo' \in [Thread -> SUBSET Coll] /\ (x = "seal" => todo'[t] = Coll)
  BY <1>3, <1>5
<1>10. Typing'
  <2>1. acked' \in 0..Len(hist')
    BY <1>1, <1>5, <1>7
  <2> QED
    BY <1>1, <1>4, <1>8, <1>9, <2>1 DEF IInv, Typing
<1>11. Bounds'
  BY <1>1, <1>4 DEF IInv, Bounds, Job
<1>12. Alone'
  <2>1. \A s \in Thread : pc'[s] \notin {"sync", "truncate", "vtruncate"} /\ lock' # s
    BY <1>1, <1>2, <1>4 DEF StoreAssumption, Job
  <2>2. x = "seal" => \A s \in Thread : s = t \/ pc'[s] = "idle"
    BY <1>3, <1>4
  <2>3. up' /\ \A s \in Thread : pc'[s] \in Job => s = t /\ x = "seal"
    BY <1>1, <1>2, <1>4
  <2> QED
    BY <2>1, <2>2, <2>3 DEF Alone
<1>13. Valid' = Valid
  BY <1>1 DEF Valid
<1>14. Log' /\ Promises'
  BY <1>1, <1>7, <1>13 DEF IInv, Log, Promises
<1>15. Appends'
  BY <1>4 DEF Appends
<1>16. Written'
  <2>1. ASSUME NEW s \in Thread
        PROVE  op'[s].idx <= walFrom + Valid /\ (Durability = "Full" => op'[s].idx <= settled)
    <3>1. op[s].idx <= walFrom + Valid /\ (Durability = "Full" => op[s].idx <= settled)
      BY <1>2 DEF IInv, Written
    <3>2. op'[s].idx = 0 \/ op'[s].idx = op[s].idx
      BY <1>8
    <3> QED
      BY <1>5, <3>1, <3>2
  <2>2. ASSUME NEW s \in Thread, pc'[s] = "apply"
        PROVE  op'[s] = op[s] /\ pc[s] = "apply"
    BY <1>1, <1>4, <1>8, <2>2
  <2>3. ASSUME NEW s \in Thread, pc'[s] = "idle"
        PROVE  op'[s].idx = 0
    <3>1. CASE s = t
      <4>1. x = "idle" /\ NoOp.idx = 0
        BY <1>4, <2>3, <3>1 DEF NoOp
      <4>2. op' = [op EXCEPT ![t] = NoOp]
        BY <1>3, <4>1 DEF Ack
      <4> QED
        BY <1>5, <3>1, <4>1, <4>2
    <3>2. CASE s # t
      BY <1>4, <1>8, <2>3, <3>2 DEF IInv, Written
    <3> QED
      BY <3>1, <3>2
  <2> QED
    BY <1>1, <1>4, <1>13, <2>1, <2>2, <2>3 DEF IInv, Written
<1>17. File'
  BY <1>1, <1>4, <1>13 DEF IInv, File, TocReadable, TocState, Cut
<1>18. Memory'
  <2>1. \A i : i \in InFlight <=> \E s \in Thread : pc[s] \in {"sync", "apply"} /\ op[s].idx = i
    BY DEF InFlight
  <2>2. \A i : i \in InFlight' <=> \E s \in Thread : pc'[s] \in {"sync", "apply"} /\ op'[s].idx = i
    BY DEF InFlight
  <2>3. \A s \in Thread : pc[s] = "apply" => op'[s] = op[s]
    BY <1>1, <1>8
  <2>4. \A i : i \in InFlight <=> i \in InFlight'
    BY <1>2, <1>4, <2>1, <2>2, <2>3
  <2>5. InFlight' = InFlight
    BY <2>4
  <2> QED
    BY <1>1, <2>5 DEF IInv, Memory
<1>19. Jobs'
  BY <1>4, <1>9 DEF Jobs, Job
<1>20. Clean' /\ Dirty'
  <2>1. \A d \in Coll : CleanReuse(d)' = CleanReuse(d) /\ Unreferenced(d)' = Unreferenced(d)
    BY <1>1 DEF CleanReuse, Unreferenced
  <2> QED
    BY <1>1, <1>2, <2>1 DEF IInv, Clean, Dirty, Job
<1>21. Sequence'
  BY <1>1, <1>2, <1>4, <1>13 DEF IInv, Sequence
<1> QED
  BY <1>10, <1>11, <1>12, <1>14, <1>15, <1>16, <1>17, <1>18, <1>19, <1>20, <1>21 DEF IInv

-----------------------------------------------------------------------------
(* Crashes and recovery.                                                    *)

(* Sums of natural numbers.                                                 *)
LEMMA Above ==
    ASSUME NEW a \in Nat, NEW b \in Nat
    PROVE  a + b \in Nat /\ a \in a..(a + b)
  OBVIOUS

(* Sums are monotone.                                                       *)
LEMMA Wider ==
    ASSUME NEW a \in Nat, NEW b \in Nat, NEW c \in Nat, NEW m \in Nat, b <= c
    PROVE  /\ m <= a + b => m <= a + c
           /\ a + c <= m => a + b <= m
  OBVIOUS

(* Store's words for the history are those of the replay lemmas.            *)
LEMMA AfterIs ==
    /\ \A n, S : After(n, S) = AfterOf(start, hist, n, S)
    /\ \A n : Failed(n) = FailedOf(hist, n)
    /\ BeforeWal = AfterOf(start, hist, walFrom, FailedOf(hist, walFrom))
  BY DEF After, Kept, Failed, AfterOf, KeptOf, FailedOf, BeforeWal

(* A beginning of the WAL.                                                  *)
LEMMA CutIs ==
    ASSUME NEW w, WalType(w), NEW n \in 0..Len(w)
    PROVE  /\ WalType(SubSeq(w, 1, n)) /\ Len(SubSeq(w, 1, n)) = n
           /\ \A i \in 1..n : SubSeq(w, 1, n)[i] = w[i]
           /\ Len(Replayed(SubSeq(w, 1, n))) =
                 IF n <= Len(Replayed(w)) THEN n ELSE Len(Replayed(w))
<1>1. w \in Seq(WalEntry)
  BY DEF WalType
<1>2. /\ SubSeq(w, 1, n) \in Seq(WalEntry) /\ Len(SubSeq(w, 1, n)) = n
      /\ \A i \in 1..n : SubSeq(w, 1, n)[i] = w[i]
  BY <1>1
<1>3. \A i \in 1..n : i \in 1..Len(w)
  BY <1>1
<1>4. WalType(SubSeq(w, 1, n))
  BY <1>2, <1>3 DEF WalType
<1> QED
  BY <1>1, <1>2, <1>4, ValidCut

(* What is left of the WAL and of the promises when the process is gone.    *)
Left ==
    /\ WalType(wal') /\ Len(wal') <= Len(wal) /\ flushed' \in 0..Len(wal')
    /\ Valid' \in Nat /\ Valid' <= Valid
    /\ \A i \in 1..Valid' : wal'[i].coll = wal[i].coll /\ wal'[i].upd = wal[i].upd
    /\ acked' \in Nat /\ acked' <= walFrom + Valid'
    /\ Durability = "Full" => acked' <= settled
    /\ settled <= walFrom + Valid' /\ settled <= walFrom + flushed'
    /\ \E k \in walFrom..(walFrom + Valid') : TocState = AfterOf(start, hist, k, FailedOf(hist, k))
    /\ Len(wal') < Len(hist) - walFrom => TocState = AfterOf(start, hist, walFrom, FailedOf(hist, walFrom))

(* A process that ends keeps the invariant when that is so.                 *)
LEMMA GoneStep ==
    ASSUME StoreAssumption, IInv, ProcessGone, Left
    PROVE  IInv'
<1>1. /\ up' = FALSE /\ closing' = FALSE /\ lock' = NoOne /\ nextSeq' = 1
      /\ mem' = [c \in Coll |-> NoPoints]
      /\ dirty' = [c \in Coll |-> FALSE]
      /\ sealed' = [c \in Coll |-> NoRef] /\ base' = [c \in Coll |-> NoRef]
      /\ pc' = [t \in Thread |-> "idle"] /\ op' = [t \in Thread |-> NoOp]
      /\ snap' = [t \in Thread |-> [c \in Coll |-> NoRef]]
      /\ todo' = [t \in Thread |-> {}]
      /\ UNCHANGED <<toc, epoch, start, hist, settled, walFrom>>
  BY DEF ProcessGone
<1>2. \A t \in Thread : pc'[t] = "idle" /\ op'[t] = NoOp
  BY <1>1
<1>3. /\ count' \in Counts /\ count'.errors = count.errors
      /\ count'.writes = count.writes /\ count'.calls = count.calls
  BY MaxTypes, BumpIs DEF ProcessGone
<1>4. /\ walFrom \in Nat /\ Len(hist) \in Nat /\ Valid' \in Nat /\ Valid \in Nat
      /\ acked' \in Nat /\ settled \in Nat /\ Len(wal) \in Nat
      /\ Valid' <= Valid /\ walFrom + Valid <= Len(hist) /\ acked' <= walFrom + Valid'
  <2>1. Valid \in Nat
    BY Sizes
  <2> QED
    BY <2>1, Sizes DEF Left
<1>5. /\ NoOp \in [coll : Coll \cup {NoOne}, upd : Patch, idx : Nat] /\ NoOp.idx = 0
  BY NoUpdatePatch DEF NoOp
<1>6. Typing'
  <2>1. /\ mem' \in States /\ dirty' \in [Coll -> BOOLEAN]
        /\ sealed' \in [Coll -> RefSet] /\ base' \in [Coll -> RefSet]
        /\ pc' \in [Thread -> Labels] /\ op' \in [Thread -> [coll : Coll \cup {NoOne}, upd : Patch, idx : Nat]]
        /\ snap' \in [Thread -> [Coll -> RefSet]] /\ todo' \in [Thread -> SUBSET Coll]
    BY <1>1, <1>5, NoRefType, NoPointsType DEF Labels
  <2>2. up' \in BOOLEAN /\ closing' \in BOOLEAN /\ lock' \in Thread \cup {NoOne} /\ nextSeq' \in Nat
    BY <1>1
  <2>3. WalType(wal') /\ flushed' \in 0..Len(wal')
    BY DEF Left
  <2>4. acked' \in 0..Len(hist)
    <3>1. acked' <= walFrom + Valid
      BY <1>4, Wider
    <3>2. acked' \in Nat /\ Len(hist) \in Nat /\ walFrom + Valid \in Nat /\ walFrom + Valid <= Len(hist)
      BY <1>4
    <3> QED
      BY <3>1, <3>2
  <2> QED
    BY <1>1, <1>3, <2>1, <2>2, <2>3, <2>4 DEF IInv, Typing
<1>7. Bounds'
  <2>1. Len(wal') \in Nat /\ Len(wal') <= Len(wal)
    BY DEF Left, WalType
  <2>2. Len(wal) <= count.writes + 1 /\ count.writes \in Nat
    BY Sizes DEF IInv, Bounds
  <2>3. Len(wal') <= count'.writes + 1
    BY <1>3, <1>4, <2>1, <2>2, SMTT(30)
  <2> QED
    BY <1>1, <1>2, <1>3, <2>3 DEF IInv, Bounds
<1>8. Alone'
  BY <1>1, <1>2 DEF Alone, StoreAssumption, Job
<1>9. Log'
  <2>1. walFrom + Valid' <= Len(hist)
    BY <1>4, Wider
  <2>2. \A i \in 1..Valid' : wal'[i].coll = hist[walFrom + i].coll /\ wal'[i].upd = hist[walFrom + i].upd
    <3>1. \A i \in 1..Valid' : i \in 1..Valid
      BY <1>4
    <3> QED
      BY <3>1 DEF Left, IInv, Log
  <2> QED
    BY <1>1, <2>1, <2>2 DEF IInv, Log
<1>10. Appends' /\ Jobs'
  BY <1>2 DEF Appends, Jobs
<1>11. Written'
  <2>1. 0 <= walFrom + Valid' /\ 0 <= settled
    <3>1. walFrom + Valid' \in Nat
      BY <1>4, Above
    <3>2. \A n \in Nat : 0 <= n
      OBVIOUS
    <3> QED
      BY <1>4, <3>1, <3>2
  <2> QED
    BY <1>1, <1>2, <1>5, <2>1 DEF Written
<1>12. Promises'
  BY <1>1 DEF Left, Promises
<1>13. File'
  <2>1. TocReadable' /\ TocState' = TocState
    BY <1>1 DEF IInv, File, TocReadable, TocState
  <2> QED
    BY <1>1, <1>2, <2>1 DEF File, Left, Cut
<1>14. Memory' /\ Dirty'
  BY <1>1 DEF Memory, Dirty
<1>15. Clean'
  BY <1>1 DEF Clean
<1>16. Sequence'
  BY <1>1 DEF Sequence
<1> QED
  BY <1>6, <1>7, <1>8, <1>9, <1>10, <1>11, <1>12, <1>13, <1>14, <1>15, <1>16 DEF IInv

(* It is after a kill ...                                                   *)
LEMMA KillStep ==
    ASSUME StoreAssumption, IInv, Kill
    PROVE  IInv'
<1>1. ProcessGone /\ flushed' = flushed /\ acked' = acked
  BY DEF Kill
<1>2. /\ WalType(wal) /\ Len(wal) \in Nat /\ Valid \in Nat /\ walFrom \in Nat
      /\ acked \in Nat /\ settled \in Nat /\ flushed \in 0..Len(wal) /\ acked <= walFrom + Valid
  <2>1. WalType(wal) /\ Valid \in Nat
    BY Sizes DEF IInv, Typing
  <2> QED
    BY <2>1, Sizes
<1>3. CASE wal' = wal
  <2>1. Valid' = Valid
    BY <1>3 DEF Valid
  <2>2. Promises /\ File
    BY DEF IInv
  <2>3. Left
    BY <1>1, <1>2, <1>3, <2>1, <2>2 DEF Left, Promises, File, Cut
  <2> QED
    BY <1>1, <2>3, GoneStep
<1>4. CASE "torn" \in Faults /\ Appending /\ wal' = Tear(wal)
  <2>1. PICK t \in Thread : pc[t] = "sync"
    BY <1>4 DEF Appending
  <2>2. /\ Valid = Len(wal) /\ Len(hist) = walFrom + Len(wal)
        /\ Len(wal) \in Nat /\ walFrom \in Nat /\ flushed \in Nat /\ flushed < Len(wal)
        /\ Len(hist) \in Nat
        /\ acked \in Nat /\ acked < Len(hist) /\ settled \in Nat /\ settled < Len(hist)
    BY <2>1, InAppend
  <2>3. /\ WalType(wal') /\ Len(wal') = Len(wal)
        /\ \A i \in 1..Len(wal) : wal'[i].coll = wal[i].coll /\ wal'[i].upd = wal[i].upd
        /\ Len(Replayed(wal')) = Len(wal) - 1
    <3>1. Len(wal) # 0 /\ Len(Replayed(wal)) = Len(wal)
      BY <2>2 DEF Valid
    <3> QED
      BY <1>2, <1>4, <3>1, TearIs
  <2>4. Valid' = Len(wal) - 1
    BY <2>3 DEF Valid
  <2>5. Valid' \in Nat /\ Valid' <= Valid /\ \A i \in 1..Valid' : i \in 1..Len(wal)
    BY <2>2, <2>4
  <2>6. acked <= walFrom + Valid' /\ settled <= walFrom + Valid' /\ settled <= walFrom + flushed
    BY <2>2, <2>4 DEF IInv, Promises
  <2>7. PICK k \in Nat : /\ walFrom <= k /\ k < Len(hist)
                         /\ TocState = AfterOf(start, hist, k, FailedOf(hist, k))
    <3>1. PICK k \in walFrom..(walFrom + Valid) : /\ TocState = AfterOf(start, hist, k, FailedOf(hist, k))
                                                 /\ k < Len(hist)
      BY <2>1 DEF IInv, File
    <3>2. k \in Nat /\ walFrom <= k
      BY <1>2, <3>1
    <3> QED
      BY <3>1, <3>2
  <2>8. k \in walFrom..(walFrom + Valid')
    <3>1. Len(wal) <= Valid' + 1
      BY <2>2, <2>4
    <3> QED
      BY <2>2, <2>5, <2>7, <3>1, Between
  <2>9. ~(Len(wal') < Len(hist) - walFrom)
    BY <2>2, <2>3
  <2>10. Durability = "Full" => acked <= settled
    BY DEF IInv, Promises
  <2>11. \E j \in walFrom..(walFrom + Valid') : TocState = AfterOf(start, hist, j, FailedOf(hist, j))
    BY <2>7, <2>8
  <2>12. flushed' \in 0..Len(wal') /\ Len(wal') <= Len(wal)
    BY <1>1, <1>2, <2>3
  <2>13. \A i \in 1..Valid' : wal'[i].coll = wal[i].coll /\ wal'[i].upd = wal[i].upd
    BY <2>3, <2>5
  <2>14. WalType(wal') /\ acked' = acked /\ flushed' = flushed /\ acked \in Nat
    BY <1>1, <2>2, <2>3
  <2>15. Valid' \in Nat /\ Valid' <= Valid
    BY <2>5
  <2>16. Left
    BY <1>4, <2>6, <2>9, <2>10, <2>11, <2>12, <2>13, <2>14, <2>15 DEF Left
  <2> QED
    BY <1>1, <2>16, GoneStep
<1> QED
  BY <1>3, <1>4 DEF Kill

(* ... and after a power loss.                                              *)
LEMMA PowerLossStep ==
    ASSUME StoreAssumption, NoMishap', IInv, PowerLoss
    PROVE  IInv'
<1>1. /\ ProcessGone /\ flushed' = Len(wal')
      /\ acked' = (IF Durability = "Full" THEN acked ELSE settled)
      /\ wal' # wal => TocState = AfterOf(start, hist, walFrom, FailedOf(hist, walFrom))
  <2>1. wal' # wal => ~TocAhead
    <3>1. ~(TocAhead /\ wal' # wal)
      BY NotNoted DEF PowerLoss
    <3> QED
      BY <3>1
  <2> QED
    BY <2>1, AfterIs DEF PowerLoss, TocAhead
<1>2. /\ WalType(wal) /\ Len(wal) \in Nat /\ Valid \in Nat /\ walFrom \in Nat
      /\ acked \in Nat /\ settled \in Nat /\ flushed \in Nat /\ flushed <= Len(wal)
      /\ acked <= walFrom + Valid /\ settled <= walFrom + Valid /\ settled <= walFrom + flushed
      /\ Durability = "Full" => acked <= settled
  <2>1. WalType(wal) /\ Valid \in Nat
    BY Sizes DEF IInv, Typing
  <2> QED
    BY <2>1, Sizes DEF IInv, Promises
<1>3. acked' \in Nat /\ acked' <= settled
  BY <1>1, <1>2
<1>4. PICK n \in flushed..Len(wal) :
         \/ wal' = SubSeq(wal, 1, n)
         \/ "torn" \in Faults /\ n > flushed /\ wal' = Tear(SubSeq(wal, 1, n))
  BY DEF PowerLoss
<1>5. n \in Nat /\ n \in 0..Len(wal) /\ flushed <= n /\ n <= Len(wal)
  BY <1>2, <1>4
<1> DEFINE w == SubSeq(wal, 1, n)
<1>6. /\ WalType(w) /\ Len(w) = n /\ \A i \in 1..n : w[i] = wal[i]
      /\ Len(Replayed(w)) = IF n <= Valid THEN n ELSE Valid
  BY <1>2, <1>5, CutIs DEF Valid
<1> HIDE DEF w
<1>7. /\ WalType(wal') /\ Len(wal') = n
      /\ \A i \in 1..n : wal'[i].coll = wal[i].coll /\ wal'[i].upd = wal[i].upd
      /\ Valid' \in Nat /\ Valid' <= Valid /\ Valid' <= n
      /\ Valid' = Valid \/ flushed <= Valid'
  <2>1. CASE wal' = w
    <3>1. Valid' = IF n <= Valid THEN n ELSE Valid
      BY <1>6, <2>1 DEF Valid
    <3> QED
      BY <1>2, <1>5, <1>6, <2>1, <3>1, SMTT(30)
  <2>2. CASE "torn" \in Faults /\ n > flushed /\ wal' = Tear(w)
    <3>1. n # 0
      BY <1>2, <1>5, <2>2
    <3>2. /\ WalType(wal') /\ Len(wal') = n
          /\ \A i \in 1..n : wal'[i].coll = w[i].coll /\ wal'[i].upd = w[i].upd
          /\ Len(Replayed(wal')) = IF Len(Replayed(w)) = n THEN n - 1 ELSE Len(Replayed(w))
      BY <1>6, <2>2, <3>1, TearIs
    <3>3. Valid' = IF n <= Valid THEN n - 1 ELSE Valid
      <4>1. Valid' = IF Len(Replayed(w)) = n THEN n - 1 ELSE Len(Replayed(w))
        BY <3>2 DEF Valid
      <4> QED
        BY <1>2, <1>5, <1>6, <4>1
    <3>4. Valid' \in Nat /\ Valid' <= Valid /\ Valid' <= n /\ (Valid' = Valid \/ flushed <= Valid')
      BY <1>2, <1>5, <2>2, <3>1, <3>3
    <3> QED
      BY <1>6, <2>2, <3>2, <3>4
  <2> QED
    BY <1>4, <2>1, <2>2 DEF w
<1>8. settled <= walFrom + Valid' /\ settled <= walFrom + n
  <2>1. Valid' \in Nat /\ (Valid' = Valid \/ flushed <= Valid')
    BY <1>7
  <2>2. settled <= walFrom + n
    BY <1>2, <1>5
  <2>3. CASE Valid' = Valid
    BY <1>2, <2>2, <2>3
  <2>4. CASE flushed <= Valid'
    BY <1>2, <2>1, <2>2, <2>4, Wider
  <2> QED
    BY <2>1, <2>3, <2>4
<1>9. acked' <= walFrom + Valid'
  <2>1. \A a, b, c \in Nat : a <= b /\ b <= c => a <= c
    OBVIOUS
  <2>2. walFrom + Valid' \in Nat
    <3>1. Valid' \in Nat
      BY <1>7
    <3> QED
      BY <1>2, <3>1, Above
  <2> QED
    BY <1>2, <1>3, <1>8, <2>1, <2>2
<1>10. File
  BY DEF IInv
<1>11. \E k \in walFrom..(walFrom + Valid') : TocState = AfterOf(start, hist, k, FailedOf(hist, k))
  <2>1. CASE wal' = wal
    BY <1>10, <2>1 DEF File, Valid
  <2>2. CASE wal' # wal
    <3>1. walFrom \in walFrom..(walFrom + Valid')
      <4>1. Valid' \in Nat
        BY <1>7
      <4> QED
        BY <1>2, <4>1, Above
    <3> QED
      BY <1>1, <2>2, <3>1
  <2> QED
    BY <2>1, <2>2
<1>12. Len(wal') < Len(hist) - walFrom => TocState = AfterOf(start, hist, walFrom, FailedOf(hist, walFrom))
  BY <1>1, <1>10 DEF File, Cut
<1>14. flushed' \in 0..Len(wal') /\ flushed' = n /\ Len(wal') <= Len(wal)
  BY <1>1, <1>5, <1>7
<1>15. \A i \in 1..Valid' : i \in 1..n
  BY <1>5, <1>7
<1>16. Left
  BY <1>3, <1>7, <1>8, <1>9, <1>11, <1>12, <1>14, <1>15 DEF Left
<1> QED
  BY <1>1, <1>16, GoneStep

(* What an open replays.                                                    *)
LEMMA ReplayedFacts ==
    ASSUME StoreAssumption, IInv
    PROVE  /\ Replayed(wal) \in Seq(WalEntry) /\ IsLog(Replayed(wal)) /\ Len(Replayed(wal)) = Valid
           /\ \A i \in 1..Valid : /\ Replayed(wal)[i].coll \in Coll /\ Replayed(wal)[i].upd \in Updates
                                 /\ Replayed(wal)[i] = wal[i]
                                 /\ Replayed(wal)[i].coll = hist[walFrom + i].coll
                                 /\ Replayed(wal)[i].upd = hist[walFrom + i].upd
<1> DEFINE w == Replayed(wal)
<1>1. /\ wal \in Seq(WalEntry) /\ Len(wal) \in Nat /\ Valid \in 0..Len(wal)
      /\ WalType(wal) /\ Len(w) = Valid
  BY Sizes DEF IInv, Typing, Valid
<1>2. w = SubSeq(wal, 1, Valid) /\ Good(wal, Valid)
  BY <1>1, ReplayedIs DEF Valid
<1>3. w \in Seq(WalEntry) /\ \A i \in 1..Valid : w[i] = wal[i] /\ i \in 1..Len(wal)
  BY <1>1, <1>2
<1>4. \A i \in 1..Valid : w[i].coll \in Coll /\ w[i].upd \in Updates
  BY <1>1, <1>2, <1>3 DEF Good, WalType
<1>5. IsLog(w)
  <2>1. DOMAIN w = 1..Len(w) /\ Len(w) \in Nat
    BY <1>3
  <2> QED
    BY <1>1, <1>4, <2>1, UpdatesPatch DEF IsLog
<1>6. \A i \in 1..Valid : w[i].coll = hist[walFrom + i].coll /\ w[i].upd = hist[walFrom + i].upd
  BY <1>3 DEF IInv, Log
<1> QED
  BY <1>1, <1>3, <1>4, <1>5, <1>6

(* The TOC holds some of the writes the WAL holds.                          *)
LEMMA TocIs ==
    ASSUME StoreAssumption, IInv
    PROVE  \E k \in Nat : /\ walFrom <= k /\ k <= walFrom + Valid
                          /\ TocState = AfterOf(start, hist, k, FailedOf(hist, walFrom))
<1>1. /\ walFrom \in Nat /\ Valid \in Nat /\ Len(hist) \in Nat /\ walFrom + Valid <= Len(hist)
      /\ hist \in Seq(HistEntry) /\ start \in States
  <2>1. Valid \in Nat
    BY Sizes
  <2> QED
    BY <2>1, Sizes DEF IInv, Typing
<1>2. PICK k \in Nat : /\ walFrom <= k /\ k <= walFrom + Valid
                       /\ TocState = AfterOf(start, hist, k, FailedOf(hist, k))
  <2>1. PICK k \in walFrom..(walFrom + Valid) : TocState = AfterOf(start, hist, k, FailedOf(hist, k))
    BY DEF IInv, File
  <2>2. k \in Nat /\ walFrom <= k /\ k <= walFrom + Valid
    BY <1>1, <2>1
  <2> QED
    BY <2>1, <2>2
<1>3. k \in 0..Len(hist) /\ k <= Len(hist)
  BY <1>1, <1>2
<1>4. \A i \in (walFrom + 1)..Len(hist) : hist[i].failed => i = Len(hist)
  BY DEF IInv, Log
<1>5. CASE \A i \in (walFrom + 1)..k : ~hist[i].failed
  <2>1. \A i \in 1..k : i \in FailedOf(hist, k) <=> i \in FailedOf(hist, walFrom)
    <3>1. \A i \in 1..k : i \in 1..walFrom \/ i \in (walFrom + 1)..k
      BY <1>1, <1>2
    <3>2. \A i \in 1..walFrom : i \in 1..k
      BY <1>1, <1>2
    <3> QED
      BY <1>5, <3>1, <3>2 DEF FailedOf
  <2>2. SameTo(hist, hist, k)
    BY DEF SameTo
  <2>3. AfterOf(start, hist, k, FailedOf(hist, k)) = AfterOf(start, hist, k, FailedOf(hist, walFrom))
    BY <1>1, <1>3, <2>1, <2>2, AfterSame
  <2> QED
    BY <1>2, <2>3
<1>6. CASE \E i \in (walFrom + 1)..k : hist[i].failed
  <2>1. k = Len(hist) /\ walFrom < k /\ hist[k].failed
    <3>1. PICK i \in (walFrom + 1)..k : hist[i].failed
      BY <1>6
    <3>2. i \in Nat /\ walFrom < i /\ i <= k /\ i \in (walFrom + 1)..Len(hist)
      BY <1>1, <1>2, <1>3, <3>1
    <3>3. i = Len(hist)
      BY <1>4, <3>1, <3>2
    <3> QED
      BY <1>1, <1>2, <1>3, <3>1, <3>2, <3>3
  <2>2. PICK j \in Nat : k = j + 1
    <3>1. k - 1 \in Nat /\ k = (k - 1) + 1
      BY <1>1, <1>2, <2>1
    <3> QED
      BY <3>1
  <2>3. j \in 0..Len(hist) /\ j < Len(hist) /\ j <= Len(hist) /\ walFrom <= j /\ j + 1 = Len(hist)
        /\ j <= k
    BY <1>1, <1>3, <2>1, <2>2
  <2>4. k \in FailedOf(hist, k)
    BY <1>2, <2>1, <2>2 DEF FailedOf
  <2>5. AfterOf(start, hist, k, FailedOf(hist, k)) = AfterOf(start, hist, j, FailedOf(hist, k))
    <3> DEFINE S == FailedOf(hist, k)
    <3>1. j + 1 \in S
      BY <2>2, <2>4
    <3> HIDE DEF S
    <3>2. AfterOf(start, hist, j + 1, S) = AfterOf(start, hist, j, S)
      BY <1>1, <2>3, <3>1, AfterNext
    <3>3. AfterOf(start, hist, k, S) = AfterOf(start, hist, j, S)
      BY <2>2, <3>2
    <3> QED
      BY <3>3 DEF S
  <2>6. \A i \in 1..j : i \in FailedOf(hist, k) <=> i \in FailedOf(hist, walFrom)
    <3>1. \A i \in 1..j : i \in 1..k /\ (i \in 1..walFrom \/ (i \in (walFrom + 1)..Len(hist) /\ i # Len(hist)))
      BY <1>1, <2>2, <2>3
    <3>2. \A i \in 1..walFrom : i \in 1..k
      BY <1>1, <1>2
    <3> QED
      BY <1>4, <3>1, <3>2 DEF FailedOf
  <2>7. SameTo(hist, hist, j)
    BY DEF SameTo
  <2>8. AfterOf(start, hist, j, FailedOf(hist, k)) = AfterOf(start, hist, j, FailedOf(hist, walFrom))
    BY <1>1, <2>3, <2>6, <2>7, AfterSame
  <2>9. j <= walFrom + Valid
    BY <1>1, <1>2, <2>2
  <2> QED
    BY <1>2, <2>3, <2>5, <2>8, <2>9
<1> QED
  BY <1>5, <1>6

(* Replaying that much of the WAL over the points before it.                *)
LEMMA BeforeIs ==
    ASSUME StoreAssumption, IInv, NEW n \in Nat, n <= Valid,
           NEW w, IsLog(w), Len(w) = n,
           \A i \in 1..n : w[i].coll = hist[walFrom + i].coll /\ w[i].upd = hist[walFrom + i].upd,
           NEW k \in Nat, walFrom <= k, k <= walFrom + n
    PROVE  ApplyAll(AfterOf(start, hist, k, FailedOf(hist, walFrom)), w)
              = AfterOf(start, hist, walFrom + n, FailedOf(hist, walFrom))
<1>1. /\ walFrom \in Nat /\ Valid \in Nat /\ Len(hist) \in Nat /\ walFrom + Valid <= Len(hist)
      /\ hist \in Seq(HistEntry) /\ start \in States
  <2>1. Valid \in Nat
    BY Sizes
  <2> QED
    BY <2>1, Sizes DEF IInv, Typing
<1>2. walFrom + n <= Len(hist)
  BY <1>1, Wider
<1>3. walFrom \in 0..Len(hist) /\ k \in walFrom..(walFrom + n)
  BY <1>1
<1>4. Follows(hist, walFrom, w)
  BY DEF Follows
<1>5. start \in States /\ hist \in Seq(HistEntry) /\ walFrom \in 0..Len(hist)
      /\ k \in walFrom..(walFrom + Len(w)) /\ walFrom + Len(w) <= Len(hist)
  BY <1>1, <1>2, <1>3
<1>6. Fits(start, hist, walFrom, w, walFrom + n, k)
  BY <1>1, <1>4, <1>5 DEF Fits
<1> QED
  BY <1>6, ReplayFits

(* What an open recovers.                                                   *)
LEMMA RecoveredIs ==
    ASSUME StoreAssumption, IInv
    PROVE  Recovered = AfterOf(start, hist, walFrom + Valid, FailedOf(hist, walFrom))
<1>1. PICK k \in Nat : /\ walFrom <= k /\ k <= walFrom + Valid
                       /\ TocState = AfterOf(start, hist, k, FailedOf(hist, walFrom))
  BY TocIs
<1>2. Valid \in Nat /\ Valid <= Valid
  BY Sizes
<1>3. /\ IsLog(Replayed(wal)) /\ Len(Replayed(wal)) = Valid
      /\ \A i \in 1..Valid : /\ Replayed(wal)[i].coll = hist[walFrom + i].coll
                            /\ Replayed(wal)[i].upd = hist[walFrom + i].upd
  BY ReplayedFacts
<1>4. ApplyAll(AfterOf(start, hist, k, FailedOf(hist, walFrom)), Replayed(wal))
              = AfterOf(start, hist, walFrom + Valid, FailedOf(hist, walFrom))
  BY <1>1, <1>2, <1>3, BeforeIs
<1> QED
  BY <1>1, <1>4 DEF Recovered

(* What an open makes the start of the history: the points before the WAL. *)
LEMMA OpenedHistory ==
    ASSUME StoreAssumption, IInv, Open
    PROVE  /\ hist' \in Seq(HistEntry) /\ Len(hist') = Valid
           /\ \A i \in 1..Valid : /\ hist'[i].coll = hist[walFrom + i].coll
                                 /\ hist'[i].upd = hist[walFrom + i].upd
                                 /\ wal[i].coll = hist'[i].coll /\ wal[i].upd = hist'[i].upd
                                 /\ hist'[i].failed = FALSE
           /\ start' = AfterOf(start, hist, walFrom, FailedOf(hist, walFrom))
           /\ start' \in States
<1> DEFINE w == Replayed(wal)
<1>1. hist' = [i \in 1..Len(w) |-> [coll |-> w[i].coll, upd |-> w[i].upd, failed |-> FALSE]]
      /\ start' = IF Cut THEN TocState ELSE BeforeWal
  BY DEF Open
<1>2. /\ Len(w) = Valid /\ Valid \in Nat
      /\ \A i \in 1..Valid : /\ w[i].coll \in Coll /\ w[i].upd \in Updates
                            /\ w[i] = wal[i]
                            /\ w[i].coll = hist[walFrom + i].coll
                            /\ w[i].upd = hist[walFrom + i].upd
  <2>1. Valid \in Nat
    BY Sizes
  <2> QED
    BY <2>1, ReplayedFacts
<1> HIDE DEF w
<1>3. \A i \in 1..Valid : hist'[i] = [coll |-> w[i].coll, upd |-> w[i].upd, failed |-> FALSE]
  BY <1>1, <1>2
<1>4. \A i \in 1..Valid : /\ hist'[i].coll = w[i].coll /\ hist'[i].upd = w[i].upd
                         /\ hist'[i].failed = FALSE
                         /\ hist'[i] \in HistEntry
  <2> SUFFICES ASSUME NEW i \in 1..Valid
               PROVE  /\ hist'[i].coll = w[i].coll /\ hist'[i].upd = w[i].upd
                      /\ hist'[i].failed = FALSE
                      /\ hist'[i] \in HistEntry
    OBVIOUS
  <2>1. w[i].coll \in Coll /\ w[i].upd \in Updates
    BY <1>2
  <2>2. hist'[i] = [coll |-> w[i].coll, upd |-> w[i].upd, failed |-> FALSE]
    BY <1>3
  <2> DEFINE e == [coll |-> w[i].coll, upd |-> w[i].upd, failed |-> FALSE]
  <2>3. e \in HistEntry /\ e.coll = w[i].coll /\ e.upd = w[i].upd /\ e.failed = FALSE
    BY <2>1 DEF HistEntry
  <2> HIDE DEF e
  <2>4. hist'[i] = e
    BY <2>2 DEF e
  <2> QED
    BY <2>3, <2>4
<1>5. hist' \in Seq(HistEntry) /\ Len(hist') = Valid
  <2> DEFINE n == Valid
  <2>1. hist' \in [1..n -> HistEntry] /\ n \in Nat
    BY <1>1, <1>2, <1>4
  <2> HIDE DEF n
  <2>2. hist' \in Seq(HistEntry) /\ Len(hist') = n
    BY <2>1
  <2> QED
    BY <2>2 DEF n
<1>6. start' = AfterOf(start, hist, walFrom, FailedOf(hist, walFrom))
  <2>1. Cut => TocState = AfterOf(start, hist, walFrom, FailedOf(hist, walFrom))
    BY DEF IInv, File
  <2> QED
    BY <1>1, <2>1, AfterIs
<1>7. start' \in States
  <2>1. start \in States /\ hist \in Seq(HistEntry) /\ walFrom \in 0..Len(hist)
    BY DEF IInv, Typing
  <2> QED
    BY <1>6, <2>1, AfterType
<1> QED
  BY <1>2, <1>4, <1>5, <1>6, <1>7

(* From there the history an open writes down leads to where the old one led. *)
LEMMA OpenedAfter ==
    ASSUME StoreAssumption, IInv, Open, NEW n \in Nat, n <= Valid
    PROVE  /\ FailedOf(hist', n) = {}
           /\ AfterOf(start', hist', n, {}) = AfterOf(start, hist, walFrom + n, FailedOf(hist, walFrom))
<1>1. /\ hist' \in Seq(HistEntry) /\ Len(hist') = Valid
      /\ \A i \in 1..Valid : /\ hist'[i].coll = hist[walFrom + i].coll
                            /\ hist'[i].upd = hist[walFrom + i].upd
                            /\ hist'[i].failed = FALSE
      /\ start' = AfterOf(start, hist, walFrom, FailedOf(hist, walFrom))
  BY OpenedHistory
<1>2. Valid \in Nat /\ walFrom \in Nat
  <2>1. Valid \in Nat
    BY Sizes
  <2> QED
    BY <2>1, Sizes
<1>3. n \in 0..Len(hist') /\ \A i \in 1..n : i \in 1..Valid
  BY <1>1, <1>2
<1>4. FailedOf(hist', n) = {}
  BY <1>1, <1>3 DEF FailedOf
<1> DEFINE w == KeptOf(hist', n, {})
<1>5. /\ IsLog(w) /\ Len(w) = n
      /\ \A i \in 1..n : w[i].coll = hist'[i].coll /\ w[i].upd = hist'[i].upd
  <2>1. /\ IsLog(w) /\ Len(w) = n
        /\ \A i \in 1..n : /\ w[i].coll = hist'[i].coll
                          /\ w[i].upd = IF i \in {} THEN NoUpdate ELSE hist'[i].upd
    BY <1>1, <1>3, KeptIs
  <2> QED
    BY <2>1
<1> HIDE DEF w
<1>6. \A i \in 1..n : w[i].coll = hist[walFrom + i].coll /\ w[i].upd = hist[walFrom + i].upd
  BY <1>1, <1>3, <1>5
<1>7. walFrom \in Nat /\ walFrom <= walFrom /\ walFrom <= walFrom + n
  BY <1>2
<1>8. ApplyAll(AfterOf(start, hist, walFrom, FailedOf(hist, walFrom)), w)
        = AfterOf(start, hist, walFrom + n, FailedOf(hist, walFrom))
  BY <1>5, <1>6, <1>7, BeforeIs, ZenonT(30)
<1>9. AfterOf(start', hist', n, {}) = ApplyAll(start', w)
  BY DEF AfterOf, w
<1> QED
  BY <1>1, <1>4, <1>8, <1>9

(* A collection the replay did not touch holds what its references lead to. *)
LEMMA OpenedClean ==
    ASSUME StoreAssumption, IInv, Open, NEW c \in Coll, ~dirty'[c]
    PROVE  toc[c] = Ref(epoch, mem'[c])
<1> DEFINE w == Replayed(wal)
<1>1. /\ mem' = ApplyAll(TocState, w)
      /\ ~(\E i \in 1..Len(w) : /\ w[i].coll = c
                               /\ Touches(ApplyAll(TocState, SubSeq(w, 1, i - 1))[c], w[i].upd))
  BY DEF Open, Recovered
<1>2. w \in Seq(WalEntry) /\ IsLog(w)
  BY ReplayedFacts
<1>3. toc \in [Coll -> RefSet] /\ TocState \in States
  <2>1. toc \in [Coll -> RefSet]
    BY DEF IInv, Typing
  <2>2. \A d \in Coll : toc[d] \in RefSet
    BY <2>1
  <2>3. \A d \in Coll : toc[d].body \in Points
    BY <2>2 DEF RefSet
  <2>4. TocState \in States
    BY <2>3 DEF TocState, States
  <2> QED
    BY <2>1, <2>4
<1> HIDE DEF w
<1>4. \A k \in 1..Len(w) : w[k].coll = c =>
         ~Touches(ApplyAll(TocState, SubSeq(w, 1, k - 1))[c], w[k].upd)
  BY <1>1
<1>5. ApplyAll(TocState, w)[c] = TocState[c]
  BY <1>2, <1>3, <1>4, CleanReplay
<1>6. mem'[c] = toc[c].body
  BY <1>1, <1>5 DEF TocState
<1>7. toc[c] \in RefSet /\ toc[c].epoch = epoch
  BY <1>3 DEF IInv, File, TocReadable
<1>8. toc[c] = [epoch |-> toc[c].epoch, body |-> toc[c].body]
  BY <1>7 DEF RefSet
<1> QED
  BY <1>6, <1>7, <1>8 DEF Ref

(* An open recovers the points, and writes the history down from there.     *)
LEMMA OpenStep ==
    ASSUME StoreAssumption, IInv, Open
    PROVE  IInv'
<1>1. /\ up' = TRUE /\ closing' = FALSE /\ walFrom' = 0 /\ ~up
      /\ mem' = Recovered
      /\ settled' = (IF flushed < Len(Replayed(wal)) THEN flushed ELSE Len(Replayed(wal)))
      /\ acked' = (IF Durability = "Full" THEN settled' ELSE Len(Replayed(wal)))
      /\ base' = [c \in Coll |-> IF c \in Mapped THEN toc[c] ELSE NoRef]
      /\ sealed' = [c \in Coll |-> IF c \in Mapped THEN NoRef ELSE toc[c]]
      /\ UNCHANGED <<toc, epoch, wal, flushed, lock, pc, op, snap, todo, count>>
  BY DEF Open, diskVars, jobVars
<1>2. \A t \in Thread : pc[t] = "idle" /\ pc'[t] = "idle" /\ op[t].idx = 0 /\ op'[t].idx = 0
  BY <1>1 DEF IInv, Alone, Written
<1>3. /\ Valid \in Nat /\ Valid <= Len(wal) /\ Len(wal) \in Nat /\ flushed \in Nat
      /\ flushed <= Len(wal) /\ Len(Replayed(wal)) = Valid
  <2>1. Valid \in Nat /\ Valid <= Len(wal) /\ Len(wal) \in Nat
    BY Sizes
  <2> QED
    BY <2>1 DEF IInv, Typing, Valid
<1>4. Valid' = Valid
  BY <1>1 DEF Valid
<1>5. settled' \in Nat /\ settled' <= Valid /\ settled' <= flushed
      /\ acked' \in Nat /\ acked' <= Valid /\ (Durability = "Full" => acked' = settled')
  BY <1>1, <1>3
<1>6. nextSeq' = Valid + 1
  BY <1>3 DEF Open, SeqAfter
<1>7. /\ hist' \in Seq(HistEntry) /\ Len(hist') = Valid
      /\ \A i \in 1..Valid : /\ wal[i].coll = hist'[i].coll /\ wal[i].upd = hist'[i].upd
                            /\ hist'[i].failed = FALSE
      /\ start' \in States
  BY OpenedHistory
<1>8. mem' = AfterOf(start, hist, walFrom + Valid, FailedOf(hist, walFrom))
  BY <1>1, RecoveredIs
<1>9. mem' = AfterOf(start', hist', Valid, {}) /\ FailedOf(hist', Valid) = {}
  <2>1. Valid <= Valid
    BY <1>3
  <2> QED
    BY <1>3, <1>8, <2>1, OpenedAfter
<1>10. mem' \in States
  <2>1. Valid \in 0..Len(hist')
    BY <1>3, <1>7
  <2> QED
    BY <1>7, <1>9, <2>1, AfterType
<1>11. \A n \in Nat : 0 + n = n
  OBVIOUS
<1>12. Typing'
  <2>1. dirty' \in [Coll -> BOOLEAN]
    BY DEF Open
  <2>2. sealed' \in [Coll -> RefSet] /\ base' \in [Coll -> RefSet]
    BY <1>1, NoRefType DEF IInv, Typing
  <2>3. nextSeq' \in Nat
    BY <1>3, <1>6
  <2>4. acked' \in 0..Len(hist') /\ settled' \in 0..Len(hist') /\ walFrom' \in 0..Len(hist')
    BY <1>1, <1>3, <1>5, <1>7
  <2>5. up' \in BOOLEAN /\ closing' \in BOOLEAN
    BY <1>1
  <2> QED
    BY <1>1, <1>7, <1>10, <2>1, <2>2, <2>3, <2>4, <2>5 DEF IInv, Typing
<1>13. Bounds'
  BY <1>1 DEF IInv, Bounds
<1>14. Alone'
  BY <1>1, <1>2 DEF IInv, Alone, Job
<1>15. Log'
  <2>1. 0 + Valid = Valid /\ \A i \in 1..Valid : 0 + i = i
    BY <1>3
  <2>2. walFrom' + Valid' <= Len(hist')
    BY <1>1, <1>3, <1>4, <1>7, <2>1
  <2>3. \A i \in 1..Valid' : /\ wal'[i].coll = hist'[walFrom' + i].coll
                            /\ wal'[i].upd = hist'[walFrom' + i].upd
    BY <1>1, <1>4, <1>7, <2>1
  <2>4. \A i \in (walFrom' + 1)..Len(hist') : hist'[i].failed = FALSE
    <3>1. \A i \in (0 + 1)..Valid : i \in 1..Valid
      BY <1>3
    <3> QED
      BY <1>1, <1>7, <3>1
  <2>5. Len(hist') <= walFrom' + Len(wal') /\ Len(hist') = walFrom' + Valid'
    BY <1>1, <1>3, <1>4, <1>7, <2>1
  <2>6. walFrom' < Len(hist') => Len(hist') \in (walFrom' + 1)..Len(hist')
    BY <1>1, <1>3, <1>7
  <2> QED
    BY <2>2, <2>3, <2>4, <2>5, <2>6 DEF Log
<1>16. Appends' /\ Jobs'
  BY <1>2 DEF Appends, Jobs
<1>17. Written'
  <2>1. 0 <= walFrom' + Valid' /\ 0 <= settled'
    BY <1>1, <1>3, <1>4, <1>5
  <2> QED
    BY <1>2, <2>1 DEF Written
<1>18. Promises'
  <2>1. acked' <= walFrom' + Valid' /\ settled' <= walFrom' + Valid' /\ settled' <= walFrom' + flushed'
    BY <1>1, <1>3, <1>4, <1>5, <1>11
  <2>2. Durability = "Full" => acked' <= settled'
    BY <1>5
  <2> QED
    BY <2>1, <2>2 DEF Promises
<1>19. File'
  <2>1. PICK k \in Nat : /\ walFrom <= k /\ k <= walFrom + Valid
                         /\ TocState = AfterOf(start, hist, k, FailedOf(hist, walFrom))
    BY TocIs
  <2>2. walFrom \in Nat
    BY Sizes
  <2>3. PICK n \in Nat : n <= Valid /\ k = walFrom + n
    <3>1. k - walFrom \in Nat /\ k - walFrom <= Valid /\ k = walFrom + (k - walFrom)
      BY <1>3, <2>1, <2>2
    <3> QED
      BY <3>1
  <2>4. FailedOf(hist', n) = {} /\ TocState = AfterOf(start', hist', n, {})
    BY <2>1, <2>3, OpenedAfter
  <2>5. n \in walFrom'..(walFrom' + Valid')
    BY <1>1, <1>3, <1>4, <2>3
  <2>6. ~Cut'
    <3>1. ~(Len(wal') < Len(hist') - walFrom')
      BY <1>1, <1>3, <1>7
    <3> QED
      BY <3>1 DEF Cut
  <2>7. TocState' = TocState /\ TocReadable'
    BY <1>1 DEF IInv, File, TocState, TocReadable
  <2>8. TocState' = AfterOf(start', hist', n, FailedOf(hist', n))
    BY <2>4, <2>7
  <2> QED
    BY <1>2, <2>5, <2>6, <2>7, <2>8 DEF File
<1>20. Memory'
  <2>1. InFlight' = {}
    BY <1>2 DEF InFlight
  <2>2. FailedOf(hist', Len(hist')) \cup InFlight' = {}
    BY <1>7, <1>9, <2>1
  <2>3. mem' = AfterOf(start', hist', Len(hist'), FailedOf(hist', Len(hist')) \cup InFlight')
    BY <1>7, <1>9, <2>2
  <2> QED
    BY <2>3 DEF Memory
<1>21. Clean'
  <2>1. ASSUME NEW c \in Coll, CleanReuse(c)' # NoRef
        PROVE  CleanReuse(c)' = Ref(epoch', mem'[c])
    <3>1. ~dirty'[c]
      BY <2>1 DEF CleanReuse
    <3>2. CleanReuse(c)' = toc[c]
      BY <1>1, <2>1, <3>1 DEF CleanReuse
    <3>3. toc[c] = Ref(epoch, mem'[c])
      BY <3>1, OpenedClean
    <3> QED
      BY <1>1, <3>2, <3>3
  <2> QED
    BY <2>1 DEF Clean
<1>22. Dirty'
  <2>1. wal = <<>> => Valid = 0
    BY EmptyPrefix DEF Valid
  <2>2. wal = <<>> => \A c \in Coll : ~dirty'[c]
    <3>1. dirty' = [c \in Coll |-> \E i \in 1..Len(Replayed(wal)) :
              /\ Replayed(wal)[i].coll = c
              /\ Touches(ApplyAll(TocState, SubSeq(Replayed(wal), 1, i - 1))[c], Replayed(wal)[i].upd)]
      BY DEF Open
    <3>2. Len(Replayed(wal)) = 0 => 1..Len(Replayed(wal)) = {}
      OBVIOUS
    <3> QED
      BY <1>3, <2>1, <3>1, <3>2
  <2> QED
    BY <1>1, <2>2 DEF Dirty
<1>23. Sequence'
  BY <1>1, <1>4, <1>6 DEF IInv, Sequence
<1> QED
  BY <1>12, <1>13, <1>14, <1>15, <1>16, <1>17, <1>18, <1>19, <1>20, <1>21, <1>22, <1>23 DEF IInv

(* Nothing happens.                                                         *)
LEMMA StutterStep ==
    ASSUME StoreAssumption, IInv, UNCHANGED vars
    PROVE  IInv'
<1>1. /\ UNCHANGED <<toc, epoch, wal, flushed, nextSeq, lock, up, closing, mem, dirty, sealed>>
      /\ UNCHANGED <<base, pc, op, snap, todo, start, hist, acked, settled, walFrom, count>>
  BY DEF vars
<1>2. Valid' = Valid /\ TocState' = TocState /\ InFlight' = InFlight
  BY <1>1 DEF Valid, TocState, InFlight
<1>3. Typing' /\ Bounds' /\ Alone'
  BY <1>1 DEF IInv, Typing, Bounds, Alone
<1>4. Log' /\ Appends' /\ Promises'
  BY <1>1, <1>2 DEF IInv, Log, Appends, Promises
<1>5. Written'
  BY <1>1, <1>2 DEF IInv, Written
<1>6. File'
  BY <1>1, <1>2 DEF IInv, File, TocReadable, Cut
<1>7. Memory'
  BY <1>1, <1>2 DEF IInv, Memory
<1>8. Jobs'
  BY <1>1 DEF IInv, Jobs, CleanReuse, Unreferenced
<1>9. Clean'
  BY <1>1 DEF IInv, Clean, CleanReuse
<1>10. Dirty'
  BY <1>1 DEF IInv, Dirty, Unreferenced
<1>11. Sequence'
  BY <1>1, <1>2 DEF IInv, Sequence
<1> QED
  BY <1>3, <1>4, <1>5, <1>6, <1>7, <1>8, <1>9, <1>10, <1>11 DEF IInv

(* What is noted stays noted.                                               *)
LEMMA Monotone ==
    ASSUME [Next]_vars, NoMishap'
    PROVE  NoMishap
<1> SUFFICES mishaps \subseteq mishaps' /\ reordered \subseteq reordered'
  BY DEF NoMishap
<1>1. ASSUME NEW t \in Thread,
             \/ \E c \in Coll, u \in Updates : LogWrite(t, c, u)
             \/ Apply(t) \/ AfterWrite(t) \/ CallCheckpoint(t) \/ CallVacuum(t)
             \/ \E c \in Coll : MarkSealed(t, c)
      PROVE  mishaps \subseteq mishaps' /\ reordered \subseteq reordered'
  BY <1>1 DEF LogWrite, Apply, AfterWrite, CallCheckpoint, CallVacuum, MarkSealed, NoteBeside, Note
<1>2. ASSUME NEW t \in Thread,
             \/ LogDone(t) \/ LogError(t) \/ Close(t) \/ CommitNothing(t) \/ Commit(t)
             \/ CommitError(t) \/ Truncate(t) \/ TruncateError(t) \/ CheckpointDone(t)
             \/ SwapFile(t) \/ VacuumDone(t)
             \/ \E c \in Coll : SealCollection(t, c) \/ Compact(t, c) \/ SealFresh(t, c)
      PROVE  mishaps \subseteq mishaps' /\ reordered \subseteq reordered'
  BY <1>2 DEF LogDone, LogError, Close, CommitNothing, Commit, CommitError, Truncate, TruncateError,
     CheckpointDone, SwapFile, VacuumDone, SealCollection, Compact, SealFresh, noteVars
<1>3. CASE Kill \/ PowerLoss \/ Open \/ Finished \/ UNCHANGED vars
  BY <1>3 DEF Kill, PowerLoss, ProcessGone, Open, Finished, Note, noteVars, vars
<1> QED
  BY <1>1, <1>2, <1>3 DEF Next

(* Every step.                                                              *)
LEMMA NextStep ==
    ASSUME StoreAssumption, NoMishap', IInv, [Next]_vars
    PROVE  IInv'
<1>1. ASSUME NEW t \in Thread, NEW c \in Coll, NEW u \in Updates, LogWrite(t, c, u)
      PROVE  IInv'
  BY <1>1, LogWriteStep
<1>2. ASSUME NEW t \in Thread, LogDone(t)
      PROVE  IInv'
  BY <1>2, LogDoneStep
<1>3. ASSUME NEW t \in Thread, LogError(t)
      PROVE  IInv'
  BY <1>3, LogErrorStep
<1>4. ASSUME NEW t \in Thread, Apply(t)
      PROVE  IInv'
  BY <1>4, ApplyStep
<1>5. ASSUME NEW t \in Thread, AfterWrite(t)
      PROVE  IInv'
  BY <1>5, AfterWriteStep
<1>6. ASSUME NEW t \in Thread, CallCheckpoint(t) \/ Close(t) \/ CallVacuum(t)
      PROVE  IInv'
  BY <1>6, BeginStep
<1>7. ASSUME NEW t \in Thread, CommitNothing(t) \/ Commit(t)
      PROVE  IInv'
  BY <1>7, CommitStep
<1>8. ASSUME NEW t \in Thread, CommitError(t) \/ TruncateError(t) \/ VacuumDone(t)
      PROVE  IInv'
  BY <1>8, EndStep
<1>9. ASSUME NEW t \in Thread, Truncate(t)
      PROVE  IInv'
  BY <1>9, TruncateStep
<1>10. ASSUME NEW t \in Thread, CheckpointDone(t)
       PROVE  IInv'
  BY <1>10, DoneStep
<1>11. ASSUME NEW t \in Thread, SwapFile(t)
       PROVE  IInv'
  BY <1>11, SwapStep
<1>12. ASSUME NEW t \in Thread, NEW c \in Coll, SealCollection(t, c) \/ SealFresh(t, c)
       PROVE  IInv'
  BY <1>12, SealStep
<1>13. ASSUME NEW t \in Thread, NEW c \in Coll, MarkSealed(t, c)
       PROVE  IInv'
  BY <1>13, MarkStep
<1>14. ASSUME NEW t \in Thread, NEW c \in Coll, Compact(t, c)
       PROVE  IInv'
  BY <1>14, CompactStep
<1>15. CASE Kill \/ PowerLoss \/ Open
  BY <1>15, KillStep, PowerLossStep, OpenStep
<1>16. CASE Finished \/ UNCHANGED vars
  BY <1>16, StutterStep DEF Finished
<1> QED
  BY <1>1, <1>2, <1>3, <1>4, <1>5, <1>6, <1>7, <1>8, <1>9, <1>10, <1>11, <1>12, <1>13, <1>14,
     <1>15, <1>16 DEF Next

-----------------------------------------------------------------------------
(* The theorems.                                                            *)

(* Until the first mishap the inductive invariant holds: what the code      *)
(* relies on between the WAL, the file, the memory and the bookkeeping of a *)
(* checkpoint is never out of step, through writes of any number of threads,*)
(* checkpoints, vacuums, failed calls, crashes and recoveries.              *)
THEOREM Invariance == Spec => [](NoMishap => IInv)
<1>1. Init => IInv
  BY StoreAssumption, InitIInv
<1>2. IInv /\ NoMishap' /\ [Next]_vars => IInv'
  BY StoreAssumption, NextStep
<1>3. NoMishap' /\ [Next]_vars => NoMishap
  BY Monotone
<1> QED
  BY <1>1, <1>2, <1>3, PTL DEF Spec

(* Every variable keeps its shape.                                          *)
LEMMA Shapes ==
    ASSUME IInv, NoMishap
    PROVE  TypeOK
  BY DEF IInv, Typing, WalType, TypeOK, Labels, Job, NoMishap

(* As long as no mishap happens every variable keeps its shape.             *)
THEOREM Types == Spec => [](NoMishap => TypeOK)
<1>1. IInv /\ NoMishap => TypeOK
  BY Shapes
<1> QED
  BY <1>1, Invariance, PTL

(* Until the first mishap, were the process to end in any state, the next   *)
(* open would recover every acknowledged write, in WAL order, plus at most  *)
(* writes already in the WAL (SPEC-003 section 4).                          *)
THEOREM Recovery == Spec => []RecoveryIsPrefix
<1>1. ASSUME IInv
      PROVE  AckedSurvive
  <2>1. Recovered = After(walFrom + Valid, FailedOf(hist, walFrom))
    BY <1>1, StoreAssumption, RecoveredIs, AfterIs
  <2>2. /\ walFrom \in Nat /\ Valid \in Nat /\ Len(hist) \in Nat /\ acked \in Nat
        /\ acked <= walFrom + Valid /\ walFrom + Valid <= Len(hist)
    <3>1. Valid \in Nat
      BY <1>1, StoreAssumption, Sizes
    <3> QED
      BY <1>1, <3>1, StoreAssumption, Sizes DEF IInv, Promises
  <2>3. PICK n \in Nat : n = walFrom + Valid
    BY <2>2, Above
  <2>4. n \in acked..Len(hist) /\ \A i \in 1..walFrom : i \in 1..n
    BY <2>2, <2>3
  <2>5. FailedOf(hist, walFrom) \in SUBSET Failed(n)
    BY <2>4 DEF FailedOf, Failed
  <2>6. Recovered = After(n, FailedOf(hist, walFrom))
    BY <2>1, <2>3
  <2>7. Recovered \in HistoryStates
    BY <2>4, <2>5, <2>6 DEF HistoryStates
  <2> QED
    BY <1>1, <2>7 DEF AckedSurvive, IInv, File
<1>2. (NoMishap => IInv) => RecoveryIsPrefix
  BY <1>1 DEF RecoveryIsPrefix
<1> QED
  BY <1>2, Invariance, PTL

(* Two writers of one collection may meet between journal and data lock.    *)
(* Unless one of them is applied behind a write that was logged after it    *)
(* and sets an id of it, the open collections hold, with no write in        *)
(* flight, what replaying every logged write would build (CORE-051).        *)
THEOREM MemoryIsLog == Spec => [](reordered = {} => MemoryMatchesLog)
<1>1. ASSUME IInv, up, InFlight = {}
      PROVE  mem = After(Len(hist), Failed(Len(hist)))
  <2>2. mem = AfterOf(start, hist, Len(hist), FailedOf(hist, Len(hist)) \cup InFlight)
    BY <1>1 DEF IInv, Memory
  <2>3. FailedOf(hist, Len(hist)) \cup {} = FailedOf(hist, Len(hist))
    OBVIOUS
  <2> QED
    BY <1>1, <2>2, <2>3, AfterIs
<1>2. IInv => Diverged = {}
  BY <1>1 DEF Diverged
<1>3. (NoMishap => IInv) => (reordered = {} => MemoryMatchesLog)
  BY <1>2 DEF MemoryMatchesLog, NoMishap
<1> QED
  BY <1>3, Invariance, PTL

(* Until the first mishap what the next checkpoint would carry forward of a *)
(* collection leads to exactly its points, in the file the path names, on   *)
(* either tier.                                                             *)
THEOREM CleanIsFile == Spec => [](NoMishap => CleanMatchesFile)
<1>1. IInv /\ ~closing => CleanInSync
  BY DEF IInv, Clean, CleanInSync
<1>2. (NoMishap => IInv) => (NoMishap => CleanMatchesFile)
  BY <1>1, Shapes DEF CleanMatchesFile
<1> QED
  BY <1>2, Invariance, PTL

(* Until the first mishap, as long as no call has failed and replay accepts *)
(* what the WAL holds, every append continues the sequence (WAL-010).       *)
THEOREM AppendsReplayable == Spec => [](NoMishap => NextEntryReplayable)
<1>1. ASSUME IInv
      PROVE  NextEntryReplayable
  <2>1. Replayed(wal) = wal => Valid = Len(wal)
    BY DEF Valid
  <2> QED
    BY <1>1, <2>1 DEF IInv, Sequence, NextEntryReplayable
<1>2. (NoMishap => IInv) => (NoMishap => NextEntryReplayable)
  BY <1>1
<1> QED
  BY <1>2, Invariance, PTL

(* Only a commit leaves the sealing of a checkpoint for its truncation.     *)
LEMMA OnlyCommit ==
    ASSUME StoreAssumption, IInv, [Next]_vars,
           NEW t \in Thread, pc[t] = "seal", pc'[t] = "truncate"
    PROVE  Commit(t)
<1>0. pc \in [Thread -> Labels]
  BY DEF IInv, Typing
<1>1. ASSUME NEW s \in Thread, NEW from, NEW to, Goto(s, from, to), s # t \/ from # "seal" \/ to # "truncate"
      PROVE  FALSE
  BY <1>0, <1>1 DEF Goto
<1>2. ASSUME NEW s \in Thread, NEW c \in Coll, NEW u \in Updates, LogWrite(s, c, u)
      PROVE  FALSE
  BY <1>1, <1>2 DEF LogWrite
<1>3. ASSUME NEW s \in Thread, LogDone(s) \/ LogError(s) \/ Apply(s) \/ AfterWrite(s)
      PROVE  FALSE
  BY <1>1, <1>3 DEF LogDone, LogError, Apply, AfterWrite
<1>4. ASSUME NEW s \in Thread, CallCheckpoint(s) \/ Close(s) \/ CommitNothing(s)
                               \/ Truncate(s) \/ CallVacuum(s) \/ SwapFile(s)
      PROVE  FALSE
  BY <1>1, <1>4 DEF CallCheckpoint, Close, CommitNothing, Truncate, CallVacuum, SwapFile
<1>5. ASSUME NEW s \in Thread, CommitError(s) \/ TruncateError(s) \/ CheckpointDone(s) \/ VacuumDone(s)
      PROVE  FALSE
  BY <1>0, <1>5 DEF CommitError, TruncateError, CheckpointDone, VacuumDone, Return
<1>6. ASSUME NEW s \in Thread, NEW c \in Coll,
             SealCollection(s, c) \/ MarkSealed(s, c) \/ Compact(s, c) \/ SealFresh(s, c)
      PROVE  FALSE
  BY <1>1, <1>6 DEF SealCollection, MarkSealed, Compact, SealFresh
<1>7. CASE Kill \/ PowerLoss \/ Open \/ Finished \/ UNCHANGED vars
  BY <1>7 DEF Kill, PowerLoss, ProcessGone, Open, Finished, vars, jobVars
<1>8. ASSUME NEW s \in Thread, Commit(s)
      PROVE  s = t
  BY <1>1, <1>8 DEF Commit
<1> QED
  BY <1>2, <1>3, <1>4, <1>5, <1>6, <1>7, <1>8 DEF Next

(* As long as no call has failed and no mishap happened, a commit into the  *)
(* same file happens only with a write pending in the WAL, or for a         *)
(* collection without references to carry forward (STG-052).                *)
THEOREM IdleCheckpoint == Spec => IdleCheckpointWritesNothing
<1> DEFINE Quiet ==
        NoMishap' /\ count.errors = 0 => \A t \in Thread : pc[t] = "seal" /\ pc'[t] = "truncate" =>
           wal # <<>> \/ \E c \in Coll : sealed[c] = NoRef /\ base[c] = NoRef
<1>1. ASSUME IInv, [Next]_vars, count.errors = 0,
             NEW t \in Thread, pc[t] = "seal", pc'[t] = "truncate", wal = <<>>
      PROVE  \E c \in Coll : sealed[c] = NoRef /\ base[c] = NoRef
  <2>1. Commit(t)
    BY <1>1, StoreAssumption, OnlyCommit
  <2>2. PICK c \in Coll : snap[t][c].epoch = 0
    BY <1>1, <2>1 DEF Commit, AllReused
  <2>3. CleanReuse(c) = NoRef
    BY <1>1, <2>1, <2>2 DEF IInv, Jobs, Commit
  <2>4. /\ up
        /\ \A s \in Thread : pc[s] # "mark"
    <3>1. \A s \in Thread : s = t \/ pc[s] = "idle"
      BY <1>1 DEF IInv, Alone, Job
    <3> QED
      BY <1>1, <3>1 DEF IInv, Alone
  <2>5. dirty[c] => sealed[c] = NoRef /\ base[c] = NoRef
    BY <1>1, <2>4 DEF IInv, Dirty, Unreferenced
  <2>6. ~dirty[c] => sealed[c] = NoRef /\ base[c] = NoRef
    BY <2>3 DEF CleanReuse
  <2> QED
    BY <2>5, <2>6
<1>2. (NoMishap => IInv) /\ [Next]_vars => Quiet
  BY <1>1, Monotone
<1>3. (NoMishap => IInv) /\ [Next]_vars => [Quiet]_vars
  BY <1>2
<1> QED
  BY <1>3, Invariance, PTL DEF Spec, IdleCheckpointWritesNothing, Quiet

-----------------------------------------------------------------------------
(* The durable store of Durable.                                            *)

(* The possible values, now and after a step, by number of writes and       *)
(* failed writes among them.                                                *)
LEMMA InHistory ==
    /\ \A v : v \in HistoryStates <=>
          \E n \in acked..Len(hist) : \E S \in SUBSET FailedOf(hist, n) : v = AfterOf(start, hist, n, S)
    /\ \A v : v \in HistoryStates' <=>
          \E n \in acked'..Len(hist') : \E S \in SUBSET FailedOf(hist', n) : v = AfterOf(start', hist', n, S)
<1>1. /\ \A n, S : After(n, S) = AfterOf(start, hist, n, S)
      /\ \A n : Failed(n) = FailedOf(hist, n)
  BY AfterIs
<1>2. /\ \A n, S : After(n, S)' = AfterOf(start', hist', n, S)
      /\ \A n : Failed(n)' = FailedOf(hist', n)
  BY DEF After, Kept, Failed, AfterOf, KeptOf, FailedOf
<1>3. \A v : v \in HistoryStates <=> \E n \in acked..Len(hist) : \E S \in SUBSET Failed(n) : v = After(n, S)
  BY DEF HistoryStates
<1>4. \A v : v \in HistoryStates' <=>
         \E n \in acked'..Len(hist') : \E S \in SUBSET Failed(n)' : v = After(n, S)'
  BY DEF HistoryStates
<1>5. \A v : v \in HistoryStates <=>
         \E n \in acked..Len(hist) : \E S \in SUBSET FailedOf(hist, n) : v = AfterOf(start, hist, n, S)
  BY <1>1, <1>3
<1>6. \A v : v \in HistoryStates' <=>
         \E n \in acked'..Len(hist') : \E S \in SUBSET FailedOf(hist', n) : v = AfterOf(start', hist', n, S)
  BY <1>2, <1>4
<1> QED
  BY <1>5, <1>6

(* What the invariant says of them.                                         *)
LEMMA Serves ==
    ASSUME StoreAssumption, IInv
    PROVE  Served = Recovered /\ Recovered \in HistoryStates
<1>1. Served = Recovered
  BY DEF IInv, File, Served
<1>2. Recovered \in HistoryStates
  <2>1. Recovered = AfterOf(start, hist, walFrom + Valid, FailedOf(hist, walFrom))
    BY RecoveredIs
  <2>2. /\ walFrom \in Nat /\ Valid \in Nat /\ Len(hist) \in Nat /\ acked \in Nat
        /\ acked <= walFrom + Valid /\ walFrom + Valid <= Len(hist)
    <3>1. Valid \in Nat
      BY Sizes
    <3> QED
      BY <3>1, Sizes DEF IInv, Promises
  <2>3. PICK n \in Nat : n = walFrom + Valid
    BY <2>2, Above
  <2>4. n \in acked..Len(hist) /\ \A i \in 1..walFrom : i \in 1..n
    BY <2>2, <2>3
  <2>5. FailedOf(hist, walFrom) \in SUBSET FailedOf(hist, n)
    BY <2>4 DEF FailedOf
  <2> QED
    BY <2>1, <2>3, <2>4, <2>5, InHistory
<1> QED
  BY <1>1, <1>2

(* The same after a step.                                                   *)
LEMMA ServesNext ==
    ASSUME StoreAssumption
    PROVE  (IInv => /\ Served = Recovered /\ Recovered \in HistoryStates
                    /\ Recovered = AfterOf(start, hist, walFrom + Valid, FailedOf(hist, walFrom)))'
<1>1. IInv => /\ Served = Recovered /\ Recovered \in HistoryStates
              /\ Recovered = AfterOf(start, hist, walFrom + Valid, FailedOf(hist, walFrom))
  BY Serves, RecoveredIs
<1> QED
  BY <1>1, PTL

(* A step after which no more is possible than before.                      *)
LEMMA SettleIs ==
    ASSUME StoreAssumption, IInv', HistoryStates' \subseteq HistoryStates
    PROVE  D!Settle
<1>1. Served' \in HistoryStates'
  BY ServesNext
<1> QED
  BY <1>1 DEF D!Settle, Served

(* Promises only exclude values.                                            *)
LEMMA PromisedIs ==
    ASSUME StoreAssumption, IInv, IInv', UNCHANGED <<start, hist>>, acked <= acked'
    PROVE  HistoryStates' \subseteq HistoryStates
<1>1. acked \in Nat /\ acked' \in Nat /\ Len(hist) \in Nat
  <2>1. acked' \in 0..Len(hist')
    BY DEF IInv, Typing
  <2>2. acked' \in Nat
    BY <2>1
  <2> QED
    BY <2>2, Sizes
<1>2. \A n \in acked'..Len(hist) : n \in acked..Len(hist)
  BY <1>1
<1>3. ASSUME NEW v, v \in HistoryStates'
      PROVE  v \in HistoryStates
  <2>1. PICK n \in acked'..Len(hist) : \E S \in SUBSET FailedOf(hist, n) : v = AfterOf(start, hist, n, S)
    BY <1>3, InHistory
  <2> QED
    BY <1>2, <2>1, InHistory
<1> QED
  BY <1>3

(* A failed append only adds that the write may count or not.               *)
LEMMA ErrorSettles ==
    ASSUME StoreAssumption, IInv, NEW t \in Thread, LogError(t)
    PROVE  HistoryStates' \subseteq HistoryStates
<1>1. /\ pc[t] = "sync" /\ hist' = [hist EXCEPT ![op[t].idx].failed = TRUE]
      /\ start' = start /\ acked' = acked
  BY DEF LogError, Goto
<1>2. /\ Len(hist) \in Nat /\ acked \in Nat /\ acked < Len(hist) /\ op[t].idx = Len(hist)
  BY <1>1, InAppend
<1>3. hist \in Seq(HistEntry) /\ start \in States
  BY DEF IInv, Typing
<1> DEFINE m == Len(hist)
           e == [hist[m] EXCEPT !.failed = TRUE]
<1>4. m \in 1..m /\ hist[m] \in HistEntry
  BY <1>2, <1>3
<1>5. e \in HistEntry /\ e.coll = hist[m].coll /\ e.upd = hist[m].upd
  BY <1>4 DEF HistEntry
<1>6. hist' = [hist EXCEPT ![m] = e]
  BY <1>1, <1>2
<1> HIDE DEF e
<1>7. /\ hist' \in Seq(HistEntry) /\ Len(hist') = m
      /\ \A i \in 1..m : hist'[i] = IF i = m THEN e ELSE hist[i]
  BY <1>3, <1>4, <1>5, <1>6
<1>8. \A n \in 0..m : SameTo(hist', hist, n)
  <2> SUFFICES ASSUME NEW n \in 0..m, NEW i \in 1..n
               PROVE  hist'[i].coll = hist[i].coll /\ hist'[i].upd = hist[i].upd
    BY DEF SameTo
  <2>1. i \in 1..m
    BY <1>2
  <2> QED
    BY <1>5, <1>7, <2>1
<1> HIDE DEF m
<1>9. m \in Nat /\ acked \in Nat /\ acked < m
  BY <1>2 DEF m
<1> SUFFICES ASSUME NEW v, v \in HistoryStates' PROVE v \in HistoryStates
  OBVIOUS
<1>10. PICK n \in acked..m : \E S \in SUBSET FailedOf(hist', n) : v = AfterOf(start, hist', n, S)
  <2>1. \E n \in acked'..Len(hist') :
           \E S \in SUBSET FailedOf(hist', n) : v = AfterOf(start', hist', n, S)
    BY InHistory
  <2>2. start' = start /\ acked' = acked /\ Len(hist') = m
    BY <1>1, <1>7
  <2> QED
    BY <2>1, <2>2
<1>11. PICK S \in SUBSET FailedOf(hist', n) : v = AfterOf(start, hist', n, S)
  BY <1>10
<1>12. n \in Nat /\ n \in 0..m /\ n <= m /\ acked <= n
  BY <1>9, <1>10
<1>13. v = AfterOf(start, hist, n, S)
  <2>1. SameTo(hist', hist, n) /\ n \in 0..Len(hist') /\ n <= Len(hist)
    BY <1>7, <1>8, <1>12 DEF m
  <2>2. AfterOf(start, hist', n, S) = AfterOf(start, hist, n, S)
    BY <1>3, <1>7, <2>1, AfterSame
  <2> QED
    BY <1>11, <2>2
<1>14. CASE ~(n = m /\ m \in S)
  <2>1. S \in SUBSET FailedOf(hist, n)
    <3>1. \A i \in 1..n : i \in 1..m
      BY <1>9, <1>12
    <3>2. \A i \in S : i \in 1..n /\ i # m
      <4>1. \A i \in S : i \in 1..n
        BY DEF FailedOf
      <4>2. \A i \in 1..n : n # m => i # m
        BY <1>9, <1>12
      <4> QED
        BY <1>14, <4>1, <4>2
    <3>3. \A i \in S : hist'[i].failed /\ hist'[i] = hist[i]
      BY <1>7, <3>1, <3>2 DEF FailedOf
    <3> QED
      BY <3>2, <3>3 DEF FailedOf
  <2>2. n \in acked..Len(hist)
    BY <1>10 DEF m
  <2> QED
    BY <1>13, <2>1, <2>2, InHistory
<1>15. CASE n = m /\ m \in S
  <2>1. PICK j \in Nat : n = j + 1
    <3>1. n - 1 \in Nat /\ n = (n - 1) + 1
      BY <1>9, <1>12, <1>15
    <3> QED
      BY <3>1
  <2> DEFINE T == S \ {m}
  <2>2. j \in 0..Len(hist) /\ j < Len(hist) /\ j \in acked..Len(hist) /\ j \in Nat
    BY <1>9, <1>12, <1>15, <2>1 DEF m
  <2>3. AfterOf(start, hist, j + 1, S) = AfterOf(start, hist, j, S)
    <3>1. j + 1 \in S
      BY <1>15, <2>1
    <3> QED
      BY <1>3, <2>2, <3>1, AfterNext
  <2>4. AfterOf(start, hist, j, S) = AfterOf(start, hist, j, T)
    <3>1. \A i \in 1..j : i \in S <=> i \in T
      <4>1. \A i \in 1..j : i # m
        BY <1>9, <1>15, <2>1
      <4> QED
        BY <4>1
    <3>2. SameTo(hist, hist, j) /\ j <= Len(hist)
      BY <2>2 DEF SameTo
    <3> HIDE DEF T
    <3> QED
      BY <1>3, <2>2, <3>1, <3>2, AfterSame
  <2>5. T \in SUBSET FailedOf(hist, j)
    <3>1. \A i \in T : i \in 1..n /\ i # m /\ hist'[i].failed
      BY DEF FailedOf
    <3>2. \A i \in 1..n : i # m => i \in 1..j /\ i \in 1..m
      <4>1. \A i \in 1..(j + 1) : i # j + 1 => i \in 1..j /\ i \in 1..(j + 1)
        OBVIOUS
      <4> QED
        BY <1>15, <2>1, <4>1
    <3>3. \A i \in T : i \in 1..j /\ hist'[i] = hist[i]
      BY <1>7, <3>1, <3>2
    <3> QED
      BY <3>1, <3>3 DEF FailedOf
  <2>6. v = AfterOf(start, hist, j, T)
    BY <1>13, <2>1, <2>3, <2>4
  <2> HIDE DEF T
  <2> QED
    BY <2>2, <2>5, <2>6, InHistory
<1> QED
  BY <1>14, <1>15

(* Opening the database makes possible what already was, no more.           *)
LEMMA OpenSettles ==
    ASSUME StoreAssumption, Durability = "Full", IInv, Open
    PROVE  HistoryStates' \subseteq HistoryStates
<1>1. /\ hist' \in Seq(HistEntry) /\ Len(hist') = Valid /\ start' \in States
  BY OpenedHistory
<1>2. /\ Valid \in Nat /\ walFrom \in Nat /\ Len(hist) \in Nat /\ acked \in Nat /\ flushed \in Nat
      /\ walFrom + Valid <= Len(hist) /\ acked <= walFrom + Valid /\ settled \in Nat
      /\ settled <= walFrom + flushed /\ acked <= settled
  <2>1. Valid \in Nat
    BY Sizes
  <2> QED
    BY <2>1, Sizes DEF IInv, Promises
<1>3. acked' = IF flushed < Valid THEN flushed ELSE Valid
  BY DEF Open, Valid
<1>4. acked' \in Nat /\ acked <= walFrom + acked'
  BY <1>2, <1>3
<1> SUFFICES ASSUME NEW v, v \in HistoryStates' PROVE v \in HistoryStates
  OBVIOUS
<1>5. PICK n \in acked'..Valid : \E S \in SUBSET FailedOf(hist', n) : v = AfterOf(start', hist', n, S)
  BY <1>1, InHistory
<1>6. n \in Nat /\ n <= Valid /\ acked' <= n
  BY <1>2, <1>4, <1>5
<1>7. /\ FailedOf(hist', n) = {}
      /\ AfterOf(start', hist', n, {}) = AfterOf(start, hist, walFrom + n, FailedOf(hist, walFrom))
  BY <1>6, OpenedAfter
<1>8. v = AfterOf(start, hist, walFrom + n, FailedOf(hist, walFrom))
  BY <1>5, <1>7
<1>9. PICK k \in Nat : k = walFrom + n
  BY <1>2, <1>6, Above
<1>10. k \in acked..Len(hist) /\ \A i \in 1..walFrom : i \in 1..k
  <2>1. acked <= k
    BY <1>2, <1>4, <1>6, <1>9, Wider
  <2>2. k <= Len(hist)
    BY <1>2, <1>6, <1>9, Wider
  <2>3. \A a, b, i \in Nat : i <= a => i <= a + b
    OBVIOUS
  <2>4. \A i \in 1..walFrom : i \in Nat /\ 1 <= i /\ i <= walFrom
    BY <1>2
  <2>5. \A i \in 1..walFrom : 1 <= i /\ i <= k
    BY <1>2, <1>6, <1>9, <2>3, <2>4
  <2> QED
    BY <1>2, <1>9, <2>1, <2>2, <2>5
<1>11. FailedOf(hist, walFrom) \in SUBSET FailedOf(hist, k)
  BY <1>10 DEF FailedOf
<1> QED
  BY <1>8, <1>9, <1>10, <1>11, InHistory

(* A logged write is a write of the durable store.                          *)
LEMMA WriteIs ==
    ASSUME StoreAssumption, NoMishap', IInv, IInv', NEW t \in Thread, NEW c \in Coll,
           NEW u \in Updates, LogWrite(t, c, u)
    PROVE  D!Write(<<c, u>>)
<1>1. /\ Valid = Len(wal) /\ Len(hist) = walFrom + Len(wal) /\ Valid' = Len(wal) + 1
      /\ \A i \in (walFrom + 1)..Len(hist) : ~hist[i].failed
      /\ hist' \in Seq(HistEntry) /\ Len(hist') = Len(hist) + 1
      /\ \A i \in 1..Len(hist) : hist'[i] = hist[i]
      /\ hist'[Len(hist')] = [coll |-> c, upd |-> u, failed |-> FALSE]
  BY AppendedIs
<1>2. start' = start /\ acked' = acked /\ walFrom' = walFrom
  BY DEF LogWrite
<1>3. hist \in Seq(HistEntry) /\ start \in States
  BY DEF IInv, Typing
<1>4. /\ Len(hist) \in Nat /\ walFrom \in Nat /\ acked \in Nat /\ Len(wal) \in Nat
      /\ acked <= Len(hist) /\ walFrom <= Len(hist)
  <2>1. acked \in 0..Len(hist) /\ walFrom \in 0..Len(hist)
    BY DEF IInv, Typing
  <2> QED
    BY <2>1, Sizes
<1> DEFINE m == Len(hist)
           F == FailedOf(hist, walFrom)
<1>5. /\ m \in Nat /\ m \in 0..Len(hist') /\ m < Len(hist') /\ m + 1 = Len(hist')
      /\ m \in 0..Len(hist) /\ m <= Len(hist) /\ m \in acked..m /\ m + 1 \notin 1..m
  BY <1>1, <1>4, SMTT(30)
<1>6. hist'[m + 1].coll = c /\ hist'[m + 1].upd = u /\ hist'[m + 1].failed = FALSE
  BY <1>1
<1>7. \A n \in 0..m : SameTo(hist', hist, n) /\ FailedOf(hist', n) = FailedOf(hist, n)
  <2> SUFFICES ASSUME NEW n \in 0..m
               PROVE  SameTo(hist', hist, n) /\ FailedOf(hist', n) = FailedOf(hist, n)
    OBVIOUS
  <2>1. \A i \in 1..n : i \in 1..m
    BY <1>5
  <2>2. \A i \in 1..n : hist'[i] = hist[i]
    BY <1>1, <2>1
  <2> QED
    BY <2>2 DEF SameTo, FailedOf
<1>8. \A n \in 0..m : \A S : AfterOf(start, hist', n, S) = AfterOf(start, hist, n, S)
  <2> SUFFICES ASSUME NEW n \in 0..m, NEW S
               PROVE  AfterOf(start, hist', n, S) = AfterOf(start, hist, n, S)
    OBVIOUS
  <2>1. n \in 0..Len(hist') /\ n <= Len(hist) /\ SameTo(hist', hist, n)
    BY <1>5, <1>7
  <2> QED
    BY <1>1, <1>3, <2>1, AfterSame, SMTT(30)
<1>9. \A S : m + 1 \notin S =>
         AfterOf(start, hist', m + 1, S) = ApplyTo(AfterOf(start, hist, m, S), c, u)
  <2> SUFFICES ASSUME NEW S, m + 1 \notin S
               PROVE  AfterOf(start, hist', m + 1, S) = ApplyTo(AfterOf(start, hist, m, S), c, u)
    OBVIOUS
  <2>1. AfterOf(start, hist', m + 1, S)
           = ApplyTo(AfterOf(start, hist', m, S), hist'[m + 1].coll, hist'[m + 1].upd)
    <3> HIDE DEF m
    <3> QED
      BY <1>1, <1>3, <1>5, AfterNext, SMTT(30)
  <2> QED
    BY <1>5, <1>6, <1>8, <2>1
<1>10. Recovered = AfterOf(start, hist, m, F)
  BY <1>1, RecoveredIs
<1>11. Recovered' = AfterOf(start, hist', m + 1, F)
  <2>1. Recovered' = AfterOf(start', hist', walFrom' + Valid', FailedOf(hist', walFrom'))
    BY ServesNext
  <2>2. FailedOf(hist', walFrom) = F
    BY <1>4, <1>7
  <2>3. walFrom + Valid' = m + 1
    BY <1>1, <1>4
  <2> QED
    BY <1>2, <2>1, <2>2, <2>3
<1>12. m + 1 \notin F
  BY <1>4, <1>5 DEF FailedOf
<1>13. Served' = ApplyTo(Served, c, u)
  BY <1>9, <1>10, <1>11, <1>12, Serves, ServesNext
<1>14. Served' \in HistoryStates'
  BY ServesNext
<1>15. ASSUME NEW v, v \in HistoryStates'
       PROVE  v \in HistoryStates \/ \E x \in HistoryStates : v = ApplyTo(x, c, u)
  <2>1. PICK n \in acked..(m + 1) : \E S \in SUBSET FailedOf(hist', n) : v = AfterOf(start, hist', n, S)
    BY <1>1, <1>2, <1>15, InHistory
  <2>2. PICK S \in SUBSET FailedOf(hist', n) : v = AfterOf(start, hist', n, S)
    BY <2>1
  <2>3. CASE n <= m
    <3>1. n \in 0..m /\ n \in acked..Len(hist)
      BY <1>4, <1>5, <2>1, <2>3
    <3> HIDE DEF m
    <3> QED
      BY <1>7, <1>8, <2>2, <3>1, InHistory
  <2>4. CASE n = m + 1
    <3>1. S \in SUBSET FailedOf(hist, m)
      <4>1. \A i \in S : i \in 1..(m + 1) /\ hist'[i].failed
        BY <2>4 DEF FailedOf
      <4>2. \A i \in 1..(m + 1) : i \in 1..m \/ i = m + 1
        BY <1>5
      <4>3. \A i \in S : i \in 1..m /\ hist[i].failed
        BY <1>1, <1>6, <4>1, <4>2
      <4> QED
        BY <4>3 DEF FailedOf
    <3>2. m + 1 \notin S
      BY <1>5, <3>1 DEF FailedOf
    <3>3. v = ApplyTo(AfterOf(start, hist, m, S), c, u)
      BY <1>9, <2>2, <2>4, <3>2
    <3>4. AfterOf(start, hist, m, S) \in HistoryStates
      BY <1>5, <3>1, InHistory
    <3> QED
      BY <3>3, <3>4
  <2> QED
    BY <1>4, <1>5, <2>1, <2>3, <2>4
<1>16. HistoryStates' \subseteq HistoryStates \cup {ApplyTo(x, c, u) : x \in HistoryStates}
  BY <1>15
<1> QED
  BY <1>13, <1>14, <1>16 DEF D!Write, Served

(* No other step changes the history, or takes a promise back in Full.      *)
LEMMA OthersSettle ==
    ASSUME StoreAssumption, Durability = "Full", IInv, NEW t \in Thread,
           \/ LogDone(t) \/ Apply(t) \/ AfterWrite(t)
           \/ CallCheckpoint(t) \/ Close(t) \/ CommitNothing(t) \/ Commit(t)
           \/ CommitError(t) \/ Truncate(t) \/ TruncateError(t) \/ CheckpointDone(t)
           \/ CallVacuum(t) \/ SwapFile(t) \/ VacuumDone(t)
           \/ \E c \in Coll : \/ SealCollection(t, c) \/ MarkSealed(t, c)
                              \/ Compact(t, c) \/ SealFresh(t, c)
    PROVE  UNCHANGED <<start, hist>> /\ acked <= acked'
<1>1. acked \in Nat /\ acked <= acked
  <2>1. acked \in Nat
    BY Sizes
  <2> QED
    BY <2>1
<1>2. ASSUME Ack(t) PROVE acked <= acked'
  <2>1. op[t].idx \in Nat
    BY Sizes
  <2> QED
    BY <1>1, <1>2, <2>1 DEF Ack
<1>3. ASSUME NEW ok \in BOOLEAN, Return(t, ok)
      PROVE  UNCHANGED <<start, hist>> /\ acked <= acked'
  BY <1>1, <1>2, <1>3 DEF Return
<1>4. CASE LogDone(t) \/ Apply(t) \/ AfterWrite(t)
  BY <1>1, <1>2, <1>4 DEF LogDone, Apply, AfterWrite, histVars
<1>5. CASE CallCheckpoint(t) \/ Close(t) \/ CommitNothing(t) \/ Commit(t) \/ Truncate(t)
           \/ CallVacuum(t) \/ SwapFile(t)
  BY <1>1, <1>5 DEF CallCheckpoint, Close, CommitNothing, Commit, Truncate, CallVacuum, SwapFile, histVars
<1>6. CASE CommitError(t) \/ TruncateError(t) \/ VacuumDone(t)
  BY <1>3, <1>6 DEF CommitError, TruncateError, VacuumDone
<1>7. CASE CheckpointDone(t)
  BY <1>1, <1>3, <1>7 DEF CheckpointDone
<1>8. CASE \E c \in Coll : \/ SealCollection(t, c) \/ MarkSealed(t, c)
                           \/ Compact(t, c) \/ SealFresh(t, c)
  BY <1>1, <1>8 DEF SealCollection, MarkSealed, Compact, SealFresh, histVars
<1> QED
  BY <1>4, <1>5, <1>6, <1>7, <1>8

(* A crash takes no promise back either.                                    *)
LEMMA CrashSettles ==
    ASSUME StoreAssumption, Durability = "Full", IInv, Kill \/ PowerLoss \/ UNCHANGED vars
    PROVE  UNCHANGED <<start, hist>> /\ acked <= acked'
<1>1. acked \in Nat /\ acked <= acked
  <2>1. acked \in Nat
    BY Sizes
  <2> QED
    BY <2>1
<1> QED
  BY <1>1 DEF Kill, PowerLoss, ProcessGone, vars

(* Every step is a step of the durable store.                               *)
LEMMA DurableStep ==
    ASSUME StoreAssumption, Durability = "Full", NoMishap', IInv, IInv', [Next]_vars
    PROVE  D!Next
<1>1. ASSUME NEW t \in Thread, NEW c \in Coll, NEW u \in Updates, LogWrite(t, c, u)
      PROVE  D!Next
  BY <1>1, WriteIs DEF D!Next
<1>2. ASSUME UNCHANGED <<start, hist>>, acked <= acked'
      PROVE  D!Next
  BY <1>2, PromisedIs, SettleIs DEF D!Next
<1>3. ASSUME NEW t \in Thread, LogError(t)
      PROVE  D!Next
  BY <1>3, ErrorSettles, SettleIs DEF D!Next
<1>4. CASE Open
  BY <1>4, OpenSettles, SettleIs DEF D!Next
<1>5. CASE Kill \/ PowerLoss \/ Finished \/ UNCHANGED vars
  BY <1>2, <1>5, CrashSettles DEF Finished
<1>6. ASSUME NEW t \in Thread,
             \/ LogDone(t) \/ Apply(t) \/ AfterWrite(t)
             \/ CallCheckpoint(t) \/ Close(t) \/ CommitNothing(t) \/ Commit(t)
             \/ CommitError(t) \/ Truncate(t) \/ TruncateError(t) \/ CheckpointDone(t)
             \/ CallVacuum(t) \/ SwapFile(t) \/ VacuumDone(t)
             \/ \E c \in Coll : \/ SealCollection(t, c) \/ MarkSealed(t, c)
                                \/ Compact(t, c) \/ SealFresh(t, c)
      PROVE  D!Next
  BY <1>2, <1>6, OthersSettle
<1> QED
  BY <1>1, <1>3, <1>4, <1>5, <1>6 DEF Next

(* The file is a durable store, in Full and until the first mishap: what    *)
(* the next open would serve changes by just the logged writes, and by a    *)
(* crash or a failed append only back to values no promise excludes.        *)
THEOREM IsDurable == Durability = "Full" /\ Spec => ImplementsDurable
<1> SUFFICES ASSUME Durability = "Full" PROVE Spec => ImplementsDurable
  OBVIOUS
<1>1. Init => D!Init
  <2> SUFFICES ASSUME Init PROVE D!Init
    OBVIOUS
  <2> DEFINE none == [c \in Coll |-> NoPoints]
  <2>1. IInv
    BY StoreAssumption, InitIInv
  <2>2. start = none /\ hist = <<>> /\ acked = 0 /\ walFrom = 0
    BY DEF Init
  <2>3. none \in States /\ hist \in Seq(HistEntry)
    BY <2>1, NoPointsType DEF IInv, Typing
  <2> HIDE DEF none
  <2>4. \A S : AfterOf(start, hist, 0, S) = none
    BY <2>2, <2>3, AfterNone
  <2>5. \A v : v \in HistoryStates => v = none
    <3>1. acked..Len(hist) = {0}
      BY <2>2
    <3> QED
      BY <2>4, <3>1, InHistory
  <2>6. Served = Recovered /\ Recovered \in HistoryStates
    BY <2>1, StoreAssumption, Serves
  <2>7. HistoryStates = {none} /\ Served = none
    BY <2>5, <2>6
  <2> QED
    BY <2>7 DEF D!Init, Served, none
<1>2. (NoMishap => IInv) /\ (NoMishap => IInv)' /\ [Next]_vars => (NoMishap' => D!Next)
  BY StoreAssumption, DurableStep, Monotone
<1>3. (NoMishap => IInv) /\ (NoMishap => IInv)' /\ [Next]_vars => [NoMishap' => D!Next]_vars
  BY <1>2
<1> QED
  BY <1>1, <1>3, Invariance, PTL DEF Spec, ImplementsDurable

=============================================================================
