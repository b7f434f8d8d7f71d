---------------------------- MODULE BindingsProof ----------------------------
(***************************************************************************)
(* What the locks and handles of the bindings promise, proved for any      *)
(* number of threads: that they never wait for each other in a circle,     *)
(* that nothing is written after the last reference is gone, and that      *)
(* whoever is last has flushed.                                            *)
(***************************************************************************)
EXTENDS Bindings, FiniteSetTheorems, SequenceTheorems, TLAPS

-----------------------------------------------------------------------------
(* Types.                                                                   *)

Ops   == {"take", "give", "share", "unshare", "enter", "insert", "lookup", "read", "log",
          "commit", "maybeTrigger", "countRefs", "release", "endUse"}
Refs  == {Ref(t, as) : t \in Thread \cup {Main}, as \in {"handle", "clone", "trigger"}}
Args  == Locks \cup {""} \cup Refs
Steps == [op : Ops, arg : Args]

TypeOK ==
    /\ held \in [Locks -> SUBSET Thread]
    /\ todo \in [Thread -> Seq(Steps)]

-----------------------------------------------------------------------------
(* The order of the locks.                                                  *)

Rank(l) == CASE l = "registry" -> 1 [] l = "shard" -> 2 [] l = "embedder" -> 3 [] l = "gil" -> 4

(* With the locks in A a thread may ask for l: it does not have it, and,    *)
(* where there is an order, it has only lower ones.                         *)
Asks(ordered, A, l) ==
    /\ l \in Locks /\ l \notin A
    /\ ordered => \A a \in A : Rank(a) < Rank(l)

(* Step s takes a thread from the locks in A to those in B; one that keeps  *)
(* the interpreter lock may ask in any order.                               *)
Fine(ordered, A, s, B) ==
    /\ ~ordered => "gil" \in A
    /\ \/ s.op = "take" /\ Asks(ordered, A, s.arg) /\ B = A \cup {s.arg}
       \/ s.op = "share" /\ s.arg = "shard" /\ Asks(ordered, A, "shard") /\ B = A \cup {"shard"}
       \/ s.op = "give" /\ s.arg \in A /\ B = A \ {s.arg}
       \/ s.op = "unshare" /\ s.arg \in A /\ s.arg = "shard" /\ B = A \ {"shard"}
       \/ s.op = "enter" /\ s.arg = "gil" /\ ("gil" \in A \/ Asks(ordered, A, "gil")) /\ B = A
       \/ s.op = "insert" /\ Asks(ordered, A, "shard") /\ B = A
       \/ s.op = "maybeTrigger" /\ A = {} /\ B = {}
       \/ s.op = "countRefs" /\ (ordered => A = {}) /\ A \subseteq {"gil"} /\ B = A
       \/ s.op \in {"lookup", "read", "log", "commit", "release", "endUse"} /\ B = A

(* The steps q take a thread from A to B, by way of h.                      *)
Via(ordered, q, h) == \A i \in 1..Len(q) : Fine(ordered, h[i - 1], q[i], h[i])
Runs(ordered, A, q, B) ==
    /\ q \in Seq(Steps)
    /\ \E h \in [0..Len(q) -> SUBSET Locks] : h[0] = A /\ h[Len(q)] = B /\ Via(ordered, q, h)

(* No steps lead nowhere.                                                   *)
LEMMA RunsNone == ASSUME NEW m, NEW A, NEW B
                  PROVE  /\ A \in SUBSET Locks => Runs(m, A, <<>>, A)
                         /\ Runs(m, A, <<>>, B) => A = B
<1>1. ASSUME A \in SUBSET Locks PROVE Runs(m, A, <<>>, A)
  <2> DEFINE h == [i \in 0..0 |-> A]
  <2>1. h \in [0..Len(<<>>) -> SUBSET Locks] /\ h[0] = A /\ h[Len(<<>>)] = A
    BY <1>1
  <2>2. Via(m, <<>>, h)
    BY DEF Via
  <2> QED
    BY <2>1, <2>2 DEF Runs
<1>2. ASSUME Runs(m, A, <<>>, B) PROVE A = B
  BY <1>2 DEF Runs
<1> QED
  BY <1>1, <1>2

(* One step does what it does.                                              *)
LEMMA RunsOne == ASSUME NEW m, NEW A \in SUBSET Locks, NEW B \in SUBSET Locks, NEW s \in Steps,
                        Fine(m, A, s, B)
                 PROVE  Runs(m, A, <<s>>, B)
<1> DEFINE q == <<s>>
           h == [i \in 0..1 |-> IF i = 0 THEN A ELSE B]
<1>1. q \in Seq(Steps) /\ Len(q) = 1 /\ q[1] = s
  OBVIOUS
<1>2. h \in [0..1 -> SUBSET Locks] /\ h[0] = A /\ h[1] = B
  OBVIOUS
<1>3. Via(m, q, h)
  BY <1>1, <1>2 DEF Via
<1> HIDE DEF q, h
<1>4. Runs(m, A, q, B)
  BY <1>1, <1>2, <1>3 DEF Runs
<1> QED
  BY <1>4 DEF q

(* What runs to B and from there to C runs to C.                            *)
LEMMA RunsOn == ASSUME NEW m, NEW A, NEW B, NEW C, NEW p, NEW q,
                       Runs(m, A, p, B), Runs(m, B, q, C)
                PROVE  Runs(m, A, p \o q, C)
<1>1. PICK g \in [0..Len(p) -> SUBSET Locks] : g[0] = A /\ g[Len(p)] = B /\ Via(m, p, g)
  BY DEF Runs
<1>2. PICK h \in [0..Len(q) -> SUBSET Locks] : h[0] = B /\ h[Len(q)] = C /\ Via(m, q, h)
  BY DEF Runs
<1>3. p \in Seq(Steps) /\ q \in Seq(Steps)
  BY DEF Runs
<1> DEFINE r == p \o q
           k == [i \in 0..Len(r) |-> IF i <= Len(p) THEN g[i] ELSE h[i - Len(p)]]
<1>4. r \in Seq(Steps) /\ Len(r) = Len(p) + Len(q) /\ Len(p) \in Nat /\ Len(q) \in Nat
  BY <1>3
<1>5. \A i \in 1..Len(r) : r[i] = IF i <= Len(p) THEN p[i] ELSE q[i - Len(p)]
  BY <1>3, <1>4
<1>6. k \in [0..Len(r) -> SUBSET Locks] /\ k[0] = A /\ k[Len(r)] = C
  BY <1>1, <1>2, <1>4
<1>7. ASSUME NEW i \in 1..Len(r) PROVE Fine(m, k[i - 1], r[i], k[i])
  <2>1. CASE i <= Len(p)
    <3>1. i \in 1..Len(p) /\ r[i] = p[i] /\ k[i] = g[i] /\ k[i - 1] = g[i - 1]
      BY <1>4, <1>5, <2>1
    <3> QED
      BY <1>1, <3>1 DEF Via
  <2>2. CASE i > Len(p)
    <3>1. i - Len(p) \in 1..Len(q) /\ r[i] = q[i - Len(p)] /\ k[i] = h[i - Len(p)]
      BY <1>4, <1>5, <2>2
    <3>2. k[i - 1] = h[i - Len(p) - 1]
      <4>1. CASE i - 1 <= Len(p)
        <5>1. i - 1 = Len(p)
          BY <1>4, <2>2, <4>1
        <5>2. i - 1 \in 0..Len(r) /\ i - Len(p) - 1 = 0
          BY <1>4, <5>1
        <5>3. k[i - 1] = g[Len(p)]
          BY <5>1, <5>2
        <5> QED
          BY <1>1, <1>2, <5>2, <5>3
      <4>2. CASE i - 1 > Len(p)
        <5>1. i - 1 \in 0..Len(r) /\ i - 1 - Len(p) = i - Len(p) - 1
          BY <1>4
        <5> QED
          BY <1>4, <4>2, <5>1
      <4> QED
        BY <1>4, <4>1, <4>2
    <3> QED
      BY <1>2, <3>1, <3>2 DEF Via
  <2> QED
    BY <1>4, <2>1, <2>2
<1>8. Via(m, r, k)
  BY <1>7 DEF Via
<1> HIDE DEF r, k
<1>9. Runs(m, A, r, C)
  BY <1>4, <1>6, <1>8 DEF Runs
<1> QED
  BY <1>9 DEF r

(* The first step, and the others from where it leads.                      *)
LEMMA RunsHead == ASSUME NEW m, NEW A, NEW B, NEW q, Runs(m, A, q, B), q # <<>>
                  PROVE  /\ Head(q) \in Steps /\ Tail(q) \in Seq(Steps)
                         /\ \E C \in SUBSET Locks :
                              Fine(m, A, Head(q), C) /\ Runs(m, C, Tail(q), B)
<1>1. PICK h \in [0..Len(q) -> SUBSET Locks] : h[0] = A /\ h[Len(q)] = B /\ Via(m, q, h)
  BY DEF Runs
<1>2. q \in Seq(Steps) /\ Len(q) \in Nat /\ Len(q) > 0
  BY DEF Runs
<1> DEFINE r == Tail(q)
           k == [i \in 0..Len(r) |-> h[i + 1]]
<1>3. /\ Head(q) = q[1] /\ Head(q) \in Steps
      /\ r \in Seq(Steps) /\ Len(r) = Len(q) - 1
      /\ \A i \in 1..Len(r) : r[i] = q[i + 1]
  BY <1>2
<1>4. Fine(m, A, Head(q), h[1]) /\ h[1] \in SUBSET Locks
  <2>1. 1 \in 1..Len(q) /\ 1 \in 0..Len(q) /\ 1 - 1 = 0
    BY <1>2
  <2> QED
    BY <1>1, <1>3, <2>1 DEF Via
<1>5. k \in [0..Len(r) -> SUBSET Locks] /\ k[0] = h[1] /\ k[Len(r)] = B
  BY <1>1, <1>2, <1>3
<1>6. Via(m, r, k)
  <2> SUFFICES ASSUME NEW i \in 1..Len(r) PROVE Fine(m, k[i - 1], r[i], k[i])
    BY DEF Via
  <2>1. i + 1 \in 1..Len(q) /\ (i + 1) - 1 = i /\ i - 1 \in 0..Len(r) /\ i \in 0..Len(r)
    BY <1>2, <1>3
  <2>2. Fine(m, h[(i + 1) - 1], q[i + 1], h[i + 1])
    BY <1>1, <2>1 DEF Via
  <2>3. k[i - 1] = h[(i - 1) + 1] /\ k[i] = h[i + 1] /\ (i - 1) + 1 = (i + 1) - 1
    BY <2>1
  <2> QED
    BY <1>3, <2>2, <2>3
<1> HIDE DEF r, k
<1>7. Runs(m, h[1], r, B)
  BY <1>3, <1>5, <1>6 DEF Runs
<1> QED
  BY <1>3, <1>4, <1>7 DEF r

-----------------------------------------------------------------------------
(* The calls.                                                               *)

(* What a thread holds around the body of a call: nothing, or the           *)
(* interpreter lock if it keeps it.                                         *)
Base(ordered) == IF ordered THEN {} ELSE {"gil"}

(* The steps q, from A and back.                                            *)
Loop(ordered, A, q) == A \in SUBSET Locks /\ Runs(ordered, A, q, A)

(* One loop after another is a loop, and so is none.                        *)
LEMMA LoopOn == ASSUME NEW m, NEW A, NEW p, NEW q, Loop(m, A, p), Loop(m, A, q)
                PROVE  Loop(m, A, p \o q)
  BY RunsOn DEF Loop
LEMMA LoopNone == ASSUME NEW m, NEW A \in SUBSET Locks
                  PROVE  Loop(m, A, <<>>)
  BY RunsNone DEF Loop

(* Steps.                                                                   *)
LEMMA DoIs == ASSUME NEW op \in Ops, NEW arg \in Args
              PROVE  Do(op, arg) \in Steps /\ Do(op, arg).op = op /\ Do(op, arg).arg = arg
  BY DEF Do, Steps

(* Steps without an argument.                                               *)
LEMMA DoNone == \A op \in Ops : Do(op, "") \in Steps /\ Do(op, "").op = op
<1>1. "" \in Args
  BY DEF Args
<1> QED
  BY <1>1, DoIs

(* Two sequences of one step are, together, one of two.                     *)
LEMMA PairIs ==
    ASSUME NEW x \in Steps, NEW y \in Steps, NEW p, NEW q, p = <<x>>, q = <<y>>
    PROVE  p \o q = <<x, y>>
<1>1. p \in Seq(Steps) /\ Len(p) = 1 /\ p[1] = x /\ q \in Seq(Steps) /\ Len(q) = 1 /\ q[1] = y
  OBVIOUS
<1>2. <<x, y>> \in Seq(Steps) /\ Len(<<x, y>>) = 2 /\ <<x, y>>[1] = x /\ <<x, y>>[2] = y
  OBVIOUS
<1>3. p \o q \in Seq(Steps) /\ Len(p \o q) = Len(p) + Len(q)
  BY ONLY p \in Seq(Steps), q \in Seq(Steps)
<1>4. \A i \in 1..(Len(p) + Len(q)) : (p \o q)[i] = IF i <= Len(p) THEN p[i] ELSE q[i - Len(p)]
  BY ONLY p \in Seq(Steps), q \in Seq(Steps)
<1>5. Len(p \o q) = 2
  BY <1>1, <1>3
<1>6. (p \o q)[1] = p[1] /\ (p \o q)[2] = q[1]
  <2>1. 1 \in 1..(1 + 1) /\ 2 \in 1..(1 + 1) /\ 1 <= 1 /\ ~(2 <= 1) /\ 2 - 1 = 1
    OBVIOUS
  <2>2. Len(p) = 1 /\ Len(q) = 1
    BY <1>1
  <2> QED
    BY ONLY <1>4, <2>1, <2>2
<1>7. \A i \in 1..2 : (p \o q)[i] = <<x, y>>[i]
  <2>1. (p \o q)[1] = <<x, y>>[1]
    BY <1>1, <1>2, <1>6, Zenon
  <2>2. (p \o q)[2] = <<x, y>>[2]
    BY <1>1, <1>2, <1>6, Zenon
  <2>3. \A i \in 1..2 : i = 1 \/ i = 2
    OBVIOUS
  <2> QED
    BY ONLY <2>1, <2>2, <2>3
<1> QED
  BY <1>2, <1>3, <1>5, <1>7, SeqEqual

(* What asks for no lock.                                                   *)
LEMMA EffectLoops == ASSUME NEW m, NEW A \in SUBSET Locks, ~m => "gil" \in A,
                            NEW op \in {"lookup", "read", "log", "commit", "endUse"}
                     PROVE  Loop(m, A, Effect(op))
<1>1. Do(op, "") \in Steps /\ Do(op, "").op = op
  BY DoNone DEF Ops
<1>2. Fine(m, A, Do(op, ""), A)
  BY <1>1 DEF Fine
<1> QED
  BY <1>1, <1>2, RunsOne DEF Loop, Effect

(* A body under a mutex.                                                    *)
LEMMA UnderLoops == ASSUME NEW m, NEW A \in SUBSET Locks, ~m => "gil" \in A, NEW l, Asks(m, A, l),
                           l # "shard", NEW body, Loop(m, A \cup {l}, body)
                    PROVE  Loop(m, A, Under(l, body))
<1>1. l \in Locks /\ l \in Args
  BY DEF Asks, Args
<1>2. /\ Do("take", l) \in Steps /\ Do("take", l).op = "take" /\ Do("take", l).arg = l
      /\ Do("give", l) \in Steps /\ Do("give", l).op = "give" /\ Do("give", l).arg = l
  BY <1>1, DoIs DEF Ops
<1> DEFINE B == A \cup {l}
<1>3. B \in SUBSET Locks /\ B \ {l} = A /\ (~m => "gil" \in B) /\ l \in B
  BY <1>1 DEF Asks
<1>4. Fine(m, A, Do("take", l), B) /\ Fine(m, B, Do("give", l), A)
  BY <1>2, <1>3 DEF Fine
<1> HIDE DEF B
<1>5. Runs(m, A, <<Do("take", l)>>, B) /\ Runs(m, B, <<Do("give", l)>>, A)
  BY <1>2, <1>3, <1>4, RunsOne
<1>6. Runs(m, B, body, B)
  BY DEF Loop, B
<1>7. Runs(m, A, <<Do("take", l)>> \o body, B)
  BY <1>5, <1>6, RunsOn
<1> QED
  BY <1>5, <1>7, RunsOn DEF Loop, Under

(* A body under the map's shard.                                            *)
LEMMA SharingLoops == ASSUME NEW m, NEW A \in SUBSET Locks, ~m => "gil" \in A,
                             Asks(m, A, "shard"), NEW body, Loop(m, A \cup {"shard"}, body)
                      PROVE  Loop(m, A, Sharing(body))
<1>1. "shard" \in Locks /\ "shard" \in Args
  BY DEF Args, Locks
<1> DEFINE x == Do("share", "shard")
           y == Do("unshare", "shard")
<1>2. /\ x \in Steps /\ x.op = "share" /\ x.arg = "shard"
      /\ y \in Steps /\ y.op = "unshare" /\ y.arg = "shard"
  BY <1>1, DoIs DEF Ops
<1> DEFINE B == A \cup {"shard"}
<1>3. B \in SUBSET Locks /\ B \ {"shard"} = A /\ (~m => "gil" \in B) /\ "shard" \in B
  BY <1>1 DEF Asks
<1> HIDE DEF x, y
<1>4. Fine(m, A, x, B) /\ Fine(m, B, y, A)
  BY <1>2, <1>3 DEF Fine
<1> HIDE DEF B
<1>5. Runs(m, A, <<x>>, B) /\ Runs(m, B, <<y>>, A)
  BY <1>2, <1>3, <1>4, RunsOne
<1>6. Runs(m, B, body, B)
  BY DEF Loop, B
<1>7. Runs(m, A, <<x>> \o body, B)
  BY <1>5, <1>6, RunsOn
<1> QED
  BY <1>5, <1>7, RunsOn DEF Loop, Sharing, x, y

(* A callback may be made under any lock.                                   *)
LEMMA CallbackLoops == ASSUME NEW m, NEW A \in SUBSET Locks, ~m => "gil" \in A
                       PROVE  Loop(m, A, Callback)
<1>1. CASE host = "python"
  <2> DEFINE x == Do("enter", "gil")
  <2>1. x \in Steps /\ x.op = "enter" /\ x.arg = "gil"
    BY DoIs DEF Ops, Args, Locks
  <2> HIDE DEF x
  <2>2. "gil" \in A \/ Asks(m, A, "gil")
    BY DEF Asks, Locks, Rank
  <2>3. Fine(m, A, x, A)
    BY <2>1, <2>2 DEF Fine
  <2>4. Runs(m, A, <<x>>, A)
    BY <2>1, <2>3, RunsOne
  <2> QED
    BY <1>1, <2>4 DEF Loop, Callback, x
<1>2. CASE host # "python"
  BY <1>2, LoopNone DEF Callback
<1> QED
  BY <1>1, <1>2

(* The embedder, called from the base or under the shard.                   *)
LEMMA EmbedLoops == ASSUME NEW m \in BOOLEAN, NEW A, A \in {Base(m), Base(m) \cup {"shard"}}
                    PROVE  Loop(m, A, Under("embedder", Callback))
<1>1. A \in SUBSET Locks /\ (~m => "gil" \in A) /\ A \cup {"embedder"} \in SUBSET Locks
  BY DEF Base, Locks
<1>2. Asks(m, A, "embedder")
  BY DEF Asks, Base, Locks, Rank
<1>3. Loop(m, A \cup {"embedder"}, Callback)
  BY <1>1, CallbackLoops
<1> QED
  BY <1>1, <1>2, <1>3, UnderLoops

(* What a call may hold.                                                    *)
LEMMA BaseIs == ASSUME NEW m \in BOOLEAN
                PROVE  /\ Base(m) \in SUBSET Locks /\ (~m => "gil" \in Base(m))
                       /\ Base(m) \cup {"shard"} \in SUBSET Locks
                       /\ Asks(m, Base(m), "shard") /\ Asks(m, Base(m), "registry")
                       /\ Base(m) \cup {"registry"} \in SUBSET Locks
  BY DEF Base, Locks, Asks, Rank

(* Sealing, checkpointing and registering an embedder, also with the        *)
(* interpreter lock kept.                                                   *)
LEMMA SealLoops == ASSUME NEW m \in BOOLEAN
                   PROVE  /\ Loop(m, Base(m), Seal) /\ Loop(m, Base(m), Checkpoint)
                          /\ Loop(m, Base(m), RegisterEmbedder)
<1>1. Loop(m, Base(m) \cup {"shard"}, Under("embedder", Callback))
  BY EmbedLoops
<1>2. Loop(m, Base(m), Sharing(Under("embedder", Callback)))
  BY <1>1, BaseIs, SharingLoops
<1>3. Loop(m, Base(m), Effect("commit"))
  BY BaseIs, EffectLoops
<1> QED
  BY <1>2, <1>3, LoopOn DEF Seal, Checkpoint, RegisterEmbedder

(* An alias call, also with the interpreter lock kept.                      *)
LEMMA AliasLoops == ASSUME NEW m \in BOOLEAN
                    PROVE  Loop(m, Base(m), AliasCall)
<1>1. Loop(m, Base(m) \cup {"registry"}, Effect("log"))
  BY BaseIs, EffectLoops
<1> QED
  BY <1>1, BaseIs, UnderLoops DEF AliasCall

(* The destructor of a handle.                                              *)
LEMMA DropLoops == ASSUME NEW m \in BOOLEAN, NEW r \in Refs
                   PROVE  Loop(m, Base(m), DropHandle(r))
<1> DEFINE x == Do("countRefs", r)
           y == Do("release", r)
<1>1. x \in Steps /\ x.op = "countRefs" /\ y \in Steps /\ y.op = "release"
  BY DoIs DEF Ops, Args
<1> HIDE DEF x, y
<1>2. Fine(m, Base(m), x, Base(m)) /\ Fine(m, Base(m), y, Base(m))
  BY <1>1 DEF Fine, Base
<1>3. Loop(m, Base(m), <<x>>) /\ Loop(m, Base(m), <<y>>)
  BY <1>1, <1>2, BaseIs, RunsOne DEF Loop
<1>4. Loop(m, Base(m), <<x>> \o <<y>>)
  BY <1>3, LoopOn
<1>5. <<x>> \o <<y>> = <<x, y>>
  BY <1>1, PairIs
<1> QED
  BY <1>4, <1>5 DEF DropHandle, x, y

(* A checkpoint the log's size may trigger.                                 *)
LEMMA AfterWriteLoops == Loop(TRUE, {}, AfterWrite)
<1> DEFINE x == Do("maybeTrigger", "")
<1>1. x \in Steps /\ x.op = "maybeTrigger"
  BY DoIs DEF Ops, Args
<1> HIDE DEF x
<1>2. Fine(TRUE, {}, x, {})
  BY <1>1 DEF Fine
<1> QED
  BY <1>1, <1>2, RunsOne DEF Loop, AfterWrite, Effect, x

(* Calls that begin and end with no lock at all.                            *)
LEMMA CallsLoop ==
    /\ Loop(TRUE, {}, WritePoints) /\ Loop(TRUE, {}, ReadPoints) /\ Loop(TRUE, {}, UpsertText)
    /\ Loop(TRUE, {}, Refit) /\ \A stale \in BOOLEAN : Loop(TRUE, {}, SearchText(stale))
    /\ Loop(TRUE, {}, Checkpoint) /\ Loop(TRUE, {}, Snapshot) /\ Loop(TRUE, {}, Vacuum)
    /\ Loop(TRUE, {}, CreateCollection) /\ Loop(TRUE, {}, AliasCall) /\ Loop(TRUE, {}, Lookup)
    /\ Loop(TRUE, {}, RegisterEmbedder)
<1>1. Base(TRUE) = {}
  BY DEF Base
<1>2. {} \in SUBSET Locks
  OBVIOUS
<1>3. \A op \in {"lookup", "read", "log", "commit"} : Loop(TRUE, {}, Effect(op))
  BY <1>2, EffectLoops
<1>4. Loop(TRUE, {}, Under("embedder", Callback))
  BY <1>1, EmbedLoops
<1>5. Loop(TRUE, {}, Effect("log") \o AfterWrite)
  BY <1>3, AfterWriteLoops, LoopOn
<1>6. Loop(TRUE, {}, UpsertText)
  <2>1. Loop(TRUE, {}, Under("embedder", Callback) \o Effect("log"))
    BY <1>3, <1>4, LoopOn
  <2> QED
    BY <2>1, AfterWriteLoops, LoopOn DEF UpsertText
<1>7. Loop(TRUE, {}, Refit)
  <2>1. Loop(TRUE, {}, UpsertText \o Under("embedder", Callback))
    BY <1>4, <1>6, LoopOn
  <2> QED
    BY <1>3, <2>1, LoopOn DEF Refit, UpsertText
<1>8. \A stale \in BOOLEAN : Loop(TRUE, {}, SearchText(stale))
  <2>1. Loop(TRUE, {}, Ask)
    BY <1>4 DEF Ask
  <2> QED
    BY <1>7, <2>1, LoopOn DEF SearchText
<1>9. Loop(TRUE, {}, Seal) /\ Loop(TRUE, {}, Checkpoint) /\ Loop(TRUE, {}, RegisterEmbedder)
  BY <1>1, SealLoops
<1>10. Loop(TRUE, {}, Snapshot)
  <2>1. Loop(TRUE, {}, Checkpoint \o Seal)
    BY <1>9, LoopOn
  <2> QED
    BY <1>3, <2>1, LoopOn DEF Snapshot
<1>11. Loop(TRUE, {}, Vacuum)
  <2>1. Loop(TRUE, {} \cup {"shard"}, Effect("read")) /\ Asks(TRUE, {}, "shard")
    BY <1>1, BaseIs, EffectLoops DEF Asks, Locks
  <2>2. Loop(TRUE, {}, Sharing(Effect("read")))
    BY <1>2, <2>1, SharingLoops
  <2> QED
    BY <1>9, <2>2, LoopOn DEF Vacuum
<1>12. Loop(TRUE, {}, CreateCollection)
  <2> DEFINE x == Do("insert", "")
             A == {} \cup {"registry"}
  <2>1. x \in Steps /\ x.op = "insert"
    BY DoNone DEF Ops
  <2> HIDE DEF x
  <2>2. A \in SUBSET Locks /\ Asks(TRUE, A, "shard") /\ Asks(TRUE, {}, "registry")
    BY DEF Asks, Locks, Rank
  <2> HIDE DEF A
  <2>3. Fine(TRUE, A, x, A)
    BY <2>1, <2>2 DEF Fine
  <2>4. Loop(TRUE, A, Effect("insert"))
    BY <2>1, <2>2, <2>3, RunsOne DEF Loop, Effect, x
  <2>5. Loop(TRUE, A, Effect("log"))
    BY <2>2, EffectLoops
  <2>6. Loop(TRUE, A, Effect("log") \o Effect("insert"))
    BY <2>4, <2>5, LoopOn
  <2> QED
    BY <1>2, <2>2, <2>6, UnderLoops DEF CreateCollection, A
<1>13. Loop(TRUE, {}, AliasCall)
  BY <1>1, AliasLoops
<1>14. Loop(TRUE, {}, WritePoints) /\ Loop(TRUE, {}, ReadPoints) /\ Loop(TRUE, {}, Lookup)
  BY <1>3, <1>5 DEF WritePoints, ReadPoints, Lookup
<1> QED
  BY <1>6, <1>7, <1>8, <1>9, <1>10, <1>11, <1>12, <1>13, <1>14

-----------------------------------------------------------------------------
(* The invariant.                                                           *)

(* The locks t holds.                                                       *)
Holds(t) == {l \in Locks : t \in held[l]}

(* t asks for its locks in order.                                           *)
Ordered(t) == Runs(TRUE, Holds(t), todo[t], {})

(* A Python call that keeps the interpreter lock.                           *)
Keeping(t) == host = "python" /\ ~Idle(t) /\ Runs(FALSE, Holds(t), todo[t], {})

(* It is the only call there is.                                            *)
Alone(t) == Keeping(t) /\ \A u \in Thread \ {t} : Idle(u)

(* The steps of an alias call, and those that leave the registry alone.     *)
AliasSteps == {s \in Steps : /\ s.op \in {"take", "log", "give", "endUse"}
                             /\ s.op = "take" => s.arg = "registry"}
Mild == {s \in Steps : s.op \in {"take", "share"} => s.arg # "registry"}

(* It asks for the registry, and nobody else is in it.                      *)
Aliasing(t) ==
    /\ Keeping(t) /\ todo[t] \in Seq(AliasSteps)
    /\ \A u \in Thread \ {t} : todo[u] \in Seq(Mild) /\ u \notin held["registry"]

(* All locks but the shard's are held by one thread.                        *)
Exclusive == \A l \in Locks \ {"shard"} : \A t, u \in held[l] : t = u

WaitInv == TypeOK /\ Exclusive /\ \A t \in Thread : Ordered(t) \/ Alone(t) \/ Aliasing(t)

(* Who is not in a call holds nothing.                                      *)
LEMMA IdleHoldsNothing == ASSUME WaitInv, NEW t \in Thread, Idle(t)
                          PROVE  Holds(t) = {} /\ \A l \in Locks : t \notin held[l]
<1>1. Ordered(t)
  BY DEF WaitInv, Alone, Aliasing, Keeping
<1>2. Holds(t) = {}
  <2>1. Runs(TRUE, Holds(t), <<>>, {})
    BY <1>1 DEF Ordered, Idle
  <2> QED
    BY <2>1, RunsNone
<1> QED
  BY <1>2 DEF Holds

(* A keeper holds the interpreter lock.                                     *)
LEMMA KeeperHolds == ASSUME NEW t \in Thread, Keeping(t)
                     PROVE  t \in held["gil"] /\ "gil" \in Locks
<1>1. PICK C \in SUBSET Locks : Fine(FALSE, Holds(t), Head(todo[t]), C)
  BY RunsHead DEF Keeping, Idle
<1> QED
  BY <1>1 DEF Fine, Holds, Locks

(* Nobody waits in a circle.                                                *)
LEMMA NoCircle == WaitInv => \A Q \in (SUBSET Thread) \ {{}} : ~InACircle(Q)
<1> SUFFICES ASSUME WaitInv, NEW Q \in (SUBSET Thread) \ {{}},
                    \A t \in Q : \E u \in Q : WaitsFor(t, u)
             PROVE  FALSE
  BY DEF InACircle
<1> DEFINE r(t) == Rank(Wanted(Upcoming(t)))
<1>1. ASSUME NEW t \in Q, NEW u \in Q, WaitsFor(t, u)
      PROVE  /\ Wanted(Upcoming(t)) \in Locks /\ t \notin held[Wanted(Upcoming(t))]
             /\ \A a \in Holds(t) : Rank(a) < r(t)
  <2>1. t \in Thread /\ ~Idle(t) /\ ~Grantable(t) /\ todo[t] # <<>>
    BY <1>1 DEF WaitsFor, Idle
  <2>2. ASSUME NEW m \in BOOLEAN, Runs(m, Holds(t), todo[t], {}),
               m \/ Alone(t) \/ Aliasing(t)
        PROVE  /\ m /\ Wanted(Upcoming(t)) \in Locks /\ t \notin held[Wanted(Upcoming(t))]
               /\ \A a \in Holds(t) : Rank(a) < r(t)
    <3> DEFINE s == Upcoming(t)
    <3>1. PICK C \in SUBSET Locks : Fine(m, Holds(t), s, C)
      BY <2>1, <2>2, RunsHead DEF Upcoming
    <3>2. s \in Steps
      BY <2>1, <2>2, RunsHead DEF Upcoming
    <3>3. s.op \in {"take", "enter", "insert"}
      BY <2>1 DEF Grantable
    <3>4. held \in [Locks -> SUBSET Thread] /\ Exclusive
      BY DEF WaitInv, TypeOK
    <3>5. s.op = "enter" => "gil" \notin Holds(t)
      <4> SUFFICES ASSUME s.op = "enter", "gil" \in Holds(t) PROVE FALSE
        OBVIOUS
      <4>1. t \in held["gil"] /\ "gil" \in Locks \ {"shard"}
        BY DEF Holds, Locks
      <4>2. held["gil"] \subseteq {t}
        BY <3>4, <4>1 DEF Exclusive
      <4> QED
        BY <2>1, <4>2 DEF Grantable
    <3>6. Asks(m, Holds(t), Wanted(s))
      BY <3>1, <3>3, <3>5 DEF Fine, Wanted
    <3>7. Wanted(s) \in Locks /\ t \notin held[Wanted(s)]
      BY <3>6 DEF Asks, Holds
    <3>8. m
      <4> SUFFICES ASSUME ~m PROVE FALSE
        OBVIOUS
      <4>1. held[Wanted(s)] # {}
        BY <2>1, <3>1, <3>3 DEF Grantable, Wanted, Fine
      <4>2. PICK k \in held[Wanted(s)] : k # t /\ k \in Thread
        BY <3>4, <3>7, <4>1
      <4>3. CASE Alone(t)
        BY <3>7, <4>2, <4>3, IdleHoldsNothing DEF Alone
      <4>4. CASE Aliasing(t)
        <5>1. s \in AliasSteps
          BY <2>1, <4>4 DEF Aliasing, Upcoming
        <5>2. Wanted(s) = "registry"
          BY <3>3, <5>1 DEF AliasSteps, Wanted
        <5> QED
          BY <4>2, <4>4, <5>2 DEF Aliasing
      <4> QED
        BY <2>2, <4>3, <4>4
    <3> QED
      BY <3>6, <3>7, <3>8 DEF Asks
  <2>3. CASE Ordered(t)
    BY <2>2, <2>3 DEF Ordered
  <2>4. CASE Alone(t) \/ Aliasing(t)
    BY <2>2, <2>4 DEF Alone, Aliasing, Keeping
  <2> QED
    BY <2>1, <2>3, <2>4 DEF WaitInv
<1>2. \A t \in Q : r(t) \in 1..4
  BY <1>1 DEF Rank, Locks
<1>3. \A t \in Q : \E u \in Q : r(u) > r(t)
  <2> SUFFICES ASSUME NEW t \in Q PROVE \E u \in Q : r(u) > r(t)
    OBVIOUS
  <2>1. PICK u \in Q : WaitsFor(t, u)
    OBVIOUS
  <2>2. PICK v \in Q : WaitsFor(u, v)
    OBVIOUS
  <2>3. Wanted(Upcoming(t)) \in Holds(u)
    BY <1>1, <2>1 DEF WaitsFor, Holds
  <2>4. Rank(Wanted(Upcoming(t))) < r(u)
    BY <1>1, <2>2, <2>3
  <2> QED
    BY <1>2, <2>4
<1> HIDE DEF r
<1>4. \A t \in Q : r(t) > 4
  <2>1. \A t \in Q : r(t) >= 2
    BY <1>2, <1>3
  <2> QED
    BY <1>2, <1>3
<1>5. PICK t \in Q : TRUE
  OBVIOUS
<1> QED
  BY <1>2, <1>4, <1>5

-----------------------------------------------------------------------------
(* Steps.                                                                   *)

(* A step gives t the locks it leads to, and nobody else any.               *)
Gives(t, C) ==
    /\ held' \in [Locks -> SUBSET Thread]
    /\ \A l \in Locks : t \in held'[l] <=> l \in C
    /\ \A u \in Thread \ {t} : \A l \in Locks : u \in held'[l] <=> u \in held[l]
    /\ \A l \in Locks : l \in C /\ t \notin held[l] /\ l # "shard" => held[l] = {}

(* The rest of t's call becomes q, and nobody else's changes.               *)
Goes(t, q) == todo' = [todo EXCEPT ![t] = q]

(* The steps of others change nothing of u's.                               *)
LEMMA Bystander == ASSUME TypeOK, NEW t \in Thread, NEW u \in Thread \ {t}, NEW C, NEW q,
                          Gives(t, C), Goes(t, q)
                   PROVE  todo'[u] = todo[u] /\ Holds(u)' = Holds(u) /\ (Idle(u)' <=> Idle(u))
  BY DEF Gives, Goes, TypeOK, Holds, Idle

(* Nor does it share a lock but the shard's.                                *)
LEMMA StaysExclusive == ASSUME TypeOK, Exclusive, NEW t \in Thread, NEW C, Gives(t, C)
                        PROVE  Exclusive'
<1> SUFFICES ASSUME NEW l \in Locks \ {"shard"}, NEW u \in held'[l], NEW v \in held'[l]
             PROVE  u = v
  BY DEF Exclusive
<1>1. u \in Thread /\ v \in Thread /\ held[l] \subseteq Thread
  BY DEF Gives, TypeOK
<1>2. (u # t => u \in held[l]) /\ (v # t => v \in held[l])
  BY <1>1 DEF Gives
<1>3. u = t \/ v = t => (u \in held[l] /\ v \in held[l]) \/ held[l] = {} \/ (u = t /\ v = t)
  BY <1>1, <1>2 DEF Gives
<1> QED
  BY <1>2, <1>3 DEF Exclusive

(* The sequences that replace todo keep its type.                           *)
LEMMA TodoTyped == ASSUME TypeOK, NEW t \in Thread, NEW q \in Seq(Steps), Goes(t, q)
                   PROVE  todo' \in [Thread -> Seq(Steps)] /\ todo'[t] = q
  BY DEF TypeOK, Goes

(* References as arguments.                                                 *)
LEMMA RefIs == ASSUME NEW t \in Thread \cup {Main}, NEW as \in {"handle", "clone", "trigger"}
               PROVE  Ref(t, as) \in Refs /\ Ref(t, as) \in Args
<1>1. \E v \in Thread \cup {Main}, w \in {"handle", "clone", "trigger"} : Ref(t, as) = Ref(v, w)
  OBVIOUS
<1>2. Ref(t, as) \in Refs
  BY ONLY <1>1 DEF Refs
<1> QED
  BY <1>2 DEF Args

(* A step that does not ask for the registry.                               *)
LEMMA MildIs == ASSUME NEW s \in Steps, s.op \in {"take", "share"} => s.arg # "registry"
                PROVE  s \in Mild /\ <<s>> \in Seq(Mild)
<1>1. s \in Mild
  BY DEF Mild
<1> QED
  BY ONLY <1>1

(* A checkpoint does not.                                                   *)
LEMMA MildCheckpoint == Checkpoint \in Seq(Mild)
<1>1. "embedder" \in Args /\ "gil" \in Args /\ "shard" \in Args /\ "" \in Args
  BY DEF Args, Locks
<1>2. /\ <<Do("take", "embedder")>> \in Seq(Mild) /\ <<Do("give", "embedder")>> \in Seq(Mild)
      /\ <<Do("share", "shard")>> \in Seq(Mild) /\ <<Do("unshare", "shard")>> \in Seq(Mild)
      /\ <<Do("enter", "gil")>> \in Seq(Mild) /\ Effect("commit") \in Seq(Mild)
  <2>1. \A op \in Ops : \A arg \in Args :
           (op \in {"take", "share"} => arg # "registry") => <<Do(op, arg)>> \in Seq(Mild)
    BY DoIs, MildIs
  <2> QED
    BY <1>1, <2>1 DEF Ops, Effect
<1>3. Callback \in Seq(Mild)
  <2>1. <<>> \in Seq(Mild)
    OBVIOUS
  <2> QED
    BY <1>2, <2>1 DEF Callback
<1>4. \A p, q \in Seq(Mild) : p \o q \in Seq(Mild)
  OBVIOUS
<1>5. Under("embedder", Callback) \in Seq(Mild)
  BY <1>2, <1>3, <1>4 DEF Under
<1>6. Seal \in Seq(Mild)
  BY <1>2, <1>4, <1>5 DEF Seal, Sharing
<1> QED
  BY <1>2, <1>4, <1>6 DEF Checkpoint

(* The step of a call, whether it asks in order or keeps the interpreter    *)
(* lock: it leads to the locks Fine says, and what is left runs from there. *)
LEMMA StepRuns ==
    ASSUME TypeOK, Exclusive, NEW t \in Thread, Step(t), NEW m \in BOOLEAN,
           Runs(m, Holds(t), todo[t], {})
    PROVE  \E C \in SUBSET Locks : \E q \in Seq(Steps) :
              /\ Gives(t, C) /\ Goes(t, q) /\ Runs(m, C, q, {})
              /\ Upcoming(t).op \in {"take", "share", "give", "unshare", "log", "commit", "release",
                                     "read", "lookup", "insert", "endUse"} => q = Tail(todo[t])
<1>1. todo[t] # <<>> /\ Grantable(t)
  BY DEF Step, Idle
<1> DEFINE s == Upcoming(t)
           q == Tail(todo[t])
<1>2. PICK B \in SUBSET Locks : Fine(m, Holds(t), s, B) /\ Runs(m, B, q, {})
  BY <1>1, RunsHead DEF Upcoming
<1>3. s \in Steps /\ q \in Seq(Steps)
  BY <1>1, RunsHead DEF Upcoming
<1>4. held \in [Locks -> SUBSET Thread] /\ todo \in [Thread -> Seq(Steps)] /\ "gil" \in Locks
  BY DEF TypeOK, Locks
<1>5. \A l \in Locks : l \in Holds(t) <=> t \in held[l]
  BY DEF Holds
<1>6. Rest(t) = [todo EXCEPT ![t] = q]
  BY DEF Rest
<1> HIDE DEF s, q
<1>7. CASE Locking(t)
  <2>1. s.op \in {"take", "share"} /\ held' = [held EXCEPT ![s.arg] = @ \cup {t}] /\ Goes(t, q)
    BY <1>6, <1>7 DEF Locking, Goes, s
  <2>2. s.arg \in Locks /\ B = Holds(t) \cup {s.arg} /\ s.arg \notin Holds(t)
    BY <1>2, <2>1 DEF Fine, Asks
  <2>3. s.arg # "shard" => held[s.arg] = {}
    BY <1>1, <1>2, <2>1 DEF Grantable, s, Fine
  <2>4. Gives(t, B)
    BY <1>4, <1>5, <2>1, <2>2, <2>3 DEF Gives
  <2> QED
    BY <1>2, <1>3, <2>1, <2>4 DEF q
<1>8. CASE Unlocking(t)
  <2>1. s.op \in {"give", "unshare"} /\ held' = [held EXCEPT ![s.arg] = @ \ {t}] /\ Goes(t, q)
    BY <1>6, <1>8 DEF Unlocking, Goes, s
  <2>2. s.arg \in Locks /\ B = Holds(t) \ {s.arg}
    BY <1>2, <2>1 DEF Fine, Holds
  <2>3. Gives(t, B)
    BY <1>4, <1>5, <2>1, <2>2 DEF Gives
  <2> QED
    BY <1>2, <1>3, <2>1, <2>3 DEF q
<1>9. CASE EnterCallback(t)
  <2>1. s.op = "enter" /\ held' = [held EXCEPT !["gil"] = {t}] /\ held["gil"] \subseteq {t}
    BY <1>1, <1>9 DEF EnterCallback, Grantable, s
  <2>2. s.arg = "gil" /\ B = Holds(t) /\ ("gil" \in Holds(t) \/ Asks(m, Holds(t), "gil"))
    BY <1>2, <2>1 DEF Fine
  <2>3. CASE held["gil"] = {t}
    <3>1. Goes(t, q)
      <4>1. <<>> \o Tail(todo[t]) = q
        BY <1>3 DEF q
      <4> QED
        BY <1>9, <2>3, <4>1 DEF EnterCallback, Goes
    <3>2. Gives(t, B)
      BY <1>4, <1>5, <2>1, <2>2, <2>3 DEF Gives
    <3> QED
      BY <1>2, <1>3, <2>1, <3>1, <3>2 DEF s
  <2>4. CASE held["gil"] # {t}
    <3> DEFINE x == Do("give", "gil")
               C == Holds(t) \cup {"gil"}
    <3>1. held["gil"] = {} /\ "gil" \notin Holds(t)
      BY <1>4, <1>5, <2>1, <2>4
    <3>2. Goes(t, <<x>> \o q)
      BY <1>9, <2>4 DEF EnterCallback, Goes, q
    <3>3. x \in Steps /\ x.op = "give" /\ x.arg = "gil"
      BY DoIs DEF Ops, Args, Locks
    <3> HIDE DEF x
    <3>4. C \in SUBSET Locks /\ C \ {"gil"} = B /\ "gil" \in C
      BY <1>2, <1>4, <2>2, <3>1
    <3>5. Gives(t, C)
      BY <1>4, <1>5, <2>1, <3>1 DEF Gives
    <3> HIDE DEF C
    <3>6. Fine(m, C, x, B)
      BY <3>3, <3>4 DEF Fine
    <3>7. Runs(m, C, <<x>>, B)
      BY <3>3, <3>4, <3>6, RunsOne
    <3>8. Runs(m, C, <<x>> \o q, {})
      BY <1>2, <3>7, RunsOn
    <3>9. <<x>> \o q \in Seq(Steps)
      BY <1>3, <3>3
    <3> QED
      BY <2>1, <3>2, <3>4, <3>5, <3>8, <3>9 DEF s
  <2> QED
    BY <2>3, <2>4
<1>10. CASE Log(t) \/ Commit(t) \/ Release(t) \/ Pass(t)
  <2>1. /\ s.op \in {"log", "commit", "release", "read", "lookup", "insert", "endUse"}
        /\ held' = held /\ Goes(t, q)
    BY <1>6, <1>10 DEF Log, Commit, Release, Pass, Goes, s
  <2>2. B = Holds(t)
    BY <1>2, <2>1 DEF Fine
  <2>3. Gives(t, B)
    BY <1>4, <1>5, <2>1, <2>2 DEF Gives
  <2> QED
    BY <1>2, <1>3, <2>1, <2>3 DEF q
<1>11. CASE Trigger(t)
  <2>1. s.op = "maybeTrigger" /\ held' = held
    BY <1>11 DEF Trigger, s
  <2>2. m /\ Holds(t) = {} /\ B = {}
    BY <1>2, <2>1 DEF Fine
  <2>3. Gives(t, {})
    BY <1>4, <1>5, <2>1, <2>2 DEF Gives
  <2>4. CASE todo' = Rest(t)
    BY <1>2, <1>3, <1>6, <2>1, <2>2, <2>3, <2>4 DEF Goes, s
  <2>5. CASE todo' # Rest(t)
    <3> DEFINE x == Do("release", Ref(t, "trigger"))
    <3>1. Goes(t, Checkpoint \o <<x>> \o q)
      BY <1>11, <2>5 DEF Trigger, Goes, q
    <3>2. Ref(t, "trigger") \in Args
      BY RefIs
    <3>3. x \in Steps /\ x.op = "release"
      BY <3>2, DoIs DEF Ops
    <3> HIDE DEF x
    <3>4. Fine(TRUE, {}, x, {})
      BY <3>3 DEF Fine
    <3>5. Runs(TRUE, {}, <<x>>, {})
      BY <3>3, <3>4, RunsOne
    <3>6. Runs(TRUE, {}, Checkpoint, {})
      BY CallsLoop DEF Loop
    <3>7. Runs(TRUE, {}, Checkpoint \o <<x>>, {})
      BY <3>5, <3>6, RunsOn
    <3>8. Runs(TRUE, {}, Checkpoint \o <<x>> \o q, {})
      BY <1>2, <2>2, <3>7, RunsOn
    <3>9. Checkpoint \o <<x>> \o q \in Seq(Steps)
      BY <3>8 DEF Runs
    <3> QED
      BY <2>1, <2>2, <2>3, <3>1, <3>8, <3>9 DEF s
  <2> QED
    BY <2>4, <2>5
<1>12. CASE CountRefs(t)
  <2> DEFINE p == IF Cardinality(refs) = 1 THEN Checkpoint ELSE <<>>
  <2>1. s.op = "countRefs" /\ held' = held /\ Goes(t, p \o q)
    BY <1>12 DEF CountRefs, Goes, s, q
  <2>2. Holds(t) = Base(m) /\ B = Holds(t)
    BY <1>2, <2>1 DEF Fine, Base
  <2>3. Gives(t, B)
    BY <1>4, <1>5, <2>1, <2>2 DEF Gives
  <2>4. Loop(m, B, p)
    BY <2>2, SealLoops, LoopNone, BaseIs
  <2>5. Runs(m, B, p \o q, {})
    BY <1>2, <2>4, RunsOn DEF Loop
  <2>6. p \o q \in Seq(Steps)
    BY <2>5 DEF Runs
  <2> QED
    BY <2>1, <2>3, <2>5, <2>6 DEF s
<1> QED
  BY <1>7, <1>8, <1>9, <1>10, <1>11, <1>12 DEF Step

(* Nor does a step of a call that does not ask for the registry.            *)
LEMMA MildStep ==
    ASSUME TypeOK, NEW t \in Thread, Step(t), todo[t] \in Seq(Mild)
    PROVE  todo'[t] \in Seq(Mild) /\ (t \in held'["registry"] => t \in held["registry"])
<1> DEFINE s == Upcoming(t)
           q == Tail(todo[t])
<1>1. todo[t] # <<>> /\ s \in Mild /\ q \in Seq(Mild)
  <2>1. todo[t] # <<>>
    BY DEF Step, Idle
  <2> QED
    BY <2>1 DEF Upcoming
<1>2. s.op \in {"take", "share"} => s.arg # "registry"
  BY <1>1 DEF Mild
<1>3. held \in [Locks -> SUBSET Thread] /\ todo \in [Thread -> Seq(Steps)] /\ "registry" \in Locks
  BY DEF TypeOK, Locks
<1>4. Rest(t)[t] = q
  BY <1>3 DEF Rest
<1> HIDE DEF q
<1>5. \A p \in Seq(Mild) : p \o q \in Seq(Mild)
  BY <1>1
<1>6. \A op \in {"give", "release"} : \A arg \in Args : <<Do(op, arg)>> \in Seq(Mild)
  BY DoIs, MildIs DEF Ops
<1>7. "gil" \in Args /\ Ref(t, "trigger") \in Args
  BY RefIs DEF Args, Locks
<1>8. \A p, r \in Seq(Mild) : p \o r \in Seq(Mild)
  OBVIOUS
<1>9. <<>> \in Seq(Mild)
  OBVIOUS
<1>10. CASE Locking(t)
  BY <1>1, <1>2, <1>3, <1>4, <1>10 DEF Locking
<1>11. CASE Unlocking(t)
  BY <1>1, <1>3, <1>4, <1>11 DEF Unlocking
<1>12. CASE EnterCallback(t)
  <2> DEFINE p == IF held["gil"] = {t} THEN <<>> ELSE <<Do("give", "gil")>>
  <2>1. held' = [held EXCEPT !["gil"] = {t}] /\ todo'[t] = p \o q
    BY <1>3, <1>12 DEF EnterCallback, q
  <2>2. p \in Seq(Mild)
    BY <1>6, <1>7, <1>9
  <2> HIDE DEF p
  <2> QED
    BY <1>3, <1>5, <2>1, <2>2
<1>13. CASE Log(t) \/ Commit(t) \/ Release(t) \/ Pass(t)
  BY <1>1, <1>4, <1>13 DEF Log, Commit, Release, Pass
<1>14. CASE Trigger(t)
  <2> DEFINE x == Do("release", Ref(t, "trigger"))
  <2>1. held' = held /\ (todo'[t] = q \/ todo'[t] = Checkpoint \o <<x>> \o q)
    BY <1>3, <1>4, <1>14 DEF Trigger, q
  <2>2. <<x>> \in Seq(Mild)
    BY <1>6, <1>7
  <2> HIDE DEF x
  <2>3. Checkpoint \o <<x>> \in Seq(Mild)
    BY <1>8, <2>2, MildCheckpoint
  <2> QED
    BY <1>1, <1>5, <2>1, <2>3
<1>15. CASE CountRefs(t)
  <2> DEFINE p == IF Cardinality(refs) = 1 THEN Checkpoint ELSE <<>>
  <2>1. held' = held /\ todo'[t] = p \o q
    BY <1>3, <1>15 DEF CountRefs, q
  <2>2. p \in Seq(Mild)
    BY <1>9, MildCheckpoint
  <2> HIDE DEF p
  <2> QED
    BY <1>5, <2>1, <2>2
<1> QED
  BY <1>10, <1>11, <1>12, <1>13, <1>14, <1>15 DEF Step

(* A step of a call keeps what the locks promise.                           *)
LEMMA StepKeeps == ASSUME WaitInv, NEW t \in Thread, Step(t)
                   PROVE  WaitInv'
<1> USE DEF WaitInv
<1>1. TypeOK /\ Exclusive /\ ~Idle(t) /\ host' = host
  BY DEF Step
<1>2. ASSUME NEW m \in BOOLEAN, Runs(m, Holds(t), todo[t], {}), ~m => Keeping(t)
      PROVE  /\ TypeOK' /\ Exclusive'
             /\ \A u \in Thread \ {t} : todo'[u] = todo[u] /\ Holds(u)' = Holds(u)
                                       /\ (Idle(u)' <=> Idle(u))
             /\ m => Ordered(t)'
             /\ ~m => Ordered(t)' \/ Keeping(t)'
             /\ todo[t] \in Seq(AliasSteps) => todo'[t] \in Seq(AliasSteps)
  <2>1. PICK C \in SUBSET Locks : \E q \in Seq(Steps) :
              /\ Gives(t, C) /\ Goes(t, q) /\ Runs(m, C, q, {})
              /\ Upcoming(t).op \in {"take", "share", "give", "unshare", "log", "commit", "release",
                                     "read", "lookup", "insert", "endUse"} => q = Tail(todo[t])
    BY <1>1, <1>2, StepRuns
  <2>2. PICK q \in Seq(Steps) :
              /\ Gives(t, C) /\ Goes(t, q) /\ Runs(m, C, q, {})
              /\ Upcoming(t).op \in {"take", "share", "give", "unshare", "log", "commit", "release",
                                     "read", "lookup", "insert", "endUse"} => q = Tail(todo[t])
    BY <2>1
  <2>3. todo' \in [Thread -> Seq(Steps)] /\ todo'[t] = q
    BY <1>1, <2>2, TodoTyped
  <2>4. Holds(t)' = C
    BY <2>2 DEF Holds, Gives
  <2>5. TypeOK' /\ Exclusive'
    <3>1. Exclusive'
      BY <1>1, <2>2, StaysExclusive
    <3>2. held' \in [Locks -> SUBSET Thread]
      BY <2>2 DEF Gives
    <3> QED
      BY <2>3, <3>1, <3>2 DEF TypeOK
  <2>6. \A u \in Thread \ {t} : todo'[u] = todo[u] /\ Holds(u)' = Holds(u)
                                /\ (Idle(u)' <=> Idle(u))
    BY <1>1, <2>2, Bystander
  <2>7. m => Ordered(t)'
    BY <2>2, <2>3, <2>4 DEF Ordered
  <2>8. ASSUME ~m PROVE Ordered(t)' \/ Keeping(t)'
    <3>1. CASE q = <<>>
      <4>1. C = {}
        BY <2>2, <3>1, RunsNone
      <4>2. Runs(TRUE, {}, <<>>, {})
        BY RunsNone
      <4> QED
        BY <2>3, <2>4, <3>1, <4>1, <4>2 DEF Ordered
    <3>2. CASE q # <<>>
      BY <1>1, <1>2, <2>2, <2>3, <2>4, <2>8, <3>2 DEF Keeping, Idle
    <3> QED
      BY <3>1, <3>2
  <2>9. ASSUME todo[t] \in Seq(AliasSteps) PROVE todo'[t] \in Seq(AliasSteps)
    <3>1. todo[t] # <<>>
      BY <1>1 DEF Idle
    <3>2. Upcoming(t) \in AliasSteps /\ Tail(todo[t]) \in Seq(AliasSteps)
      BY <2>9, <3>1 DEF Upcoming
    <3>3. q = Tail(todo[t])
      BY <2>2, <3>2 DEF AliasSteps
    <3> QED
      BY <2>3, <3>2, <3>3
  <2> QED
    BY <2>5, <2>6, <2>7, <2>8, <2>9
<1>3. /\ TypeOK' /\ Exclusive'
      /\ \A u \in Thread \ {t} : todo'[u] = todo[u] /\ Holds(u)' = Holds(u) /\ (Idle(u)' <=> Idle(u))
      /\ Ordered(t)' \/ Keeping(t)'
      /\ Ordered(t) => Ordered(t)'
  <2>1. CASE Ordered(t)
    BY <1>2, <2>1 DEF Ordered
  <2>2. CASE ~Ordered(t)
    <3>1. Keeping(t) /\ Runs(FALSE, Holds(t), todo[t], {})
      BY <2>2 DEF Alone, Aliasing, Keeping
    <3> QED
      BY <1>2, <2>2, <3>1
  <2> QED
    BY <2>1, <2>2
<1>4. \A l \in Locks : \A u \in Thread \ {t} : u \in held'[l] <=> u \in held[l]
  BY <1>3 DEF Holds
<1>5. "registry" \in Locks
  BY DEF Locks
<1>6. Ordered(t)' \/ Alone(t)' \/ Aliasing(t)'
  <2>1. CASE Ordered(t)
    BY <1>3, <2>1
  <2>2. CASE Alone(t)
    BY <1>3, <2>2 DEF Alone
  <2>3. CASE Aliasing(t)
    <3>1. \A u \in Thread \ {t} : todo'[u] \in Seq(Mild) /\ u \notin held'["registry"]
      BY <1>3, <1>4, <1>5, <2>3 DEF Aliasing
    <3>2. todo'[t] \in Seq(AliasSteps)
      BY <1>2, <2>3 DEF Aliasing, Keeping
    <3> QED
      BY <1>3, <3>1, <3>2 DEF Aliasing
  <2> QED
    BY <2>1, <2>2, <2>3
<1>7. ASSUME NEW u \in Thread \ {t} PROVE Ordered(u)' \/ Alone(u)' \/ Aliasing(u)'
  <2>1. CASE Ordered(u)
    BY <1>3, <2>1 DEF Ordered
  <2>2. CASE Alone(u)
    BY <1>1, <2>2 DEF Alone
  <2>3. CASE Aliasing(u)
    <3>1. Keeping(u)'
      BY <1>1, <1>3, <2>3 DEF Aliasing, Keeping
    <3>2. todo'[u] \in Seq(AliasSteps)
      BY <1>3, <2>3 DEF Aliasing
    <3>3. ASSUME NEW v \in Thread \ {u} PROVE todo'[v] \in Seq(Mild) /\ v \notin held'["registry"]
      <4>1. todo[v] \in Seq(Mild) /\ v \notin held["registry"]
        BY <2>3 DEF Aliasing
      <4>2. CASE v = t
        BY <1>1, <4>1, <4>2, MildStep
      <4>3. CASE v # t
        BY <1>3, <1>4, <1>5, <4>1, <4>3
      <4> QED
        BY <4>2, <4>3
    <3> QED
      BY <3>1, <3>2, <3>3 DEF Aliasing
  <2> QED
    BY <2>1, <2>2, <2>3
<1> QED
  BY <1>3, <1>6, <1>7

-----------------------------------------------------------------------------
(* The start of a call.                                                     *)

(* The locks a call starts with.                                            *)
At == IF host = "python" THEN {"gil"} ELSE {}

(* The steps on the interpreter lock.                                       *)
LEMMA GilSteps ==
    /\ "gil" \in Locks /\ "gil" \in Args
    /\ \A op \in {"give", "take"} : /\ Do(op, "gil") \in Steps /\ Do(op, "gil").op = op
                                   /\ Do(op, "gil").arg = "gil"
<1>1. "gil" \in Locks /\ "gil" \in Args
  BY DEF Locks, Args
<1> QED
  BY <1>1, DoIs DEF Ops

(* Giving the interpreter lock up around a body that asks for its locks in  *)
(* order keeps the order.                                                   *)
LEMMA AllowLoops == ASSUME NEW body, Loop(TRUE, {}, body)
                    PROVE  Loop(TRUE, At, AllowThreads(body))
<1>1. CASE host = "python"
  <2> DEFINE x == Do("give", "gil")
             y == Do("take", "gil")
             A == {"gil"}
  <2>1. x \in Steps /\ x.op = "give" /\ x.arg = "gil" /\ y \in Steps /\ y.op = "take" /\ y.arg = "gil"
    BY GilSteps
  <2> HIDE DEF x, y
  <2>2. A \in SUBSET Locks /\ A \ {"gil"} = {} /\ "gil" \in A /\ {} \cup {"gil"} = A
        /\ Asks(TRUE, {}, "gil")
    BY DEF Locks, Asks
  <2> HIDE DEF A
  <2>3. Fine(TRUE, A, x, {}) /\ Fine(TRUE, {}, y, A)
    BY <2>1, <2>2 DEF Fine
  <2>4. Runs(TRUE, A, <<x>>, {}) /\ Runs(TRUE, {}, <<y>>, A)
    BY <2>1, <2>2, <2>3, RunsOne
  <2>5. Runs(TRUE, A, <<x>> \o body, {})
    BY <2>4, RunsOn DEF Loop
  <2>6. Runs(TRUE, A, <<x>> \o body \o <<y>>, A)
    BY <2>4, <2>5, RunsOn
  <2> QED
    BY <1>1, <2>2, <2>6 DEF Loop, AllowThreads, At, x, y, A
<1>2. CASE host # "python"
  BY <1>2 DEF At, AllowThreads
<1> QED
  BY <1>1, <1>2

(* What the thread that starts a call has before it, and the others.        *)
LEMMA StartRuns ==
    ASSUME WaitInv, NEW t \in Thread, NEW steps, Start(t, steps), NEW m \in BOOLEAN,
           Loop(m, At, steps)
    PROVE  /\ TypeOK' /\ Exclusive' /\ host' = host
           /\ Runs(m, Holds(t)', todo'[t], {})
           /\ host = "python" => todo'[t] = steps \o <<Do("give", "gil")>> /\ ~Idle(t)'
           /\ \A u \in Thread \ {t} :
                 /\ Ordered(u) /\ Ordered(u)' /\ todo'[u] = todo[u] /\ (Idle(u)' <=> Idle(u))
                 /\ \A l \in Locks : u \in held'[l] <=> u \in held[l]
<1> USE DEF WaitInv
<1>1. TypeOK /\ Exclusive /\ Idle(t) /\ host' = host
  BY DEF Start
<1>2. Holds(t) = {}
  BY <1>1, IdleHoldsNothing
<1>3. \A u \in Thread : Ordered(u)
  <2> SUFFICES ASSUME NEW u \in Thread, Keeping(u) PROVE FALSE
    BY DEF Alone, Aliasing
  <2>1. u \in held["gil"] /\ host = "python"
    BY KeeperHolds DEF Keeping
  <2> QED
    BY <2>1 DEF Start
<1> DEFINE x == Do("give", "gil")
           q == IF host = "python" THEN steps \o <<x>> ELSE steps
<1>4. x \in Steps /\ x.op = "give" /\ x.arg = "gil" /\ "gil" \in Locks
  BY GilSteps
<1>5. steps \in Seq(Steps) /\ Runs(m, At, steps, At)
  BY DEF Loop, Runs
<1>6. Runs(m, At, q, {}) /\ (host = "python" => q = steps \o <<x>> /\ q # <<>>)
  <2> HIDE DEF x
  <2>1. CASE host = "python"
    <3>1. Fine(m, {"gil"}, x, {})
      BY <1>4 DEF Fine
    <3>2. Runs(m, At, <<x>>, {})
      BY <1>4, <2>1, <3>1, RunsOne DEF At
    <3>3. Runs(m, At, steps \o <<x>>, {})
      BY <1>5, <3>2, RunsOn
    <3>4. steps \o <<x>> # <<>>
      BY <1>4, <1>5
    <3> QED
      BY <2>1, <3>3, <3>4
  <2>2. CASE host # "python"
    BY <1>5, <2>2 DEF At
  <2> QED
    BY <2>1, <2>2
<1>7. Goes(t, q)
  BY DEF Start, Goes
<1> HIDE DEF q, x
<1>8. q \in Seq(Steps)
  BY <1>6 DEF Runs
<1>9. Gives(t, At)
  <2>1. held \in [Locks -> SUBSET Thread] /\ \A l \in Locks : t \notin held[l]
    BY <1>1, IdleHoldsNothing DEF TypeOK
  <2>2. CASE host = "python"
    <3>1. held["gil"] = {} /\ held' = [held EXCEPT !["gil"] = {t}] /\ At = {"gil"}
      BY <2>2 DEF Start, At
    <3> QED
      BY <1>4, <2>1, <3>1 DEF Gives
  <2>3. CASE host # "python"
    <3>1. held' = held /\ At = {}
      BY <2>3 DEF Start, At
    <3> QED
      BY <2>1, <3>1 DEF Gives
  <2> QED
    BY <2>2, <2>3
<1>10. todo' \in [Thread -> Seq(Steps)] /\ todo'[t] = q
  BY <1>1, <1>7, <1>8, TodoTyped
<1>11. TypeOK' /\ Exclusive'
  <2>1. Exclusive'
    BY <1>1, <1>9, StaysExclusive
  <2>2. held' \in [Locks -> SUBSET Thread]
    BY <1>9 DEF Gives
  <2> QED
    BY <1>10, <2>1, <2>2 DEF TypeOK
<1>12. Holds(t)' = At
  <2>1. At \subseteq Locks
    BY <1>4 DEF At
  <2> QED
    BY <1>9, <2>1 DEF Holds, Gives
<1>13. ASSUME NEW u \in Thread \ {t}
       PROVE  /\ Ordered(u) /\ Ordered(u)' /\ todo'[u] = todo[u] /\ (Idle(u)' <=> Idle(u))
              /\ \A l \in Locks : u \in held'[l] <=> u \in held[l]
  <2>1. todo'[u] = todo[u] /\ Holds(u)' = Holds(u) /\ (Idle(u)' <=> Idle(u))
    BY <1>1, <1>7, <1>9, Bystander
  <2> QED
    BY <1>3, <1>9, <2>1 DEF Ordered, Gives
<1> QED
  BY <1>1, <1>6, <1>10, <1>11, <1>12, <1>13 DEF Idle, x

(* A call whose locks are asked for in order.                               *)
LEMMA StartOrdered ==
    ASSUME WaitInv, NEW t \in Thread, NEW steps, Start(t, steps), Loop(TRUE, At, steps)
    PROVE  WaitInv'
<1>1. /\ TypeOK' /\ Exclusive' /\ Runs(TRUE, Holds(t)', todo'[t], {})
      /\ \A u \in Thread \ {t} : Ordered(u)'
  BY StartRuns
<1> QED
  BY <1>1 DEF WaitInv, Ordered

(* A Python call that keeps the interpreter lock, with no other call there. *)
LEMMA StartAlone ==
    ASSUME WaitInv, NEW t \in Thread, NEW steps, Start(t, steps), Loop(FALSE, {"gil"}, steps),
           host = "python", \A u \in Thread \ {t} : Idle(u)
    PROVE  WaitInv'
<1>1. At = {"gil"}
  BY DEF At
<1>2. /\ TypeOK' /\ Exclusive' /\ host' = host /\ Runs(FALSE, Holds(t)', todo'[t], {}) /\ ~Idle(t)'
      /\ \A u \in Thread \ {t} : Ordered(u)' /\ (Idle(u)' <=> Idle(u))
  BY <1>1, StartRuns
<1>3. Alone(t)'
  BY <1>2 DEF Alone, Keeping
<1> QED
  BY <1>2, <1>3 DEF WaitInv

(* One that may wait for the registry, with nobody else in it.              *)
LEMMA StartAliasing ==
    ASSUME WaitInv, NEW t \in Thread, NEW steps \in Seq(AliasSteps), Start(t, steps),
           Loop(FALSE, {"gil"}, steps), host = "python", \A u \in Thread : ~Registering(u)
    PROVE  WaitInv'
<1> DEFINE x == Do("give", "gil")
<1>1. At = {"gil"}
  BY DEF At
<1>2. /\ TypeOK' /\ Exclusive' /\ host' = host /\ Runs(FALSE, Holds(t)', todo'[t], {}) /\ ~Idle(t)'
      /\ todo'[t] = steps \o <<x>>
      /\ \A u \in Thread \ {t} :
            /\ Ordered(u) /\ Ordered(u)' /\ todo'[u] = todo[u]
            /\ \A l \in Locks : u \in held'[l] <=> u \in held[l]
  BY <1>1, StartRuns
<1>3. todo'[t] \in Seq(AliasSteps)
  <2>1. x \in AliasSteps
    BY GilSteps DEF AliasSteps
  <2> HIDE DEF x
  <2> QED
    BY <1>2, <2>1
<1>4. ASSUME NEW u \in Thread \ {t} PROVE todo'[u] \in Seq(Mild) /\ u \notin held'["registry"]
  <2>1. u \notin held["registry"] /\ "registry" \in Locks
    BY DEF Registering, Locks
  <2>2. todo[u] \in Seq(Steps) /\ Runs(TRUE, Holds(u), todo[u], {})
    BY <1>2 DEF WaitInv, TypeOK, Ordered
  <2>3. ASSUME NEW i \in 1..Len(todo[u]) PROVE todo[u][i] \in Mild
    <3>1. todo[u][i] \in Steps
      BY <2>2
    <3>2. PICK h \in [0..Len(todo[u]) -> SUBSET Locks] : Via(TRUE, todo[u], h)
      BY <2>2 DEF Runs
    <3>3. todo[u][i].op = "share" => todo[u][i].arg = "shard"
      BY <3>2 DEF Via, Fine
    <3>4. todo[u][i].op = "take" => todo[u][i].arg # "registry"
      BY DEF Registering, Ahead
    <3> QED
      BY <3>1, <3>3, <3>4 DEF Mild
  <2>4. todo[u] \in Seq(Mild)
    BY <2>2, <2>3
  <2> QED
    BY <1>2, <2>1, <2>4
<1>5. Aliasing(t)'
  BY <1>2, <1>3, <1>4 DEF Aliasing, Keeping
<1> QED
  BY <1>2, <1>5 DEF WaitInv

(* The end of the use of a handle.                                          *)
LEMMA EndUseIs == /\ <<Do("endUse", "")>> = Effect("endUse")
                  /\ Do("endUse", "") \in AliasSteps
<1>1. Do("endUse", "") \in Steps /\ Do("endUse", "").op = "endUse"
  BY DoNone DEF Ops
<1> QED
  BY <1>1 DEF Effect, AliasSteps

(* Calls on a collection handle.                                            *)
LEMMA CollectionKeeps ==
    ASSUME WaitInv, NEW t \in Thread, NEW steps, OnCollection(t, steps), Loop(TRUE, {}, steps)
    PROVE  WaitInv'
  BY AllowLoops, StartOrdered DEF OnCollection

(* Calls on the database handle that ask for their locks in order.          *)
LEMMA DatabaseKeeps ==
    ASSUME WaitInv, NEW t \in Thread, NEW steps, OnDatabase(t, steps), Loop(TRUE, At, steps)
    PROVE  WaitInv'
<1>1. CASE host = "node"
  <2>1. At = {} /\ Base(TRUE) = {}
    BY <1>1 DEF At, Base
  <2>2. Ref(t, "clone") \in Refs
    BY RefIs
  <2>3. Loop(TRUE, At, steps \o DropHandle(Ref(t, "clone")))
    BY <2>1, <2>2, DropLoops, LoopOn
  <2> QED
    BY <1>1, <2>3, StartOrdered DEF OnDatabase
<1>2. CASE host # "node"
  <2>1. At \in SUBSET Locks
    BY DEF Loop
  <2>2. Loop(TRUE, At, <<Do("endUse", "")>>)
    BY <2>1, EffectLoops, EndUseIs
  <2>3. Loop(TRUE, At, steps \o <<Do("endUse", "")>>)
    BY <2>2, LoopOn
  <2> QED
    BY <1>2, <2>3, StartOrdered DEF OnDatabase
<1> QED
  BY <1>1, <1>2

(* Creating or deleting an alias.                                           *)
LEMMA AliasingKeeps == ASSUME WaitInv, NEW t \in Thread, AliasingCall(t), "kept" \notin met'
                       PROVE  WaitInv'
<1>1. CASE host = "python"
  <2> DEFINE e == <<Do("endUse", "")>>
             q == AliasCall \o e
  <2>1. Start(t, q) /\ \A u \in Thread : ~Registering(u)
    BY <1>1 DEF AliasingCall, OnDatabase, Noting, KeptForRegistry
  <2>2. Base(FALSE) = {"gil"} /\ {"gil"} \in SUBSET Locks
    BY DEF Base, Locks
  <2>3. Loop(FALSE, {"gil"}, AliasCall)
    BY <2>2, AliasLoops
  <2>4. Loop(FALSE, {"gil"}, e)
    BY <2>2, EffectLoops, EndUseIs
  <2> HIDE DEF e
  <2>5. /\ \A s \in AliasSteps : <<s>> \in Seq(AliasSteps)
        /\ \A v, w \in Seq(AliasSteps) : v \o w \in Seq(AliasSteps)
    OBVIOUS
  <2>6. AliasCall \in Seq(AliasSteps)
    <3>1. "registry" \in Args /\ "" \in Args
      BY DEF Args, Locks
    <3>2. /\ Do("take", "registry") \in AliasSteps /\ Do("give", "registry") \in AliasSteps
          /\ Do("log", "") \in AliasSteps
      <4>1. /\ Do("take", "registry") \in Steps /\ Do("take", "registry").op = "take"
            /\ Do("take", "registry").arg = "registry"
            /\ Do("give", "registry") \in Steps /\ Do("give", "registry").op = "give"
            /\ Do("log", "") \in Steps /\ Do("log", "").op = "log"
        <5>1. \A op \in Ops : \A arg \in Args :
                 Do(op, arg) \in Steps /\ Do(op, arg).op = op /\ Do(op, arg).arg = arg
          BY DoIs
        <5>2. "take" \in Ops /\ "give" \in Ops /\ "log" \in Ops
          BY DEF Ops
        <5> QED
          BY ONLY <3>1, <5>1, <5>2
      <4> QED
        BY <4>1 DEF AliasSteps
    <3>3. /\ <<Do("take", "registry")>> \in Seq(AliasSteps) /\ Effect("log") \in Seq(AliasSteps)
          /\ <<Do("give", "registry")>> \in Seq(AliasSteps)
      BY <2>5, <3>2 DEF Effect
    <3>4. <<Do("take", "registry")>> \o Effect("log") \in Seq(AliasSteps)
      BY <2>5, <3>3
    <3> QED
      BY <2>5, <3>3, <3>4 DEF AliasCall, Under
  <2>7. Loop(FALSE, {"gil"}, q)
    BY <2>3, <2>4, LoopOn
  <2>8. q \in Seq(AliasSteps)
    <3>1. e \in Seq(AliasSteps)
      BY <2>5, EndUseIs DEF e
    <3> QED
      BY <2>5, <2>6, <3>1
  <2> HIDE DEF q
  <2> QED
    BY <1>1, <2>1, <2>7, <2>8, StartAliasing
<1>2. CASE host # "python"
  <2>1. Loop(TRUE, At, AliasCall)
    BY <1>2, CallsLoop DEF At
  <2> QED
    BY <2>1, DatabaseKeeps DEF AliasingCall
<1> QED
  BY <1>1, <1>2

(* Registering an embedder.                                                 *)
LEMMA RegisterKeeps == ASSUME WaitInv, NEW t \in Thread, RegisterCall(t), "kept" \notin met'
                       PROVE  WaitInv'
<1>1. CASE host = "python"
  <2> DEFINE e == <<Do("endUse", "")>>
  <2>1. Start(t, RegisterEmbedder \o e) /\ \A u \in Thread \ {t} : Idle(u)
    BY <1>1 DEF RegisterCall, OnDatabase, Noting, KeptForEmbedder
  <2>2. Base(FALSE) = {"gil"} /\ {"gil"} \in SUBSET Locks
    BY DEF Base, Locks
  <2>3. Loop(FALSE, {"gil"}, RegisterEmbedder)
    BY <2>2, SealLoops
  <2>4. Loop(FALSE, {"gil"}, e)
    BY <2>2, EffectLoops, EndUseIs
  <2> HIDE DEF e
  <2>5. Loop(FALSE, {"gil"}, RegisterEmbedder \o e)
    BY <2>3, <2>4, LoopOn
  <2> QED
    BY <1>1, <2>1, <2>5, StartAlone
<1>2. CASE host # "python"
  <2>1. Loop(TRUE, At, RegisterEmbedder)
    BY <1>2, CallsLoop DEF At
  <2> QED
    BY <2>1, DatabaseKeeps DEF RegisterCall
<1> QED
  BY <1>1, <1>2

(* Closing the handle.                                                      *)
LEMMA CloseKeeps == ASSUME WaitInv, NEW t \in Thread, CloseCall(t), "kept" \notin met'
                    PROVE  WaitInv'
<1> DEFINE p == IF host = "node" THEN Checkpoint ELSE <<>>
           d == DropHandle(Mine(t))
<1>1. Start(t, p \o d)
  BY DEF CloseCall
<1>2. Mine(t) \in Refs
  BY RefIs DEF Mine, Boxed
<1>3. \A m \in BOOLEAN : Loop(m, Base(m), d)
  BY <1>2, DropLoops
<1>4. \A m \in BOOLEAN : Loop(m, Base(m), p)
  BY BaseIs, LoopNone, SealLoops
<1> HIDE DEF p, d
<1>5. \A m \in BOOLEAN : Loop(m, Base(m), p \o d)
  BY <1>3, <1>4, LoopOn
<1>6. CASE host = "python"
  <2>1. \A u \in Thread \ {t} : Idle(u)
    BY <1>6 DEF CloseCall, Noting, KeptForEmbedder
  <2>2. Loop(FALSE, {"gil"}, p \o d)
    BY <1>5 DEF Base
  <2> QED
    BY <1>1, <1>6, <2>1, <2>2, StartAlone
<1>7. CASE host # "python"
  <2>1. Loop(TRUE, At, p \o d)
    BY <1>5, <1>7 DEF Base, At
  <2> QED
    BY <1>1, <2>1, StartOrdered
<1> QED
  BY <1>6, <1>7

(* Every call keeps what the locks promise.                                 *)
LEMMA CallKeeps == ASSUME WaitInv, "kept" \notin met', NEW t \in Thread, Call(t)
                   PROVE  WaitInv'
<1>1. ASSUME WriteCall(t) \/ WriteTextCall(t) \/ ReadCall(t) \/ SearchTextCall(t) \/ RefitCall(t)
      PROVE  WaitInv'
  BY <1>1, CallsLoop, CollectionKeeps
     DEF WriteCall, WriteTextCall, ReadCall, SearchTextCall, RefitCall
<1>2. ASSUME CheckpointCall(t) \/ CreateCall(t) PROVE WaitInv'
  BY <1>2, CallsLoop, AllowLoops, DatabaseKeeps DEF CheckpointCall, CreateCall, DatabaseCall
<1>3. ASSUME LookupCall(t) PROVE WaitInv'
  <2>1. At \in SUBSET Locks
    BY DEF At, Locks
  <2>2. Loop(TRUE, At, Lookup)
    BY <2>1, EffectLoops DEF Lookup
  <2> QED
    BY <1>3, <2>2, DatabaseKeeps DEF LookupCall, DatabaseCall
<1>4. ASSUME host # "python", SnapshotCall(t) \/ VacuumCall(t) \/ CInfo(t) PROVE WaitInv'
  <2>1. At = {}
    BY <1>4 DEF At
  <2>2. Loop(TRUE, At, Lookup \o Lookup \o Lookup)
    <3>1. Loop(TRUE, At, Lookup \o Lookup)
      BY <2>1, CallsLoop, LoopOn
    <3> QED
      BY <2>1, <3>1, CallsLoop, LoopOn
  <2>3. Loop(TRUE, At, Snapshot) /\ Loop(TRUE, At, Vacuum)
    BY <2>1, CallsLoop
  <2> QED
    BY <1>4, <2>2, <2>3, DatabaseKeeps DEF SnapshotCall, VacuumCall, CInfo, DatabaseCall
<1>5. ASSUME AliasingCall(t) \/ RegisterCall(t) \/ CloseCall(t) PROVE WaitInv'
  BY <1>5, AliasingKeeps, RegisterKeeps, CloseKeeps
<1>6. CASE RustApi(t)
  BY <1>1, <1>2, <1>3, <1>4, <1>5, <1>6 DEF RustApi
<1>7. CASE CApi(t)
  <2>1. host # "python"
    BY <1>7 DEF CApi
  <2> QED
    BY <1>1, <1>2, <1>3, <1>4, <1>5, <1>7, <2>1
       DEF CApi, CCollections, CUpserts, CBatchWrites, CIndexing, CSearch, CSearchBatch, CScroll,
           CSearchText, CHybrid, CMaintenance
<1>8. CASE PyApi(t)
  BY <1>1, <1>2, <1>3, <1>5, <1>8 DEF PyApi, PyWrites, PySearches, PyScrolls
<1>9. CASE NodeApi(t)
  <2>1. host # "python"
    BY <1>9 DEF NodeApi
  <2> QED
    BY <1>1, <1>2, <1>3, <1>4, <1>5, <1>9, <2>1
       DEF NodeApi, NodeRegistry, NodeMaintenance, NodeWrites, NodeSearches, NodeReads
<1> QED
  BY <1>6, <1>7, <1>8, <1>9 DEF Call

(* What has been met stays met.                                             *)
LEMMA MetGrows == Next => met \subseteq met'
<1>1. ASSUME NEW t \in Thread, Step(t) PROVE met' = met
  BY <1>1 DEF Step
<1>2. ASSUME NEW t \in Thread,
             \/ WriteCall(t) \/ WriteTextCall(t) \/ ReadCall(t) \/ SearchTextCall(t) \/ RefitCall(t)
             \/ CheckpointCall(t) \/ CreateCall(t) \/ LookupCall(t) \/ SnapshotCall(t)
             \/ VacuumCall(t) \/ CInfo(t)
      PROVE  met' = met
  BY <1>2 DEF WriteCall, WriteTextCall, ReadCall, SearchTextCall, RefitCall, CheckpointCall,
              CreateCall, LookupCall, SnapshotCall, VacuumCall, CInfo, OnCollection, DatabaseCall
<1>3. ASSUME NEW t \in Thread, AliasingCall(t) \/ RegisterCall(t) \/ CloseCall(t)
      PROVE  met \subseteq met'
  BY <1>3 DEF AliasingCall, RegisterCall, CloseCall, Noting
<1>4. ASSUME NEW t \in Thread, Call(t) PROVE met \subseteq met'
  <2>1. CASE RustApi(t)
    BY <1>2, <1>3, <2>1 DEF RustApi
  <2>2. CASE CApi(t)
    BY <1>2, <1>3, <2>2
       DEF CApi, CCollections, CUpserts, CBatchWrites, CIndexing, CSearch, CSearchBatch, CScroll,
           CSearchText, CHybrid, CMaintenance
  <2>3. CASE PyApi(t)
    BY <1>2, <1>3, <2>3 DEF PyApi, PyWrites, PySearches, PyScrolls
  <2>4. CASE NodeApi(t)
    BY <1>2, <1>3, <2>4
       DEF NodeApi, NodeRegistry, NodeMaintenance, NodeWrites, NodeSearches, NodeReads
  <2> QED
    BY <1>4, <2>1, <2>2, <2>3, <2>4 DEF Call
<1> QED
  BY <1>1, <1>4 DEF Next

(* The locks of the library and the interpreter's, in the hands of any      *)
(* number of threads and of a host that drops its handles one at a time or  *)
(* together, never close a circle of waits: each call asks for the registry,*)
(* the map's shard, the embedder and the interpreter lock in this order, or *)
(* keeps the interpreter lock while nobody can be waiting for it with a     *)
(* lock it needs.  The one exception is the code's own: a Python call that  *)
(* kept the interpreter lock where another could be waiting for it.         *)
THEOREM ThreadsNeverWaitInACircle == Spec => []NoCircularWait
<1> DEFINE Inv == "kept" \notin met => WaitInv
<1>1. Init => Inv
  <2> SUFFICES ASSUME Init PROVE WaitInv
    OBVIOUS
  <2>1. TypeOK /\ Exclusive
    BY DEF Init, TypeOK, Exclusive
  <2>2. \A t \in Thread : Holds(t) = {} /\ todo[t] = <<>>
    BY DEF Init, Holds
  <2>3. Runs(TRUE, {}, <<>>, {})
    BY RunsNone
  <2> QED
    BY <2>1, <2>2, <2>3 DEF WaitInv, Ordered
<1>2. Inv /\ [Next]_vars => Inv'
  <2>1. ASSUME Inv, Next, "kept" \notin met' PROVE WaitInv'
    <3>1. WaitInv
      BY <2>1, MetGrows
    <3> QED
      BY <2>1, <3>1, CallKeeps, StepKeeps DEF Next
  <2>2. ASSUME WaitInv, UNCHANGED vars PROVE WaitInv'
    <3>1. host' = host /\ held' = held /\ todo' = todo
      BY <2>2 DEF vars
    <3>2. TypeOK' /\ Exclusive'
      BY <2>2, <3>1 DEF WaitInv, TypeOK, Exclusive
    <3>3. \A u \in Thread : (Idle(u)' <=> Idle(u)) /\ Holds(u)' = Holds(u)
      BY <3>1 DEF Idle, Holds
    <3>4. \A u \in Thread : (Ordered(u)' <=> Ordered(u)) /\ (Keeping(u)' <=> Keeping(u))
      BY <3>1, <3>3 DEF Ordered, Keeping
    <3>5. \A u \in Thread : (Alone(u)' <=> Alone(u)) /\ (Aliasing(u)' <=> Aliasing(u))
      BY <3>1, <3>3, <3>4 DEF Alone, Aliasing
    <3> QED
      BY <2>2, <3>2, <3>4, <3>5 DEF WaitInv
  <2> QED
    BY <2>1, <2>2 DEF vars
<1>3. Inv => NoCircularWait
  BY NoCircle DEF NoCircularWait
<1> QED
  BY <1>1, <1>2, <1>3, PTL DEF Spec

-----------------------------------------------------------------------------
(* What is ahead in a call.                                                 *)

(* The arguments of the steps op of q.                                      *)
Of(q, op) == {q[i].arg : i \in {j \in 1..Len(q) : q[j].op = op}}

(* Every commit of q is before the release of a reference or the end of the *)
(* use of one, and every count of the references before a release; no       *)
(* reference is released twice; and where the log may trigger a checkpoint, *)
(* nothing is going to be released.                                         *)
Enders(op) == IF op = "commit" THEN {"release", "endUse"} ELSE {"release"}
Ended(op, q) == \E o \in Enders(op) : Of(q, o) # {}
SafeAt(q, i) ==
    /\ q[i].op \in {"commit", "countRefs"} =>
           \E j \in 1..Len(q) : i < j /\ q[j].op \in Enders(q[i].op)
    /\ q[i].op = "release" =>
           \A j \in 1..Len(q) : i < j /\ q[j].op = "release" => q[j].arg # q[i].arg
    /\ q[i].op = "maybeTrigger" => \A j \in 1..Len(q) : i < j => q[j].op # "release"
Safe(q) == \A i \in 1..Len(q) : SafeAt(q, i)

(* Membership in Of.                                                        *)
LEMMA OfIs == ASSUME NEW q \in Seq(Steps), NEW op
              PROVE  /\ \A i \in 1..Len(q) : q[i].op = op => q[i].arg \in Of(q, op)
                     /\ \A r \in Of(q, op) : \E i \in 1..Len(q) : q[i].op = op /\ q[i].arg = r
  BY DEF Of

(* Of two sequences together.                                               *)
LEMMA OfCat == ASSUME NEW p \in Seq(Steps), NEW q \in Seq(Steps), NEW op
               PROVE  Of(p \o q, op) = Of(p, op) \cup Of(q, op)
<1> DEFINE r == p \o q
<1>1. /\ r \in Seq(Steps) /\ Len(r) = Len(p) + Len(q) /\ Len(p) \in Nat /\ Len(q) \in Nat
      /\ \A i \in 1..Len(r) : r[i] = IF i <= Len(p) THEN p[i] ELSE q[i - Len(p)]
  OBVIOUS
<1> HIDE DEF r
<1>2. ASSUME NEW x \in Of(r, op) PROVE x \in Of(p, op) \cup Of(q, op)
  <2>1. PICK i \in 1..Len(r) : r[i].op = op /\ r[i].arg = x
    BY <1>1, OfIs
  <2>2. CASE i <= Len(p)
    <3>1. i \in 1..Len(p) /\ r[i] = p[i]
      BY <1>1, <2>2
    <3> QED
      BY <2>1, <3>1, OfIs
  <2>3. CASE i > Len(p)
    <3>1. i - Len(p) \in 1..Len(q) /\ r[i] = q[i - Len(p)]
      BY <1>1, <2>3
    <3> QED
      BY <2>1, <3>1, OfIs
  <2> QED
    BY <1>1, <2>2, <2>3
<1>3. ASSUME NEW x \in Of(p, op) PROVE x \in Of(r, op)
  <2>1. PICK i \in 1..Len(p) : p[i].op = op /\ p[i].arg = x
    BY <1>3, OfIs
  <2>2. i \in 1..Len(r) /\ r[i] = p[i]
    BY <1>1
  <2> QED
    BY <1>1, <2>1, <2>2, OfIs
<1>4. ASSUME NEW x \in Of(q, op) PROVE x \in Of(r, op)
  <2>1. PICK i \in 1..Len(q) : q[i].op = op /\ q[i].arg = x
    BY <1>4, OfIs
  <2>2. i + Len(p) \in 1..Len(r) /\ ~(i + Len(p) <= Len(p)) /\ (i + Len(p)) - Len(p) = i
    BY <1>1
  <2>3. r[i + Len(p)] = q[i]
    BY <1>1, <2>2
  <2> QED
    BY <1>1, <2>1, <2>2, <2>3, OfIs
<1> QED
  BY <1>2, <1>3, <1>4 DEF r

(* Of a single step, and of none.                                           *)
LEMMA OfOne == ASSUME NEW s \in Steps, NEW op
               PROVE  Of(<<s>>, op) = (IF s.op = op THEN {s.arg} ELSE {}) /\ Of(<<>>, op) = {}
<1>1. <<s>> \in Seq(Steps) /\ Len(<<s>>) = 1 /\ <<s>>[1] = s
  OBVIOUS
<1>2. Of(<<>>, op) = {}
  BY DEF Of
<1> DEFINE q == <<s>>
<1> HIDE DEF q
<1>3. Of(q, op) = IF s.op = op THEN {s.arg} ELSE {}
  BY <1>1 DEF Of, q
<1> QED
  BY <1>2, <1>3 DEF q

(* The first step and the others.                                           *)
LEMMA HeadTail == ASSUME NEW q \in Seq(Steps), q # <<>>
                  PROVE  /\ Head(q) \in Steps /\ Tail(q) \in Seq(Steps)
                         /\ q = <<Head(q)>> \o Tail(q)
                         /\ \A op : Of(q, op) = Of(Tail(q), op)
                                       \cup (IF Head(q).op = op THEN {Head(q).arg} ELSE {})
<1>1. Head(q) \in Steps /\ Tail(q) \in Seq(Steps) /\ Len(Tail(q)) = Len(q) - 1
      /\ Len(q) \in Nat /\ Len(q) > 0
      /\ q[1] = Head(q) /\ \A i \in 1..Len(Tail(q)) : Tail(q)[i] = q[i + 1]
  OBVIOUS
<1> DEFINE p == <<Head(q)>>
           r == p \o Tail(q)
<1>2. p \in Seq(Steps) /\ Len(p) = 1 /\ p[1] = Head(q)
  BY <1>1
<1>3. /\ r \in Seq(Steps) /\ Len(r) = Len(q)
      /\ \A i \in 1..Len(q) : r[i] = IF i <= 1 THEN p[i] ELSE Tail(q)[i - 1]
  BY <1>1, <1>2, ConcatProperties
<1> HIDE DEF r, p
<1>4. \A i \in 1..Len(q) : r[i] = q[i]
  <2> SUFFICES ASSUME NEW i \in 1..Len(q) PROVE r[i] = q[i]
    OBVIOUS
  <2>1. CASE i = 1
    BY <1>1, <1>2, <1>3, <2>1
  <2>2. CASE i # 1
    <3>1. i - 1 \in 1..Len(Tail(q)) /\ (i - 1) + 1 = i /\ ~(i <= 1)
      BY <1>1, <2>2
    <3>2. Tail(q)[i - 1] = q[(i - 1) + 1]
      BY <1>1, <3>1
    <3> QED
      BY <1>3, <3>1, <3>2
  <2> QED
    BY <2>1, <2>2
<1>5. q = r
  BY <1>3, <1>4, SeqEqual
<1>6. ASSUME NEW op
      PROVE  Of(q, op) = Of(Tail(q), op) \cup (IF Head(q).op = op THEN {Head(q).arg} ELSE {})
  <2>1. Of(r, op) = Of(p, op) \cup Of(Tail(q), op)
    BY <1>1, <1>2, OfCat DEF r
  <2>2. Of(p, op) = IF Head(q).op = op THEN {Head(q).arg} ELSE {}
    BY <1>1, OfOne DEF p
  <2> QED
    BY <1>5, <2>1, <2>2
<1> QED
  BY <1>1, <1>5, <1>6 DEF r, p

(* What is safe is safe behind its first step.                              *)
LEMMA SafeTail ==
    ASSUME NEW q \in Seq(Steps), q # <<>>, Safe(q)
    PROVE  /\ Safe(Tail(q))
           /\ Head(q).op \in {"commit", "countRefs"} => Ended(Head(q).op, Tail(q))
           /\ Head(q).op = "release" => Head(q).arg \notin Of(Tail(q), "release")
           /\ Head(q).op = "maybeTrigger" => Of(Tail(q), "release") = {}
<1> DEFINE r == Tail(q)
<1>1. /\ r \in Seq(Steps) /\ Len(r) = Len(q) - 1 /\ Len(q) \in Nat /\ Len(q) > 0
      /\ Head(q) = q[1] /\ \A i \in 1..Len(r) : r[i] = q[i + 1]
  OBVIOUS
<1> HIDE DEF r
<1>2. \A j \in 1..Len(q) : 1 < j => j - 1 \in 1..Len(r) /\ r[j - 1] = q[j]
  <2> SUFFICES ASSUME NEW j \in 1..Len(q), 1 < j PROVE j - 1 \in 1..Len(r) /\ r[j - 1] = q[j]
    OBVIOUS
  <2>1. j - 1 \in 1..Len(r) /\ (j - 1) + 1 = j
    BY <1>1
  <2> QED
    BY <1>1, <2>1
<1>3. SafeAt(q, 1)
  BY <1>1 DEF Safe
<1>4. Head(q).op \in {"commit", "countRefs"} => Ended(Head(q).op, r)
  <2> SUFFICES ASSUME Head(q).op \in {"commit", "countRefs"} PROVE Ended(Head(q).op, r)
    OBVIOUS
  <2>1. PICK j \in 1..Len(q) : 1 < j /\ q[j].op \in Enders(Head(q).op)
    BY <1>1, <1>3 DEF SafeAt
  <2>2. j - 1 \in 1..Len(r) /\ r[j - 1].op \in Enders(Head(q).op)
    BY <1>2, <2>1
  <2>3. Of(r, r[j - 1].op) # {}
    BY <1>1, <2>2, OfIs
  <2> QED
    BY <2>2, <2>3 DEF Ended
<1>5. ASSUME NEW x \in Of(r, "release")
      PROVE  Head(q).op # "maybeTrigger" /\ (Head(q).op = "release" => x # Head(q).arg)
  <2>1. PICK i \in 1..Len(r) : r[i].op = "release" /\ r[i].arg = x
    BY <1>1, OfIs
  <2>2. i + 1 \in 1..Len(q) /\ 1 < i + 1 /\ q[i + 1] = r[i]
    BY <1>1
  <2> QED
    BY <1>1, <1>3, <2>1, <2>2 DEF SafeAt
<1>6. ASSUME NEW i \in 1..Len(r) PROVE SafeAt(r, i)
  <2>1. i + 1 \in 1..Len(q) /\ q[i + 1] = r[i] /\ SafeAt(q, i + 1)
    BY <1>1 DEF Safe
  <2>2. \A j \in 1..Len(r) : j + 1 \in 1..Len(q) /\ q[j + 1] = r[j] /\ (i < j => i + 1 < j + 1)
    BY <1>1
  <2>3. r[i].op \in {"commit", "countRefs"} => \E j \in 1..Len(r) : i < j /\ r[j].op \in Enders(r[i].op)
    <3> SUFFICES ASSUME r[i].op \in {"commit", "countRefs"}
                 PROVE  \E j \in 1..Len(r) : i < j /\ r[j].op \in Enders(r[i].op)
      OBVIOUS
    <3>1. PICK j \in 1..Len(q) : i + 1 < j /\ q[j].op \in Enders(r[i].op)
      BY <2>1 DEF SafeAt
    <3>2. 1 < j /\ i < j - 1
      BY <1>1, <3>1
    <3> QED
      BY <1>2, <3>1, <3>2
  <2> QED
    BY <2>1, <2>2, <2>3 DEF SafeAt
<1> QED
  BY <1>4, <1>5, <1>6 DEF Safe, r

(* What may be put before safe steps.                                       *)
LEMMA SafeCat ==
    ASSUME NEW p \in Seq(Steps), NEW q \in Seq(Steps), Safe(q),
           \A op \in {"commit", "countRefs"} : Of(p, op) # {} => Ended(op, q),
           Of(p, "maybeTrigger") # {} => Of(q, "release") = {},
           Of(p, "release") = {}
    PROVE  Safe(p \o q)
<1> DEFINE r == p \o q
<1>1. /\ r \in Seq(Steps) /\ Len(r) = Len(p) + Len(q) /\ Len(p) \in Nat /\ Len(q) \in Nat
      /\ \A i \in 1..Len(r) : r[i] = IF i <= Len(p) THEN p[i] ELSE q[i - Len(p)]
  OBVIOUS
<1> HIDE DEF r
<1>2. \A j \in 1..Len(q) : j + Len(p) \in 1..Len(r) /\ r[j + Len(p)] = q[j]
  <2> SUFFICES ASSUME NEW j \in 1..Len(q) PROVE j + Len(p) \in 1..Len(r) /\ r[j + Len(p)] = q[j]
    OBVIOUS
  <2>1. j + Len(p) \in 1..Len(r) /\ ~(j + Len(p) <= Len(p)) /\ (j + Len(p)) - Len(p) = j
    BY <1>1
  <2> QED
    BY <1>1, <2>1
<1>3. \A i \in 1..Len(r) : i > Len(p) => i - Len(p) \in 1..Len(q) /\ r[i] = q[i - Len(p)]
  BY <1>1
<1>4. \A i \in 1..Len(r) : i <= Len(p) => i \in 1..Len(p) /\ r[i] = p[i] /\ r[i].op # "release"
  <2> SUFFICES ASSUME NEW i \in 1..Len(r), i <= Len(p)
               PROVE  i \in 1..Len(p) /\ r[i] = p[i] /\ r[i].op # "release"
    OBVIOUS
  <2>1. i \in 1..Len(p) /\ r[i] = p[i]
    BY <1>1
  <2>2. p[i].op # "release"
    BY <2>1, OfIs
  <2> QED
    BY <2>1, <2>2
<1>5. ASSUME NEW i \in 1..Len(r) PROVE SafeAt(r, i)
  <2>1. CASE i <= Len(p)
    <3>1. i \in 1..Len(p) /\ r[i] = p[i] /\ r[i].op # "release"
      BY <1>4, <2>1
    <3>2. r[i].op \in {"commit", "countRefs"} => \E j \in 1..Len(r) : i < j /\ r[j].op \in Enders(r[i].op)
      <4> SUFFICES ASSUME r[i].op \in {"commit", "countRefs"}
                   PROVE  \E j \in 1..Len(r) : i < j /\ r[j].op \in Enders(r[i].op)
        OBVIOUS
      <4>1. PICK j \in 1..Len(q) : q[j].op \in Enders(r[i].op)
        <5>1. Of(p, r[i].op) # {}
          BY <3>1, OfIs
        <5>2. PICK op \in Enders(r[i].op) : Of(q, op) # {}
          BY <5>1 DEF Ended
        <5>3. PICK x : x \in Of(q, op)
          BY <5>2
        <5> QED
          BY <5>3, OfIs
      <4>2. i < j + Len(p)
        BY <1>1, <2>1
      <4> QED
        BY <1>2, <4>1, <4>2
    <3>3. ASSUME r[i].op = "maybeTrigger", NEW j \in 1..Len(r) PROVE r[j].op # "release"
      <4>1. CASE j <= Len(p)
        BY <1>4, <4>1
      <4>2. CASE j > Len(p)
        <5>1. Of(q, "release") = {}
          BY <3>1, <3>3, OfIs
        <5> QED
          BY <1>3, <4>2, <5>1, OfIs
      <4> QED
        BY <1>1, <4>1, <4>2
    <3> QED
      BY <3>1, <3>2, <3>3 DEF SafeAt
  <2>2. CASE i > Len(p)
    <3>1. i - Len(p) \in 1..Len(q) /\ r[i] = q[i - Len(p)] /\ SafeAt(q, i - Len(p))
      BY <1>3, <2>2 DEF Safe
    <3>2. r[i].op \in {"commit", "countRefs"} => \E j \in 1..Len(r) : i < j /\ r[j].op \in Enders(r[i].op)
      <4> SUFFICES ASSUME r[i].op \in {"commit", "countRefs"}
                   PROVE  \E j \in 1..Len(r) : i < j /\ r[j].op \in Enders(r[i].op)
        OBVIOUS
      <4>1. PICK j \in 1..Len(q) : i - Len(p) < j /\ q[j].op \in Enders(r[i].op)
        BY <3>1 DEF SafeAt
      <4>2. i < j + Len(p)
        BY <1>1, <4>1
      <4> QED
        BY <1>2, <4>1, <4>2
    <3>3. \A j \in 1..Len(r) : i < j => /\ j - Len(p) \in 1..Len(q) /\ r[j] = q[j - Len(p)]
                                        /\ i - Len(p) < j - Len(p)
      BY <1>1, <1>3, <2>2
    <3> QED
      BY <3>1, <3>2, <3>3 DEF SafeAt
  <2> QED
    BY <1>1, <2>1, <2>2
<1> QED
  BY <1>5 DEF Safe, r

(* A release before steps that do not release it again, and nothing.        *)
LEMMA SafeRelease ==
    ASSUME NEW s \in Steps, s.op = "release", NEW q \in Seq(Steps), Safe(q),
           s.arg \notin Of(q, "release")
    PROVE  Safe(<<s>> \o q)
<1> DEFINE p == <<s>>
           r == p \o q
<1>1. p \in Seq(Steps) /\ Len(p) = 1 /\ p[1] = s
  OBVIOUS
<1>2. /\ r \in Seq(Steps) /\ Len(r) = 1 + Len(q) /\ Len(q) \in Nat
      /\ \A i \in 1..Len(r) : r[i] = IF i <= 1 THEN p[i] ELSE q[i - 1]
  BY <1>1, ConcatProperties
<1> HIDE DEF r, p
<1>3. r[1] = s
  BY <1>1, <1>2
<1>4. \A i \in 1..Len(r) : i > 1 => i - 1 \in 1..Len(q) /\ r[i] = q[i - 1]
  BY <1>2
<1>5. \A j \in 1..Len(q) : j + 1 \in 1..Len(r) /\ r[j + 1] = q[j]
  <2> SUFFICES ASSUME NEW j \in 1..Len(q) PROVE j + 1 \in 1..Len(r) /\ r[j + 1] = q[j]
    OBVIOUS
  <2>1. j + 1 \in 1..Len(r) /\ ~(j + 1 <= 1) /\ (j + 1) - 1 = j
    BY <1>2
  <2> QED
    BY <1>2, <2>1
<1>6. ASSUME NEW i \in 1..Len(r) PROVE SafeAt(r, i)
  <2>1. CASE i = 1
    <3>1. \A j \in 1..Len(r) : i < j /\ r[j].op = "release" => r[j].arg # s.arg
      BY <1>4, <2>1, OfIs
    <3> QED
      BY <1>3, <2>1, <3>1 DEF SafeAt
  <2>2. CASE i > 1
    <3>1. i - 1 \in 1..Len(q) /\ r[i] = q[i - 1] /\ SafeAt(q, i - 1)
      BY <1>4, <2>2 DEF Safe
    <3>2. r[i].op \in {"commit", "countRefs"} => \E j \in 1..Len(r) : i < j /\ r[j].op \in Enders(r[i].op)
      <4> SUFFICES ASSUME r[i].op \in {"commit", "countRefs"}
                   PROVE  \E j \in 1..Len(r) : i < j /\ r[j].op \in Enders(r[i].op)
        OBVIOUS
      <4>1. PICK j \in 1..Len(q) : i - 1 < j /\ q[j].op \in Enders(r[i].op)
        BY <3>1 DEF SafeAt
      <4>2. i < j + 1
        BY <4>1
      <4> QED
        BY <1>5, <4>1, <4>2
    <3>3. \A j \in 1..Len(r) : i < j => j - 1 \in 1..Len(q) /\ r[j] = q[j - 1] /\ i - 1 < j - 1
      BY <1>2, <1>4, <2>2
    <3> QED
      BY <3>1, <3>2, <3>3 DEF SafeAt
  <2> QED
    BY <1>2, <2>1, <2>2
<1> QED
  BY <1>6 DEF Safe, r, p

(* Nothing is safe.                                                         *)
LEMMA SafeNone == Safe(<<>>)
  BY DEF Safe

-----------------------------------------------------------------------------
(* The steps calls are made of.                                             *)

(* Steps of these kinds.                                                    *)
With(O) == {s \in Steps : s.op \in O}

(* The kinds any call may have, those of a call on a collection, and those  *)
(* of a call on the database, without the end of its use of the handle.     *)
Plain   == {"take", "give", "share", "unshare", "enter", "log", "read"}
CollOps == Plain \cup {"maybeTrigger"}
BaseOps == Plain \cup {"lookup", "insert", "commit"}

(* Steps of other kinds are not there.                                      *)
LEMMA WithOf == ASSUME NEW O, NEW q \in Seq(With(O))
                PROVE  q \in Seq(Steps) /\ \A op : op \notin O => Of(q, op) = {}
<1>1. \A i \in 1..Len(q) : q[i] \in Steps /\ q[i].op \in O
  BY DEF With
<1>2. q \in Seq(Steps)
  BY DEF With
<1> QED
  BY <1>1, <1>2, OfIs

(* Sequences of such steps, put together.                                   *)
LEMMA WithCat == ASSUME NEW O
                 PROVE  /\ <<>> \in Seq(With(O))
                        /\ \A p, q \in Seq(With(O)) : p \o q \in Seq(With(O))
  OBVIOUS

(* A step of such a kind.                                                   *)
LEMMA WithDo == ASSUME NEW O \in SUBSET Ops, NEW op \in O, NEW arg \in Args
                PROVE  <<Do(op, arg)>> \in Seq(With(O))
<1>1. Do(op, arg) \in With(O)
  BY DoIs DEF With
<1> QED
  BY ONLY <1>1

(* Bodies of such steps, with the locks around them.                        *)
LEMMA WithBodies ==
    ASSUME NEW O \in SUBSET Ops, Plain \subseteq O, NEW b \in Seq(With(O))
    PROVE  /\ \A l \in Locks : Under(l, b) \in Seq(With(O))
           /\ Sharing(b) \in Seq(With(O)) /\ AllowThreads(b) \in Seq(With(O))
           /\ Callback \in Seq(With(O))
<1>1. /\ \A l \in Locks : l \in Args
      /\ "shard" \in Args /\ "gil" \in Locks
  BY DEF Args, Locks
<1>2. /\ \A l \in Locks : <<Do("take", l)>> \in Seq(With(O)) /\ <<Do("give", l)>> \in Seq(With(O))
      /\ <<Do("share", "shard")>> \in Seq(With(O)) /\ <<Do("unshare", "shard")>> \in Seq(With(O))
      /\ <<Do("enter", "gil")>> \in Seq(With(O))
  BY <1>1, WithDo DEF Plain
<1>3. \A l \in Locks : Under(l, b) \in Seq(With(O))
  BY <1>2, WithCat DEF Under
<1>4. Sharing(b) \in Seq(With(O))
  BY <1>2, WithCat DEF Sharing
<1>5. AllowThreads(b) \in Seq(With(O))
  <2>1. <<Do("give", "gil")>> \o b \o <<Do("take", "gil")>> \in Seq(With(O))
    BY <1>1, <1>2, WithCat
  <2> QED
    BY <2>1 DEF AllowThreads
<1>6. Callback \in Seq(With(O))
  BY <1>2, WithCat DEF Callback
<1> QED
  BY <1>3, <1>4, <1>5, <1>6

(* The calls on a collection.                                               *)
LEMMA CollectionBodies ==
    /\ WritePoints \in Seq(With(CollOps)) /\ ReadPoints \in Seq(With(CollOps))
    /\ UpsertText \in Seq(With(CollOps)) /\ Refit \in Seq(With(CollOps))
    /\ \A stale \in BOOLEAN : SearchText(stale) \in Seq(With(CollOps))
<1>1. CollOps \in SUBSET Ops /\ Plain \subseteq CollOps /\ "" \in Args /\ "embedder" \in Locks
  BY DEF CollOps, Plain, Ops, Args, Locks
<1> DEFINE Q == Seq(With(CollOps))
<1>2. \A op \in CollOps : Effect(op) \in Q
  BY <1>1, WithDo DEF Effect
<1>3. "log" \in CollOps /\ "read" \in CollOps /\ "maybeTrigger" \in CollOps
  BY DEF CollOps, Plain
<1>4. Effect("log") \in Q /\ Effect("read") \in Q /\ AfterWrite \in Q
  BY <1>2, <1>3 DEF AfterWrite
<1>5. Ask \in Q
  <2>1. Callback \in Q
    BY <1>1, <1>4, WithBodies
  <2> QED
    BY <1>1, <2>1, WithBodies DEF Ask
<1>6. \A p, q \in Q : p \o q \in Q
  BY WithCat
<1> HIDE DEF Q
<1>7. Refit \in Q
  <2>1. Ask \o Effect("log") \in Q
    BY <1>4, <1>5, <1>6
  <2>2. Ask \o Effect("log") \o AfterWrite \in Q
    BY <1>4, <1>6, <2>1
  <2>3. Ask \o Effect("log") \o AfterWrite \o Ask \in Q
    BY <1>5, <1>6, <2>2
  <2>4. Ask \o Effect("log") \o AfterWrite \o Ask \o Effect("log") \in Q
    BY <1>4, <1>6, <2>3
  <2> QED
    BY <2>4 DEF Refit, Ask
<1>8. UpsertText \in Q
  <2>1. Ask \o Effect("log") \in Q
    BY <1>4, <1>5, <1>6
  <2> QED
    BY <1>4, <1>6, <2>1 DEF UpsertText, Ask
<1>9. \A stale \in BOOLEAN : SearchText(stale) \in Q
  BY <1>5, <1>6, <1>7 DEF SearchText
<1> QED
  BY <1>4, <1>6, <1>7, <1>8, <1>9 DEF Q, WritePoints, ReadPoints

(* The calls on the database.                                               *)
LEMMA DatabaseBodies ==
    /\ Checkpoint \in Seq(With(BaseOps)) /\ Snapshot \in Seq(With(BaseOps))
    /\ Vacuum \in Seq(With(BaseOps)) /\ CreateCollection \in Seq(With(BaseOps))
    /\ AliasCall \in Seq(With(BaseOps)) /\ RegisterEmbedder \in Seq(With(BaseOps))
    /\ Lookup \in Seq(With(BaseOps)) /\ (Lookup \o Lookup \o Lookup) \in Seq(With(BaseOps))
    /\ AllowThreads(Checkpoint) \in Seq(With(BaseOps))
    /\ AllowThreads(CreateCollection) \in Seq(With(BaseOps))
<1>1. /\ BaseOps \in SUBSET Ops /\ Plain \subseteq BaseOps /\ "" \in Args
      /\ "embedder" \in Locks /\ "registry" \in Locks
  BY DEF BaseOps, Plain, Ops, Args, Locks
<1> DEFINE Q == Seq(With(BaseOps))
<1>2. \A op \in BaseOps : Effect(op) \in Q
  BY <1>1, WithDo DEF Effect
<1>3. \A op \in {"log", "read", "lookup", "insert", "commit"} : op \in BaseOps
  BY DEF BaseOps, Plain
<1>4. /\ Effect("log") \in Q /\ Effect("read") \in Q /\ Effect("insert") \in Q
      /\ Effect("commit") \in Q /\ Lookup \in Q
  BY <1>2, <1>3 DEF Lookup
<1>5. \A b \in Q : /\ Under("embedder", b) \in Q /\ Under("registry", b) \in Q /\ Sharing(b) \in Q
                   /\ AllowThreads(b) \in Q /\ Callback \in Q
  BY <1>1, WithBodies
<1>6. \A p, q \in Q : p \o q \in Q
  BY WithCat
<1> HIDE DEF Q
<1>7. Seal \in Q /\ RegisterEmbedder \in Q
  <2>1. Callback \in Q
    BY <1>4, <1>5
  <2>2. Under("embedder", Callback) \in Q
    BY <1>5, <2>1
  <2> QED
    BY <1>5, <2>2 DEF Seal, RegisterEmbedder
<1>8. Checkpoint \in Q
  BY <1>4, <1>6, <1>7 DEF Checkpoint
<1>9. Snapshot \in Q
  <2>1. Checkpoint \o Seal \in Q
    BY <1>6, <1>7, <1>8
  <2> QED
    BY <1>4, <1>6, <2>1 DEF Snapshot
<1>10. Vacuum \in Q
  <2>1. Sharing(Effect("read")) \in Q
    BY <1>4, <1>5
  <2> QED
    BY <1>6, <1>8, <2>1 DEF Vacuum
<1>11. CreateCollection \in Q /\ AliasCall \in Q
  <2>1. Effect("log") \o Effect("insert") \in Q
    BY <1>4, <1>6
  <2> QED
    BY <1>4, <1>5, <2>1 DEF CreateCollection, AliasCall
<1>12. (Lookup \o Lookup \o Lookup) \in Q
  <2>1. Lookup \o Lookup \in Q
    BY <1>4, <1>6
  <2> QED
    BY <1>4, <1>6, <2>1
<1> QED
  BY <1>4, <1>5, <1>7, <1>8, <1>9, <1>10, <1>11, <1>12 DEF Q

(* A checkpoint commits.                                                    *)
LEMMA CheckpointCommits == Of(Checkpoint, "commit") # {}
<1>1. Seal \in Seq(Steps) /\ Effect("commit") \in Seq(Steps)
  <2>1. Loop(TRUE, Base(TRUE), Seal)
    BY SealLoops
  <2>2. Do("commit", "") \in Steps
    BY DoNone DEF Ops
  <2> QED
    <3>1. Seal \in Seq(Steps)
      BY <2>1 DEF Loop, Runs
    <3>2. Effect("commit") \in Seq(Steps)
      <4>1. \A v \in Steps : <<v>> \in Seq(Steps)
        OBVIOUS
      <4> QED
        BY <2>2, <4>1 DEF Effect
    <3> QED
      BY <3>1, <3>2
<1>2. Do("commit", "") \in Steps /\ Do("commit", "").op = "commit"
  BY DoNone DEF Ops
<1>3. Of(Effect("commit"), "commit") # {}
  BY <1>2, OfOne DEF Effect
<1> QED
  BY <1>1, <1>3, OfCat DEF Checkpoint

(* What safe steps have ahead, they end.                                    *)
LEMMA SafeEnds == ASSUME NEW q \in Seq(Steps), Safe(q), NEW op \in {"commit", "countRefs"},
                         Of(q, op) # {}
                  PROVE  Ended(op, q)
<1>1. PICK x : x \in Of(q, op)
  OBVIOUS
<1>2. PICK i \in 1..Len(q) : q[i].op = op
  BY <1>1, OfIs
<1>3. PICK j \in 1..Len(q) : q[j].op \in Enders(op)
  BY <1>2 DEF Safe, SafeAt
<1> QED
  BY <1>3, OfIs DEF Ended

-----------------------------------------------------------------------------
(* The references a call has.                                               *)

(* What t's call is going to release, whether it uses its thread's handle,  *)
(* the references after which it counts, and whether it will commit.        *)
Pins(t)    == Of(todo[t], "release")
Uses(t)    == Of(todo[t], "endUse") # {}
Counts(t)  == Of(todo[t], "countRefs")
Commits(t) == Of(todo[t], "commit") # {}

(* Every reference a call is going to release is there, and no other call   *)
(* releases it; a handle in use is there and nobody releases it; clones and *)
(* upgrades are released by the thread that made them.                      *)
HandleInv ==
    /\ todo \in [Thread -> Seq(Steps)] /\ host \in AllHosts
    /\ \A t \in Thread : Safe(todo[t]) /\ Pins(t) \subseteq refs
    /\ \A t, u \in Thread : t # u => Pins(t) \cap Pins(u) = {}
    /\ \A t \in Thread : Uses(t) => /\ host # "node" /\ Mine(t) \in refs
                                   /\ \A u \in Thread : Mine(t) \notin Pins(u)
    /\ \A t \in Thread : \A r \in Pins(t) : r.as = "handle" \/ r.by = t

(* What a call has ahead is a step of it.                                   *)
LEMMA AheadIs == ASSUME NEW t \in Thread, NEW op
                 PROVE  /\ Ahead(t, op) # {} <=> Of(todo[t], op) # {}
                        /\ \A r : Releasing(t, r) <=> r \in Pins(t)
<1>1. Ahead(t, op) # {} <=> Of(todo[t], op) # {}
  BY DEF Ahead, Of
<1>2. \A r : Releasing(t, r) <=> r \in Pins(t)
  BY DEF Releasing, Ahead, Of, Pins
<1> QED
  BY <1>1, <1>2

(* The fields of a reference.                                               *)
LEMMA RefFields == ASSUME NEW t, NEW as
                   PROVE  Ref(t, as).by = t /\ Ref(t, as).as = as
  BY DEF Ref

(* Steps before q that leave the references alone.                          *)
LEMMA Prefixed ==
    ASSUME NEW p \in Seq(Steps), NEW q \in Seq(Steps), Safe(q),
           \A op \in {"release", "endUse", "countRefs", "maybeTrigger"} : Of(p, op) = {},
           Of(p, "commit") # {} => Ended("commit", q)
    PROVE  /\ p \o q \in Seq(Steps) /\ Safe(p \o q)
           /\ \A op \in {"release", "endUse", "countRefs"} : Of(p \o q, op) = Of(q, op)
           /\ Of(p \o q, "commit") = Of(p, "commit") \cup Of(q, "commit")
<1>1. \A op : Of(p \o q, op) = Of(p, op) \cup Of(q, op)
  BY OfCat
<1>2. Safe(p \o q)
  BY SafeCat
<1>3. ASSUME NEW op \in {"release", "endUse", "countRefs"} PROVE Of(p \o q, op) = Of(q, op)
  <2>1. Of(p, op) = {} /\ Of(p \o q, op) = Of(p, op) \cup Of(q, op)
    BY <1>1
  <2> QED
    BY <2>1
<1>4. p \o q \in Seq(Steps)
  OBVIOUS
<1> QED
  BY <1>1, <1>2, <1>3, <1>4

(* What a step of t does to what its call, of which q is left, has ahead.   *)
Moved(t, q) ==
    /\ q \in Seq(Steps) /\ Goes(t, q) /\ Safe(q) /\ host' = host
    /\ Of(q, "endUse") \subseteq Of(todo[t], "endUse")
    /\ Of(q, "countRefs") \subseteq Counts(t)
    /\ owed' => owed /\ (Commits(t) => Of(q, "commit") # {})
    /\ \A c \in Counts(t) : \/ c \in Of(q, "countRefs") \/ Of(q, "commit") # {}
                            \/ Cardinality(refs) # 1 /\ refs' = refs
    /\ \/ refs' = refs /\ Of(q, "release") = Pins(t)
       \/ \E r \in Pins(t) : refs' = refs \ {r} /\ Of(q, "release") = Pins(t) \ {r}
       \/ /\ refs' = refs \cup {Ref(t, "trigger")} /\ Pins(t) = {}
          /\ Of(q, "release") = {Ref(t, "trigger")} /\ Of(q, "commit") # {}

(* A step of a call moves it so.                                            *)
LEMMA StepMoves ==
    ASSUME NEW t \in Thread, todo \in [Thread -> Seq(Steps)], Safe(todo[t]), Step(t)
    PROVE  \E q : Moved(t, q)
<1> DEFINE s == Head(todo[t])
           q == Tail(todo[t])
<1>1. todo[t] \in Seq(Steps) /\ todo[t] # <<>> /\ host' = host
  BY DEF Step, Idle
<1>2. /\ s \in Steps /\ q \in Seq(Steps) /\ Safe(q)
      /\ \A op : Of(todo[t], op) = Of(q, op) \cup (IF s.op = op THEN {s.arg} ELSE {})
  BY <1>1, HeadTail, SafeTail
<1>3. /\ s.op \in {"commit", "countRefs"} => Ended(s.op, q)
      /\ s.op = "release" => s.arg \notin Of(q, "release")
      /\ s.op = "maybeTrigger" => Of(q, "release") = {}
  BY <1>1, SafeTail
<1>4. Rest(t) = [todo EXCEPT ![t] = q] /\ Upcoming(t) = s
  BY DEF Rest, Upcoming
<1> HIDE DEF s, q
<1>5. <<>> \in Seq(Steps) /\ <<>> \o q = q /\ \A op : Of(<<>>, op) = {}
  <2>1. <<>> \in Seq(Steps) /\ <<>> \o q = q
    BY <1>2
  <2>2. \A op : Of(<<>>, op) = {}
    BY <1>2, OfOne
  <2> QED
    BY <2>1, <2>2
<1>6. ASSUME NEW p \in Seq(Steps), Goes(t, p \o q), s.op # "release", refs' = refs, owed' => owed,
             \A op \in {"release", "endUse", "countRefs", "maybeTrigger"} : Of(p, op) = {},
             Of(p, "commit") # {} => Ended("commit", q),
             s.op = "commit" => ~owed',
             s.op = "countRefs" => Of(p, "commit") # {} \/ Cardinality(refs) # 1
      PROVE  Moved(t, p \o q)
  <2>1. /\ p \o q \in Seq(Steps) /\ Safe(p \o q)
        /\ \A op \in {"release", "endUse", "countRefs"} : Of(p \o q, op) = Of(q, op)
        /\ Of(p \o q, "commit") = Of(p, "commit") \cup Of(q, "commit")
    BY <1>2, <1>6, Prefixed
  <2>2. Of(p \o q, "release") = Pins(t)
    <3>1. Of(todo[t], "release") = Of(q, "release")
      BY <1>2, <1>6
    <3> QED
      BY <2>1, <3>1 DEF Pins
  <2>3. Of(p \o q, "endUse") \subseteq Of(todo[t], "endUse") /\ Of(p \o q, "countRefs") \subseteq Counts(t)
    BY <1>2, <2>1 DEF Counts
  <2>4. owed' => owed /\ (Commits(t) => Of(p \o q, "commit") # {})
    BY <1>2, <1>6, <2>1 DEF Commits
  <2>5. \A c \in Counts(t) : \/ c \in Of(p \o q, "countRefs") \/ Of(p \o q, "commit") # {}
                             \/ Cardinality(refs) # 1 /\ refs' = refs
    BY <1>2, <1>6, <2>1 DEF Counts
  <2> HIDE DEF q
  <2> QED
    BY <1>1, <1>6, <2>1, <2>2, <2>3, <2>4, <2>5 DEF Moved
<1>7. CASE Locking(t) \/ Unlocking(t) \/ Log(t) \/ Commit(t) \/ Pass(t)
  <2>1. /\ todo' = Rest(t) /\ refs' = refs /\ s.op \notin {"release", "countRefs"} /\ (owed' => owed)
        /\ s.op = "commit" => ~owed'
    BY <1>4, <1>7 DEF Locking, Unlocking, Log, Commit, Pass
  <2>2. Goes(t, <<>> \o q)
    BY <1>4, <1>5, <2>1 DEF Goes
  <2> QED
    BY <1>5, <1>6, <2>1, <2>2
<1>8. CASE EnterCallback(t)
  <2> DEFINE p == IF held["gil"] = {t} THEN <<>> ELSE <<Do("give", "gil")>>
  <2>1. s.op = "enter" /\ refs' = refs /\ owed' = owed
    BY <1>4, <1>8 DEF EnterCallback
  <2>2. Goes(t, p \o q)
    BY <1>8 DEF EnterCallback, Goes, q
  <2>3. p \in Seq(Steps) /\ \A op : op # "give" => Of(p, op) = {}
    <3>1. Do("give", "gil") \in Steps /\ Do("give", "gil").op = "give"
      BY GilSteps
    <3>2. <<Do("give", "gil")>> \in Seq(Steps)
      BY <3>1
    <3>3. \A op : op # "give" => Of(<<Do("give", "gil")>>, op) = {}
      BY <3>1, OfOne
    <3> QED
      BY <1>5, <3>2, <3>3
  <2> HIDE DEF p
  <2>4. /\ \A op \in {"release", "endUse", "countRefs", "maybeTrigger"} : Of(p, op) = {}
        /\ Of(p, "commit") = {}
    BY <2>3
  <2> QED
    BY <1>6, <2>1, <2>2, <2>3, <2>4
<1>9. Checkpoint \in Seq(Steps) /\ \A op : op \notin BaseOps => Of(Checkpoint, op) = {}
  BY DatabaseBodies, WithOf
<1>10. \A op \in {"release", "endUse", "countRefs", "maybeTrigger"} : Of(Checkpoint, op) = {}
  BY <1>9 DEF BaseOps, Plain
<1>11. CASE CountRefs(t)
  <2> DEFINE p == IF Cardinality(refs) = 1 THEN Checkpoint ELSE <<>>
  <2>1. s.op = "countRefs" /\ refs' = refs /\ owed' = owed /\ Goes(t, p \o q)
    BY <1>4, <1>11 DEF CountRefs, Goes, q
  <2>2. /\ p \in Seq(Steps)
        /\ \A op \in {"release", "endUse", "countRefs", "maybeTrigger"} : Of(p, op) = {}
        /\ Of(p, "commit") # {} \/ Cardinality(refs) # 1
    BY <1>5, <1>9, <1>10, CheckpointCommits
  <2>3. Ended("commit", q)
    BY <1>3, <2>1 DEF Ended, Enders
  <2> HIDE DEF p
  <2> QED
    BY <1>6, <2>1, <2>2, <2>3
<1>12. CASE Release(t)
  <2>1. /\ todo' = Rest(t) /\ refs' = refs \ {s.arg} /\ s.op = "release" /\ owed' = owed
    BY <1>4, <1>12 DEF Release
  <2>2. Goes(t, q)
    BY <1>4, <2>1 DEF Goes
  <2>3. s.arg \in Pins(t) /\ Of(q, "release") = Pins(t) \ {s.arg}
    BY <1>2, <1>3, <2>1 DEF Pins
  <2>4. \A op \in {"endUse", "countRefs", "commit"} : Of(q, op) = Of(todo[t], op)
    BY <1>2, <2>1
  <2>5. Moved(t, q)
    BY <1>1, <1>2, <2>1, <2>2, <2>3, <2>4 DEF Moved, Counts, Commits
  <2> QED
    BY <2>5
<1>13. CASE Trigger(t)
  <2>1. s.op = "maybeTrigger" /\ owed' = owed
    BY <1>4, <1>13 DEF Trigger
  <2>2. CASE todo' = Rest(t) /\ refs' = refs
    <3>1. Goes(t, <<>> \o q)
      BY <1>4, <1>5, <2>2 DEF Goes
    <3> QED
      BY <1>5, <1>6, <2>1, <2>2, <3>1
  <2>3. CASE ~(todo' = Rest(t) /\ refs' = refs)
    <3> DEFINE x == Do("release", Ref(t, "trigger"))
               r == <<x>> \o q
    <3>1. refs' = refs \cup {Ref(t, "trigger")} /\ Goes(t, Checkpoint \o <<x>> \o q)
      BY <1>13, <2>3 DEF Trigger, Goes, q
    <3>2. x \in Steps /\ x.op = "release" /\ x.arg = Ref(t, "trigger")
      BY RefIs, DoIs DEF Ops
    <3> HIDE DEF x
    <3>3. <<x>> \in Seq(Steps) /\ r \in Seq(Steps)
      BY <1>2, <3>2
    <3>4. \A op : Of(r, op) = (IF op = "release" THEN {Ref(t, "trigger")} ELSE {}) \cup Of(q, op)
      <4>1. \A op : Of(<<x>>, op) = IF op = "release" THEN {Ref(t, "trigger")} ELSE {}
        BY <3>2, OfOne
      <4>2. \A op : Of(r, op) = Of(<<x>>, op) \cup Of(q, op)
        BY <1>2, <3>3, OfCat
      <4> QED
        BY <4>1, <4>2
    <3>5. Safe(r)
      BY <1>2, <1>3, <2>1, <3>2, SafeRelease
    <3>6. Checkpoint \o <<x>> \o q = Checkpoint \o r
      BY <1>2, <1>9, <3>3, ConcatAssociative
    <3> HIDE DEF r
    <3>7. Ended("commit", r)
      BY <3>4 DEF Ended, Enders
    <3> DEFINE p == Checkpoint \o r
    <3>8. /\ p \in Seq(Steps) /\ Safe(p)
          /\ \A op \in {"release", "endUse", "countRefs"} : Of(p, op) = Of(r, op)
          /\ Of(p, "commit") # {}
      BY <1>9, <1>10, <3>3, <3>5, <3>7, Prefixed, CheckpointCommits
    <3> HIDE DEF p
    <3>9. Goes(t, p)
      BY <3>1, <3>6 DEF p
    <3>10. \A op \in {"release", "endUse", "countRefs"} : Of(todo[t], op) = Of(q, op)
      BY <1>2, <2>1
    <3>11. Of(p, "release") = {Ref(t, "trigger")} /\ Pins(t) = {}
      BY <1>3, <2>1, <3>4, <3>8, <3>10 DEF Pins
    <3>12. Of(p, "endUse") = Of(todo[t], "endUse") /\ Of(p, "countRefs") = Counts(t)
      BY <3>4, <3>8, <3>10 DEF Counts
    <3>13. Moved(t, p)
      BY <1>1, <2>1, <3>1, <3>8, <3>9, <3>11, <3>12 DEF Moved
    <3> QED
      BY <3>13
  <2> QED
    BY <2>2, <2>3
<1> QED
  BY <1>7, <1>8, <1>11, <1>12, <1>13 DEF Step

(* Steps that have nothing to do with references are safe.                  *)
LEMMA SafePlain ==
    ASSUME NEW q \in Seq(Steps), Of(q, "release") = {}, Of(q, "commit") = {}, Of(q, "countRefs") = {}
    PROVE  Safe(q)
<1> SUFFICES ASSUME NEW i \in 1..Len(q) PROVE SafeAt(q, i)
  BY DEF Safe
<1>1. \A j \in 1..Len(q) : q[j].op \notin {"release", "commit", "countRefs"}
  BY OfIs
<1> QED
  BY <1>1 DEF SafeAt

(* The interpreter lock given back at the end leaves a call safe.           *)
LEMMA SafeThen ==
    ASSUME NEW p \in Seq(Steps), Safe(p), NEW s \in Steps,
           s.op \notin {"release", "commit", "countRefs", "endUse"}
    PROVE  /\ p \o <<s>> \in Seq(Steps) /\ Safe(p \o <<s>>)
           /\ \A op \in {"release", "commit", "countRefs", "endUse"} : Of(p \o <<s>>, op) = Of(p, op)
<1> DEFINE e == <<s>>
           r == p \o e
<1>1. e \in Seq(Steps) /\ Len(e) = 1 /\ e[1] = s
  OBVIOUS
<1>2. \A op \in {"release", "commit", "countRefs", "endUse"} : Of(e, op) = {}
  BY OfOne
<1> HIDE DEF e
<1>3. /\ r \in Seq(Steps) /\ Len(r) = Len(p) + 1 /\ Len(p) \in Nat
      /\ \A i \in 1..Len(r) : r[i] = IF i <= Len(p) THEN p[i] ELSE e[i - Len(p)]
  BY <1>1, ConcatProperties
<1>4. \A op \in {"release", "commit", "countRefs", "endUse"} : Of(r, op) = Of(p, op)
  <2> SUFFICES ASSUME NEW op \in {"release", "commit", "countRefs", "endUse"}
               PROVE  Of(r, op) = Of(p, op)
    OBVIOUS
  <2>1. Of(r, op) = Of(p, op) \cup Of(e, op) /\ Of(e, op) = {}
    BY <1>1, <1>2, OfCat
  <2> QED
    BY <2>1
<1> HIDE DEF r
<1>5. \A i \in 1..Len(r) : i <= Len(p) => i \in 1..Len(p) /\ r[i] = p[i]
  BY <1>3
<1>6. \A i \in 1..Len(r) : i > Len(p) => r[i] = s
  <2> SUFFICES ASSUME NEW i \in 1..Len(r), i > Len(p) PROVE r[i] = s
    OBVIOUS
  <2>1. i - Len(p) = 1 /\ ~(i <= Len(p))
    BY <1>3
  <2> QED
    BY <1>1, <1>3, <2>1
<1>7. \A i \in 1..Len(p) : i \in 1..Len(r) /\ r[i] = p[i]
  BY <1>3
<1>8. ASSUME NEW i \in 1..Len(r) PROVE SafeAt(r, i)
  <2>1. CASE i <= Len(p)
    <3>1. i \in 1..Len(p) /\ r[i] = p[i] /\ SafeAt(p, i)
      BY <1>5, <2>1 DEF Safe
    <3>2. r[i].op \in {"commit", "countRefs"} => \E j \in 1..Len(r) : i < j /\ r[j].op \in Enders(r[i].op)
      BY <1>7, <3>1 DEF SafeAt
    <3>3. \A j \in 1..Len(r) : i < j /\ r[j].op = "release" => j \in 1..Len(p) /\ r[j] = p[j]
      BY <1>3, <1>5, <1>6
    <3> QED
      BY <3>1, <3>2, <3>3 DEF SafeAt
  <2>2. CASE i > Len(p)
    <3>1. r[i] = s /\ \A j \in 1..Len(r) : ~(i < j)
      BY <1>3, <1>6, <2>2
    <3> QED
      BY <3>1 DEF SafeAt
  <2> QED
    BY <1>3, <2>1, <2>2
<1> QED
  BY <1>3, <1>4, <1>8 DEF Safe, r, e

(* The destructor of a handle.                                              *)
LEMMA DropIs == ASSUME NEW r \in Refs
                PROVE  /\ DropHandle(r) \in Seq(Steps) /\ Safe(DropHandle(r))
                       /\ Of(DropHandle(r), "release") = {r} /\ Of(DropHandle(r), "countRefs") = {r}
                       /\ Of(DropHandle(r), "endUse") = {} /\ Of(DropHandle(r), "commit") = {}
<1> DEFINE x == Do("countRefs", r)
           y == Do("release", r)
<1>1. /\ x \in Steps /\ x.op = "countRefs" /\ x.arg = r
      /\ y \in Steps /\ y.op = "release" /\ y.arg = r
  BY DoIs DEF Ops, Args
<1>2. DropHandle(r) = <<x, y>>
  BY DEF DropHandle
<1> HIDE DEF x, y
<1> DEFINE p == <<x>>
           q == <<y>>
<1>3. p \in Seq(Steps) /\ q \in Seq(Steps) /\ <<>> \in Seq(Steps) /\ q \o <<>> = q
  BY <1>1
<1>4. DropHandle(r) = p \o q
  BY <1>1, <1>2, PairIs
<1>5. /\ \A op : Of(p, op) = IF op = "countRefs" THEN {r} ELSE {}
      /\ \A op : Of(q, op) = IF op = "release" THEN {r} ELSE {}
      /\ \A op : Of(<<>>, op) = {}
  BY <1>1, OfOne
<1>6. Safe(q)
  <2>1. Safe(q \o <<>>)
    BY <1>1, <1>3, <1>5, SafeNone, SafeRelease
  <2> QED
    BY <1>3, <2>1
<1> HIDE DEF p, q
<1>7. \A op : Of(p \o q, op) = Of(p, op) \cup Of(q, op)
  BY <1>3, OfCat
<1>8. Safe(p \o q)
  <2>1. Ended("countRefs", q)
    BY <1>5 DEF Ended, Enders
  <2>2. Of(p, "commit") = {} /\ Of(p, "maybeTrigger") = {} /\ Of(p, "release") = {}
    BY <1>5
  <2> QED
    BY <1>3, <1>6, <2>1, <2>2, SafeCat
<1>9. p \o q \in Seq(Steps)
  BY <1>3
<1> QED
  BY <1>4, <1>5, <1>7, <1>8, <1>9

(* A call on the database before the end of its use of the handle, or       *)
(* before it drops the one it works with.                                   *)
LEMMA SafeCall ==
    ASSUME NEW b \in Seq(With(BaseOps)), NEW e \in Seq(Steps), Safe(e), Ended("commit", e)
    PROVE  /\ b \o e \in Seq(Steps) /\ Safe(b \o e)
           /\ \A op \in {"release", "endUse", "countRefs"} : Of(b \o e, op) = Of(e, op)
<1>1. b \in Seq(Steps) /\ \A op \in {"release", "endUse", "countRefs", "maybeTrigger"} : Of(b, op) = {}
  BY WithOf DEF BaseOps, Plain
<1> QED
  BY <1>1, Prefixed

(* A call that starts: the steps it is going to take.                       *)
LEMMA StartMoves ==
    ASSUME todo \in [Thread -> Seq(Steps)], NEW t \in Thread, NEW steps \in Seq(Steps), Safe(steps),
           Start(t, steps)
    PROVE  \E q \in Seq(Steps) :
              /\ Goes(t, q) /\ Safe(q) /\ host' = host /\ Idle(t)
              /\ \A op \in {"release", "commit", "countRefs", "endUse"} : Of(q, op) = Of(steps, op)
<1> DEFINE x == Do("give", "gil")
<1>1. x \in Steps /\ x.op = "give"
  BY GilSteps
<1>2. /\ steps \o <<x>> \in Seq(Steps) /\ Safe(steps \o <<x>>)
      /\ \A op \in {"release", "commit", "countRefs", "endUse"} :
            Of(steps \o <<x>>, op) = Of(steps, op)
  BY <1>1, SafeThen
<1>3. host' = host /\ Idle(t) /\ (Goes(t, steps \o <<x>>) \/ Goes(t, steps))
  BY DEF Start, Goes
<1> HIDE DEF x
<1> QED
  BY <1>2, <1>3

(* How a call of t begins whose steps are q: on a collection; using the     *)
(* thread's handle; with a clone of it; or closing it.                      *)
Began(t, q) ==
    /\ q \in Seq(Steps) /\ Goes(t, q) /\ Safe(q) /\ host' = host /\ Idle(t)
    /\ \/ /\ refs' = refs /\ owed' = owed
          /\ Of(q, "release") = {} /\ Of(q, "countRefs") = {} /\ Of(q, "endUse") = {}
       \/ /\ refs' = refs /\ owed' = owed /\ host # "node"
          /\ Mine(t) \in refs /\ \A u \in Thread : Mine(t) \notin Pins(u)
          /\ Of(q, "release") = {} /\ Of(q, "countRefs") = {}
       \/ /\ refs' = refs \cup {Ref(t, "clone")} /\ owed' = owed /\ host = "node"
          /\ Mine(t) \in refs /\ \A u \in Thread : Mine(t) \notin Pins(u)
          /\ Of(q, "release") = {Ref(t, "clone")} /\ Of(q, "countRefs") = {Ref(t, "clone")}
          /\ Of(q, "endUse") = {}
       \/ /\ refs' = refs /\ Mine(t) \in refs /\ \A u \in Thread : Mine(t) \notin Pins(u)
          /\ host \in {"c", "python"} => \A u \in Thread : ~Uses(u)
          /\ "together" \notin met' => \A u \in Thread \ {t} : Pins(u) = {}
          /\ Of(q, "release") = {Mine(t)} /\ Of(q, "countRefs") = {Mine(t)} /\ Of(q, "endUse") = {}

(* Calls on a collection.                                                   *)
LEMMA CollectionBegins ==
    ASSUME todo \in [Thread -> Seq(Steps)], NEW t \in Thread, NEW b \in Seq(With(CollOps)),
           OnCollection(t, b)
    PROVE  \E q : Began(t, q)
<1> DEFINE a == AllowThreads(b)
<1>1. a \in Seq(With(CollOps))
  <2>1. CollOps \in SUBSET Ops /\ Plain \subseteq CollOps
    BY DEF CollOps, Plain, Ops
  <2> QED
    BY <2>1, WithBodies
<1>2. Start(t, a) /\ refs' = refs /\ owed' = owed
  BY DEF OnCollection
<1> HIDE DEF a
<1>3. a \in Seq(Steps) /\ \A op \in {"release", "commit", "countRefs", "endUse"} : Of(a, op) = {}
  <2>1. a \in Seq(Steps) /\ \A op : op \notin CollOps => Of(a, op) = {}
    BY <1>1, WithOf
  <2> QED
    BY <2>1 DEF CollOps, Plain
<1>4. Safe(a)
  BY <1>3, SafePlain
<1>5. PICK q \in Seq(Steps) :
          /\ Goes(t, q) /\ Safe(q) /\ host' = host /\ Idle(t)
          /\ \A op \in {"release", "commit", "countRefs", "endUse"} : Of(q, op) = Of(a, op)
  BY <1>2, <1>3, <1>4, StartMoves
<1>6. Began(t, q)
  BY <1>2, <1>3, <1>5 DEF Began
<1> QED
  BY <1>6

(* Calls on the database.                                                   *)
LEMMA DatabaseBegins ==
    ASSUME todo \in [Thread -> Seq(Steps)], NEW t \in Thread, NEW b \in Seq(With(BaseOps)),
           OnDatabase(t, b)
    PROVE  \E q : Began(t, q)
<1>1. /\ Mine(t) \in refs /\ owed' = owed /\ \A u \in Thread : Mine(t) \notin Pins(u)
  BY AheadIs DEF OnDatabase
<1>2. CASE host = "node"
  <2> DEFINE e == DropHandle(Ref(t, "clone"))
             a == b \o e
  <2>1. Start(t, a) /\ refs' = refs \cup {Ref(t, "clone")}
    BY <1>2 DEF OnDatabase
  <2>2. /\ e \in Seq(Steps) /\ Safe(e) /\ Of(e, "release") = {Ref(t, "clone")}
        /\ Of(e, "countRefs") = {Ref(t, "clone")} /\ Of(e, "endUse") = {}
    BY RefIs, DropIs
  <2> HIDE DEF e
  <2>3. Ended("commit", e)
    BY <2>2 DEF Ended, Enders
  <2>4. /\ a \in Seq(Steps) /\ Safe(a)
        /\ \A op \in {"release", "endUse", "countRefs"} : Of(a, op) = Of(e, op)
    BY <2>2, <2>3, SafeCall
  <2> HIDE DEF a
  <2>5. PICK q \in Seq(Steps) :
            /\ Goes(t, q) /\ Safe(q) /\ host' = host /\ Idle(t)
            /\ \A op \in {"release", "commit", "countRefs", "endUse"} : Of(q, op) = Of(a, op)
    BY <2>1, <2>4, StartMoves
  <2>6. Began(t, q)
    BY <1>1, <1>2, <2>1, <2>2, <2>4, <2>5 DEF Began
  <2> QED
    BY <2>6
<1>3. CASE host # "node"
  <2> DEFINE e == <<Do("endUse", "")>>
             a == b \o e
  <2>1. Start(t, a) /\ refs' = refs
    BY <1>3 DEF OnDatabase
  <2>2. Do("endUse", "") \in Steps /\ Do("endUse", "").op = "endUse"
    BY DoNone DEF Ops
  <2>3. e \in Seq(Steps) /\ \A op : Of(e, op) = IF op = "endUse" THEN {Do("endUse", "").arg} ELSE {}
    <3>1. \A v \in Steps : <<v>> \in Seq(Steps)
      OBVIOUS
    <3> QED
      BY <2>2, <3>1, OfOne
  <2> HIDE DEF e
  <2>4. Safe(e) /\ Ended("commit", e)
    BY <2>3, SafePlain DEF Ended, Enders
  <2>5. /\ a \in Seq(Steps) /\ Safe(a)
        /\ \A op \in {"release", "endUse", "countRefs"} : Of(a, op) = Of(e, op)
    BY <2>3, <2>4, SafeCall
  <2> HIDE DEF a
  <2>6. PICK q \in Seq(Steps) :
            /\ Goes(t, q) /\ Safe(q) /\ host' = host /\ Idle(t)
            /\ \A op \in {"release", "commit", "countRefs", "endUse"} : Of(q, op) = Of(a, op)
    BY <2>1, <2>5, StartMoves
  <2>7. Began(t, q)
    BY <1>1, <1>3, <2>1, <2>3, <2>5, <2>6 DEF Began
  <2> QED
    BY <2>7
<1> QED
  BY <1>2, <1>3

(* Closing the handle.                                                      *)
LEMMA CloseBegins ==
    ASSUME todo \in [Thread -> Seq(Steps)], NEW t \in Thread, CloseCall(t)
    PROVE  \E q : Began(t, q)
<1> DEFINE b == IF host = "node" THEN Checkpoint ELSE <<>>
           e == DropHandle(Mine(t))
           a == b \o e
<1>1. /\ Start(t, a) /\ refs' = refs /\ Mine(t) \in refs
      /\ \A u \in Thread : Mine(t) \notin Pins(u)
      /\ host \in {"c", "python"} => \A u \in Thread : ~Uses(u)
      /\ "together" \notin met' => \A u \in Thread \ {t} : Pins(u) = {}
  BY AheadIs DEF CloseCall, Using, Uses, Noting, DroppedTogether, Dropping, Pins
<1>2. Mine(t) \in Refs
  BY RefIs DEF Mine, Boxed
<1>3. /\ e \in Seq(Steps) /\ Safe(e) /\ Of(e, "release") = {Mine(t)}
      /\ Of(e, "countRefs") = {Mine(t)} /\ Of(e, "endUse") = {}
  BY <1>2, DropIs
<1>4. b \in Seq(With(BaseOps))
  BY DatabaseBodies, WithCat
<1> HIDE DEF b, e
<1>5. Ended("commit", e)
  BY <1>3 DEF Ended, Enders
<1>6. /\ a \in Seq(Steps) /\ Safe(a)
      /\ \A op \in {"release", "endUse", "countRefs"} : Of(a, op) = Of(e, op)
  BY <1>3, <1>4, <1>5, SafeCall
<1> HIDE DEF a
<1>7. PICK q \in Seq(Steps) :
          /\ Goes(t, q) /\ Safe(q) /\ host' = host /\ Idle(t)
          /\ \A op \in {"release", "commit", "countRefs", "endUse"} : Of(q, op) = Of(a, op)
  BY <1>1, <1>6, StartMoves
<1>8. Began(t, q)
  BY <1>1, <1>3, <1>6, <1>7 DEF Began
<1> QED
  BY <1>8

(* Every call begins so.                                                    *)
LEMMA CallBegins == ASSUME todo \in [Thread -> Seq(Steps)], NEW t \in Thread, Call(t)
                    PROVE  \E q : Began(t, q)
<1>1. ASSUME WriteCall(t) \/ WriteTextCall(t) \/ ReadCall(t) \/ SearchTextCall(t) \/ RefitCall(t)
      PROVE  \E q : Began(t, q)
  BY <1>1, CollectionBodies, CollectionBegins
     DEF WriteCall, WriteTextCall, ReadCall, SearchTextCall, RefitCall
<1>2. ASSUME CheckpointCall(t) \/ CreateCall(t) \/ LookupCall(t) \/ SnapshotCall(t) \/ VacuumCall(t)
             \/ CInfo(t) \/ AliasingCall(t) \/ RegisterCall(t)
      PROVE  \E q : Began(t, q)
  BY <1>2, DatabaseBodies, DatabaseBegins
     DEF CheckpointCall, CreateCall, LookupCall, SnapshotCall, VacuumCall, CInfo, AliasingCall,
         RegisterCall, DatabaseCall
<1>3. ASSUME CloseCall(t) PROVE \E q : Began(t, q)
  BY <1>3, CloseBegins
<1>4. CASE RustApi(t)
  BY <1>1, <1>2, <1>3, <1>4 DEF RustApi
<1>5. CASE CApi(t)
  BY <1>1, <1>2, <1>3, <1>5
     DEF CApi, CCollections, CUpserts, CBatchWrites, CIndexing, CSearch, CSearchBatch, CScroll,
         CSearchText, CHybrid, CMaintenance
<1>6. CASE PyApi(t)
  BY <1>1, <1>2, <1>3, <1>6 DEF PyApi, PyWrites, PySearches, PyScrolls
<1>7. CASE NodeApi(t)
  BY <1>1, <1>2, <1>3, <1>7
     DEF NodeApi, NodeRegistry, NodeMaintenance, NodeWrites, NodeSearches, NodeReads
<1> QED
  BY <1>4, <1>5, <1>6, <1>7 DEF Call

-----------------------------------------------------------------------------
(* The invariant holds.                                                     *)

(* What a thread's going on means for the others.                           *)
LEMMA GoesOn == ASSUME todo \in [Thread -> Seq(Steps)], NEW t \in Thread, NEW q \in Seq(Steps), Goes(t, q)
                PROVE  /\ todo' \in [Thread -> Seq(Steps)]
                       /\ Pins(t)' = Of(q, "release") /\ Counts(t)' = Of(q, "countRefs")
                       /\ (Uses(t)' <=> Of(q, "endUse") # {}) /\ (Commits(t)' <=> Of(q, "commit") # {})
                       /\ (Safe(q) => Safe(todo'[t]))
                       /\ \A u \in Thread \ {t} :
                             /\ todo'[u] = todo[u] /\ Pins(u)' = Pins(u) /\ Counts(u)' = Counts(u)
                             /\ (Uses(u)' <=> Uses(u)) /\ (Commits(u)' <=> Commits(u))
<1>1. todo' \in [Thread -> Seq(Steps)] /\ todo'[t] = q /\ \A u \in Thread \ {t} : todo'[u] = todo[u]
  BY DEF Goes
<1> QED
  BY <1>1 DEF Pins, Counts, Uses, Commits

(* A step of a call keeps it.                                               *)
LEMMA StepHandles == ASSUME HandleInv, NEW t \in Thread, Step(t)
                     PROVE  HandleInv'
<1> USE DEF HandleInv
<1>1. PICK q : Moved(t, q)
  BY StepMoves
<1>2. /\ q \in Seq(Steps) /\ Goes(t, q) /\ Safe(q) /\ host' = host
      /\ Of(q, "endUse") \subseteq Of(todo[t], "endUse")
  BY <1>1 DEF Moved
<1>3. /\ todo' \in [Thread -> Seq(Steps)] /\ Safe(todo'[t])
      /\ Pins(t)' = Of(q, "release") /\ (Uses(t)' => Uses(t))
      /\ \A u \in Thread \ {t} : todo'[u] = todo[u] /\ Pins(u)' = Pins(u) /\ (Uses(u)' <=> Uses(u))
  BY <1>2, GoesOn DEF Uses
<1>4. \A u \in Thread : Safe(todo'[u]) /\ (Uses(u)' => Uses(u)) /\ Mine(u)' = Mine(u)
  BY <1>2, <1>3 DEF Mine
<1>5. CASE refs' = refs /\ Of(q, "release") = Pins(t)
  <2>1. \A u \in Thread : Pins(u)' = Pins(u)
    BY <1>3, <1>5
  <2> QED
    BY <1>2, <1>3, <1>4, <1>5, <2>1
<1>6. CASE \E r \in Pins(t) : refs' = refs \ {r} /\ Of(q, "release") = Pins(t) \ {r}
  <2>1. PICK r \in Pins(t) : refs' = refs \ {r} /\ Of(q, "release") = Pins(t) \ {r}
    BY <1>6
  <2>2. Pins(t)' = Pins(t) \ {r} /\ \A u \in Thread \ {t} : Pins(u)' = Pins(u) /\ r \notin Pins(u)
    BY <1>3, <2>1
  <2>3. \A u \in Thread : Pins(u)' \subseteq Pins(u) /\ Pins(u)' \subseteq refs'
    BY <2>1, <2>2
  <2>4. \A u \in Thread : Uses(u) => Mine(u) \in refs'
    BY <2>1
  <2>5. \A v, u \in Thread : v # u => Pins(v)' \cap Pins(u)' = {}
    BY <2>3
  <2>6. \A v \in Thread : \A x \in Pins(v)' : x.as = "handle" \/ x.by = v
    BY <2>3
  <2> QED
    BY <1>2, <1>3, <1>4, <2>3, <2>4, <2>5, <2>6
<1>7. CASE /\ refs' = refs \cup {Ref(t, "trigger")} /\ Pins(t) = {}
           /\ Of(q, "release") = {Ref(t, "trigger")}
  <2> DEFINE x == Ref(t, "trigger")
  <2>1. x.as = "trigger" /\ x.by = t
    BY RefFields
  <2>2. \A u \in Thread \ {t} : x \notin Pins(u)
    BY <2>1
  <2>3. \A u \in Thread : x # Mine(u)
    BY <2>1, RefFields DEF Mine, Boxed
  <2> HIDE DEF x
  <2>4. /\ refs' = refs \cup {x} /\ Pins(t)' = {x}
        /\ \A u \in Thread \ {t} : Pins(u)' = Pins(u)
    BY <1>3, <1>7 DEF x
  <2>5. \A u \in Thread : Pins(u)' \subseteq refs' /\ Pins(u)' \subseteq Pins(u) \cup {x}
    BY <2>4
  <2>6. \A v, u \in Thread : v # u => Pins(v)' \cap Pins(u)' = {}
    BY <2>2, <2>4
  <2>7. \A v \in Thread : \A y \in Pins(v)' : y.as = "handle" \/ y.by = v
    BY <2>1, <2>4
  <2>8. \A u \in Thread : Uses(u) => Mine(u) \in refs' /\ \A v \in Thread : Mine(u) \notin Pins(v)'
    BY <2>3, <2>4, <2>5
  <2> QED
    BY <1>2, <1>3, <1>4, <2>5, <2>6, <2>7, <2>8
<1> QED
  BY <1>1, <1>5, <1>6, <1>7 DEF Moved

(* So does the start of one.                                                *)
LEMMA CallHandles == ASSUME HandleInv, NEW t \in Thread, Call(t)
                     PROVE  HandleInv'
<1> USE DEF HandleInv
<1>1. PICK q : Began(t, q)
  BY CallBegins
<1>2. q \in Seq(Steps) /\ Goes(t, q) /\ Safe(q) /\ host' = host /\ Idle(t)
  BY <1>1 DEF Began
<1>3. /\ todo' \in [Thread -> Seq(Steps)] /\ Safe(todo'[t])
      /\ Pins(t)' = Of(q, "release") /\ (Uses(t)' <=> Of(q, "endUse") # {})
      /\ \A u \in Thread \ {t} : todo'[u] = todo[u] /\ Pins(u)' = Pins(u) /\ (Uses(u)' <=> Uses(u))
  BY <1>2, GoesOn
<1>4. Pins(t) = {} /\ ~Uses(t)
  BY <1>2 DEF Idle, Pins, Uses, Of
<1>5. \A u \in Thread : Safe(todo'[u]) /\ Mine(u)' = Mine(u)
  BY <1>2, <1>3 DEF Mine
<1>6. ASSUME refs' = refs, Of(q, "release") = {},
             Of(q, "endUse") # {} => /\ host # "node" /\ Mine(t) \in refs
                                     /\ \A u \in Thread : Mine(t) \notin Pins(u)
      PROVE  HandleInv'
  <2>1. \A u \in Thread : Pins(u)' = Pins(u)
    BY <1>3, <1>4, <1>6
  <2>2. \A u \in Thread : Uses(u)' => /\ host # "node" /\ Mine(u) \in refs
                                      /\ \A v \in Thread : Mine(u) \notin Pins(v)
    BY <1>3, <1>6
  <2> QED
    BY <1>2, <1>3, <1>5, <1>6, <2>1, <2>2
<1>7. ASSUME NEW x, Of(q, "release") = {x}, Of(q, "endUse") = {}, x \in refs', refs \subseteq refs',
             \A u \in Thread : x \notin Pins(u), x.as = "handle" \/ x.by = t,
             \A u \in Thread \ {t} : Uses(u) => x # Mine(u)
      PROVE  HandleInv'
  <2>1. /\ Pins(t)' = {x} /\ \A u \in Thread \ {t} : Pins(u)' = Pins(u)
    BY <1>3, <1>7
  <2>2. \A u \in Thread : Pins(u)' \subseteq refs'
    BY <1>7, <2>1
  <2>3. \A v, u \in Thread : v # u => Pins(v)' \cap Pins(u)' = {}
    BY <1>7, <2>1
  <2>4. \A v \in Thread : \A y \in Pins(v)' : y.as = "handle" \/ y.by = v
    BY <1>7, <2>1
  <2>5. \A u \in Thread : Uses(u)' => /\ host # "node" /\ Mine(u) \in refs'
                                      /\ \A v \in Thread : Mine(u) \notin Pins(v)'
    <3> SUFFICES ASSUME NEW u \in Thread, Uses(u)'
                 PROVE  /\ host # "node" /\ Mine(u) \in refs'
                        /\ \A v \in Thread : Mine(u) \notin Pins(v)'
      OBVIOUS
    <3>1. u # t /\ Uses(u)
      BY <1>3, <1>7
    <3> QED
      BY <1>7, <2>1, <3>1
  <2> QED
    BY <1>2, <1>3, <1>5, <2>2, <2>3, <2>4, <2>5
<1>8. CASE /\ refs' = refs \cup {Ref(t, "clone")} /\ host = "node"
           /\ Of(q, "release") = {Ref(t, "clone")} /\ Of(q, "endUse") = {}
  <2>1. Ref(t, "clone").as = "clone" /\ Ref(t, "clone").by = t
    BY RefFields
  <2>2. \A u \in Thread : Ref(t, "clone") \notin Pins(u)
    BY <1>4, <2>1
  <2> QED
    BY <1>7, <1>8, <2>1, <2>2
<1>9. CASE /\ refs' = refs /\ Mine(t) \in refs /\ \A u \in Thread : Mine(t) \notin Pins(u)
           /\ host \in {"c", "python"} => \A u \in Thread : ~Uses(u)
           /\ Of(q, "release") = {Mine(t)} /\ Of(q, "endUse") = {}
  <2>1. Mine(t).as = "handle"
    BY RefFields DEF Mine, Boxed
  <2>2. \A u \in Thread \ {t} : host = "rust" => Mine(t) # Mine(u)
    BY RefFields DEF Mine
  <2>3. \A u \in Thread \ {t} : Uses(u) => Mine(t) # Mine(u)
    <3>1. host \in {"rust", "c", "python", "node"}
      BY DEF AllHosts
    <3> QED
      BY <1>9, <2>2, <3>1
  <2> QED
    BY <1>7, <1>9, <2>1, <2>3
<1> QED
  BY <1>1, <1>6, <1>8, <1>9 DEF Began

(* Where a commit is ahead, some reference is there.                        *)
LEMMA CommitHasRef == ASSUME HandleInv, NEW t \in Thread, Commits(t)
                      PROVE  refs # {}
<1>1. todo[t] \in Seq(Steps) /\ Safe(todo[t]) /\ Pins(t) \subseteq refs
  BY DEF HandleInv
<1>2. Ended("commit", todo[t])
  BY <1>1, SafeEnds DEF Commits
<1>3. Pins(t) # {} \/ Uses(t)
  BY <1>2 DEF Ended, Enders, Pins, Uses
<1> QED
  BY <1>1, <1>3 DEF HandleInv

(* It always holds.                                                         *)
LEMMA HandlesHold == Spec => []HandleInv
<1>1. Init => HandleInv
  <2> SUFFICES ASSUME Init PROVE HandleInv
    OBVIOUS
  <2>1. todo = [t \in Thread |-> <<>>] /\ host \in AllHosts
    BY BindingsAssumption DEF Init
  <2>2. \A t \in Thread : todo[t] = <<>> /\ Pins(t) = {} /\ ~Uses(t)
    BY <2>1 DEF Pins, Uses, Of
  <2>3. todo \in [Thread -> Seq(Steps)]
    BY <2>1
  <2> QED
    BY <2>1, <2>2, <2>3, SafeNone DEF HandleInv
<1>2. HandleInv /\ [Next]_vars => HandleInv'
  <2>1. ASSUME HandleInv, Next PROVE HandleInv'
    BY <2>1, CallHandles, StepHandles DEF Next
  <2>2. ASSUME HandleInv, UNCHANGED vars PROVE HandleInv'
    BY <2>2 DEF vars, HandleInv, Pins, Uses, Mine
  <2> QED
    BY <2>1, <2>2
<1> QED
  BY <1>1, <1>2, PTL DEF Spec

(* The database is never written after its last reference is gone: whoever  *)
(* is going to commit still has a reference to release, or uses a handle    *)
(* that nobody drops meanwhile.  Of the host nothing is assumed.            *)
THEOREM NothingAfterTheLast == Spec => NoCommitAfterClose
<1>1. HandleInv /\ [Next]_vars =>
         [\A t \in Thread : ~Idle(t) /\ Upcoming(t).op = "commit" /\ todo'[t] = Tail(todo[t])
             => refs # {}]_vars
  <2> SUFFICES ASSUME HandleInv, NEW t \in Thread, ~Idle(t), Upcoming(t).op = "commit"
               PROVE  refs # {}
    OBVIOUS
  <2>1. todo[t] \in Seq(Steps) /\ todo[t] # <<>>
    BY DEF HandleInv, Idle
  <2>2. Commits(t)
    BY <2>1, HeadTail DEF Commits, Upcoming
  <2> QED
    BY <2>2, CommitHasRef
<1> QED
  BY <1>1, HandlesHold, PTL DEF Spec, NoCommitAfterClose

-----------------------------------------------------------------------------
(* Closing flushes.                                                         *)

(* What is not a handle is released by somebody; who is going to count the  *)
(* references releases just what it counts without; while a handle is       *)
(* counted, the others release what a checkpoint of theirs was triggered    *)
(* with, and while something is owed that checkpoint has not committed yet. *)
Counted ==
    /\ \A r \in refs : r.as # "handle" => \E u \in Thread : r \in Pins(u)
    /\ \A t \in Thread : \A c \in Counts(t) : Pins(t) = {c} /\ (c.as = "handle" => c = Mine(t))
    /\ \A t \in Thread : \A c \in Counts(t) : c.as = "handle" =>
           \A u \in Thread \ {t} : \A r \in Pins(u) : r.as = "trigger"
    /\ owed => \A t \in Thread : \A r \in Pins(t) : r.as = "trigger" => Commits(t)

(* While something is owed, a handle is left that nobody is dropping yet,   *)
(* or somebody is going to commit, or to count with a handle.               *)
Left == \E r \in refs : r.as = "handle" /\ \A u \in Thread : r \notin Pins(u)
SomeCommits == \E t \in Thread : Commits(t)
SomeCounts == \E t \in Thread : \E c \in Counts(t) : c.as = "handle"
FlushInv == Counted /\ (owed => Left \/ SomeCommits \/ SomeCounts)

(* Where nothing is left, nothing is owed.                                  *)
LEMMA FlushedAtTheEnd == HandleInv /\ FlushInv => LastDropFlushes
<1> SUFFICES ASSUME HandleInv, FlushInv, refs = {}, owed PROVE FALSE
  BY DEF LastDropFlushes
<1>1. CASE SomeCommits
  BY <1>1, CommitHasRef DEF SomeCommits
<1>2. CASE SomeCounts
  <2>1. PICK t \in Thread : Counts(t) # {}
    BY <1>2 DEF SomeCounts
  <2>2. Pins(t) # {}
    BY <2>1 DEF FlushInv, Counted
  <2> QED
    BY <2>1, <2>2 DEF HandleInv
<1> QED
  BY <1>1, <1>2 DEF FlushInv, Left

(* A step of a call keeps what is counted.                                  *)
LEMMA StepCounted == ASSUME HandleInv, Counted, NEW t \in Thread, Step(t)
                     PROVE  Counted'
<1> USE DEF HandleInv, Counted
<1>1. PICK q : Moved(t, q)
  BY StepMoves
<1>2. /\ q \in Seq(Steps) /\ Goes(t, q) /\ Safe(q) /\ host' = host /\ (owed' => owed)
      /\ Of(q, "countRefs") \subseteq Counts(t)
      /\ owed' => (Commits(t) => Of(q, "commit") # {})
  BY <1>1 DEF Moved
<1>3. /\ Pins(t)' = Of(q, "release") /\ Counts(t)' \subseteq Counts(t)
      /\ (owed' => (Commits(t) => Commits(t)')) /\ (Commits(t)' <=> Of(q, "commit") # {})
      /\ \A u \in Thread \ {t} : /\ Pins(u)' = Pins(u) /\ Counts(u)' = Counts(u)
                                /\ (Commits(u)' <=> Commits(u))
  BY <1>2, GoesOn
<1>4. /\ \A u \in Thread : Counts(u)' \subseteq Counts(u) /\ Mine(u)' = Mine(u)
      /\ \A u \in Thread : owed' => (Commits(u) => Commits(u)')
  BY <1>2, <1>3 DEF Mine
<1>5. ASSUME NEW c \in Counts(t)' PROVE Pins(t)' # {}
  <2>1. Of(q, "countRefs") # {}
    BY <1>2, <1>5, GoesOn
  <2>2. Ended("countRefs", q)
    BY <1>2, <2>1, SafeEnds
  <2> QED
    BY <1>3, <2>2 DEF Ended, Enders
<1>6. CASE refs' = refs /\ Of(q, "release") = Pins(t)
  <2>1. \A u \in Thread : Pins(u)' = Pins(u)
    BY <1>3, <1>6
  <2> QED
    BY <1>2, <1>4, <1>6, <2>1
<1>7. CASE \E r \in Pins(t) : refs' = refs \ {r} /\ Of(q, "release") = Pins(t) \ {r}
  <2>1. PICK r \in Pins(t) : refs' = refs \ {r} /\ Of(q, "release") = Pins(t) \ {r}
    BY <1>7
  <2>2. Pins(t)' = Pins(t) \ {r} /\ \A u \in Thread \ {t} : Pins(u)' = Pins(u)
    BY <1>3, <2>1
  <2>3. \A u \in Thread : Pins(u)' \subseteq Pins(u)
    BY <2>2
  <2>4. \A x \in refs' : x.as # "handle" => \E u \in Thread : x \in Pins(u)'
    <3> SUFFICES ASSUME NEW x \in refs', x.as # "handle" PROVE \E u \in Thread : x \in Pins(u)'
      OBVIOUS
    <3>1. PICK u \in Thread : x \in Pins(u) /\ x # r
      BY <2>1
    <3> QED
      BY <2>2, <3>1
  <2>5. Counts(t)' = {}
    BY <1>3, <1>5, <2>2
  <2>6. \A u \in Thread : \A c \in Counts(u)' : Pins(u)' = {c} /\ (c.as = "handle" => c = Mine(u)')
    BY <1>4, <2>2, <2>5
  <2>7. \A v \in Thread : \A c \in Counts(v)' : c.as = "handle" =>
           \A u \in Thread \ {v} : \A x \in Pins(u)' : x.as = "trigger"
    BY <1>4, <2>3
  <2>8. owed' => \A v \in Thread : \A x \in Pins(v)' : x.as = "trigger" => Commits(v)'
    BY <1>2, <1>4, <2>3
  <2> QED
    BY <2>4, <2>6, <2>7, <2>8
<1>8. CASE /\ refs' = refs \cup {Ref(t, "trigger")} /\ Pins(t) = {}
           /\ Of(q, "release") = {Ref(t, "trigger")} /\ Of(q, "commit") # {}
  <2> DEFINE x == Ref(t, "trigger")
  <2>1. x.as = "trigger"
    BY RefFields
  <2> HIDE DEF x
  <2>2. refs' = refs \cup {x} /\ Pins(t)' = {x} /\ \A u \in Thread \ {t} : Pins(u)' = Pins(u)
    BY <1>3, <1>8 DEF x
  <2>3. Counts(t) = {} /\ Counts(t)' = {} /\ Commits(t)'
    BY <1>3, <1>8
  <2>4. \A y \in refs' : y.as # "handle" => \E u \in Thread : y \in Pins(u)'
    <3> SUFFICES ASSUME NEW y \in refs', y.as # "handle" PROVE \E u \in Thread : y \in Pins(u)'
      OBVIOUS
    <3>1. CASE y = x
      BY <2>2, <3>1
    <3>2. CASE y # x
      <4>1. PICK u \in Thread : y \in Pins(u)
        BY <2>2, <3>2
      <4> QED
        BY <1>8, <2>2, <4>1
    <3> QED
      BY <3>1, <3>2
  <2>5. \A u \in Thread : \A c \in Counts(u)' : Pins(u)' = {c} /\ (c.as = "handle" => c = Mine(u)')
    BY <1>4, <2>2, <2>3
  <2>6. \A v \in Thread : \A c \in Counts(v)' : c.as = "handle" =>
           \A u \in Thread \ {v} : \A y \in Pins(u)' : y.as = "trigger"
    BY <1>4, <2>1, <2>2, <2>3
  <2>7. owed' => \A v \in Thread : \A y \in Pins(v)' : y.as = "trigger" => Commits(v)'
    BY <1>2, <1>4, <2>2, <2>3
  <2> QED
    BY <2>4, <2>5, <2>6, <2>7
<1> QED
  BY <1>1, <1>6, <1>7, <1>8 DEF Moved

(* And does not lose who flushes.                                           *)
LEMMA StepFlushes == ASSUME HandleInv, FlushInv, NEW t \in Thread, Step(t)
                     PROVE  FlushInv'
<1>1. Counted'
  BY StepCounted DEF FlushInv
<1> SUFFICES ASSUME owed' PROVE Left' \/ SomeCommits' \/ SomeCounts'
  BY <1>1 DEF FlushInv
<1>2. PICK q : Moved(t, q)
  BY StepMoves DEF HandleInv
<1>3. /\ q \in Seq(Steps) /\ Goes(t, q) /\ owed /\ (Commits(t) => Of(q, "commit") # {})
      /\ \A c \in Counts(t) : \/ c \in Of(q, "countRefs") \/ Of(q, "commit") # {}
                              \/ Cardinality(refs) # 1 /\ refs' = refs
  BY <1>2 DEF Moved
<1>4. /\ Pins(t)' = Of(q, "release") /\ Counts(t)' = Of(q, "countRefs")
      /\ (Commits(t)' <=> Of(q, "commit") # {})
      /\ \A u \in Thread \ {t} : /\ Pins(u)' = Pins(u) /\ Counts(u)' = Counts(u)
                                /\ (Commits(u)' <=> Commits(u))
  BY <1>3, GoesOn DEF HandleInv
<1>5. \A u \in Thread : Commits(u) => Commits(u)'
  BY <1>3, <1>4
<1>6. ASSUME Left PROVE Left'
  <2>1. PICK r \in refs : r.as = "handle" /\ \A u \in Thread : r \notin Pins(u)
    BY <1>6 DEF Left
  <2>2. r \in refs' /\ r \notin Of(q, "release")
    BY <1>2, <2>1, RefFields DEF Moved
  <2>3. \A u \in Thread : r \notin Pins(u)'
    BY <1>4, <2>1, <2>2
  <2> QED
    BY <2>1, <2>2, <2>3 DEF Left
<1>7. CASE Left
  BY <1>6, <1>7
<1>8. CASE SomeCommits
  BY <1>5, <1>8 DEF SomeCommits
<1>9. CASE SomeCounts
  <2>1. PICK u \in Thread : \E c \in Counts(u) : c.as = "handle"
    BY <1>9 DEF SomeCounts
  <2>2. PICK c \in Counts(u) : c.as = "handle"
    BY <2>1
  <2>3. CASE u # t
    BY <1>4, <2>2, <2>3 DEF SomeCounts
  <2>4. CASE u = t
    <3>1. CASE c \in Of(q, "countRefs")
      BY <1>4, <2>2, <2>4, <3>1 DEF SomeCounts
    <3>2. CASE Of(q, "commit") # {}
      BY <1>4, <3>2 DEF SomeCommits
    <3>3. CASE Cardinality(refs) # 1 /\ refs' = refs
      <4>1. Pins(t) = {c} /\ c \in refs
        BY <2>2, <2>4 DEF FlushInv, Counted, HandleInv
      <4>2. refs # {c}
        BY <3>3, FS_Singleton
      <4>3. PICK r \in refs : r # c
        BY <4>1, <4>2
      <4>4. CASE \A v \in Thread : r \notin Pins(v)
        <5>1. r.as = "handle"
          BY <4>3, <4>4 DEF FlushInv, Counted
        <5> QED
          BY <1>6, <4>3, <4>4, <5>1 DEF Left
      <4>5. CASE \E v \in Thread : r \in Pins(v)
        <5>1. PICK v \in Thread : r \in Pins(v)
          BY <4>5
        <5>2. v # t
          BY <4>1, <4>3, <5>1
        <5>3. r.as = "trigger"
          BY <2>2, <2>4, <5>1, <5>2 DEF FlushInv, Counted
        <5>4. Commits(v)
          BY <1>3, <5>1, <5>3 DEF FlushInv, Counted
        <5> QED
          BY <1>5, <5>4 DEF SomeCommits
      <4> QED
        BY <4>4, <4>5
    <3> QED
      BY <1>3, <2>2, <2>4, <3>1, <3>2, <3>3
  <2> QED
    BY <2>3, <2>4
<1> QED
  BY <1>3, <1>7, <1>8, <1>9 DEF FlushInv

(* The start of a call keeps both.                                          *)
LEMMA CallFlushes ==
    ASSUME HandleInv, FlushInv, "together" \notin met', NEW t \in Thread, Call(t)
    PROVE  FlushInv'
<1> USE DEF HandleInv, FlushInv
<1>1. PICK q : Began(t, q)
  BY CallBegins
<1>2. q \in Seq(Steps) /\ Goes(t, q) /\ host' = host /\ Idle(t)
  BY <1>1 DEF Began
<1>3. /\ Pins(t)' = Of(q, "release") /\ Counts(t)' = Of(q, "countRefs")
      /\ \A u \in Thread \ {t} : /\ Pins(u)' = Pins(u) /\ Counts(u)' = Counts(u)
                                /\ (Commits(u)' <=> Commits(u))
  BY <1>2, GoesOn
<1>4. Pins(t) = {} /\ Counts(t) = {} /\ ~Commits(t)
  BY <1>2 DEF Idle, Pins, Counts, Commits, Of
<1>5. \A u \in Thread : Mine(u)' = Mine(u) /\ (Commits(u) => Commits(u)')
  BY <1>2, <1>3, <1>4 DEF Mine
<1>6. ASSUME owed' = owed, refs \subseteq refs', \A u \in Thread : Counts(u) \subseteq Counts(u)',
             \A r \in Of(q, "release") : r.as # "handle"
      PROVE  owed' => Left' \/ SomeCommits' \/ SomeCounts'
  <2>1. Left => Left'
    <3> SUFFICES ASSUME Left PROVE Left'
      OBVIOUS
    <3>1. PICK r \in refs : r.as = "handle" /\ \A u \in Thread : r \notin Pins(u)
      BY DEF Left
    <3>2. \A u \in Thread : r \notin Pins(u)'
      BY <1>3, <1>6, <3>1
    <3> QED
      BY <1>6, <3>1, <3>2 DEF Left
  <2>2. SomeCommits => SomeCommits'
    BY <1>5 DEF SomeCommits
  <2>3. SomeCounts => SomeCounts'
    BY <1>6 DEF SomeCounts
  <2> QED
    BY <1>6, <2>1, <2>2, <2>3
<1>7. CASE refs' = refs /\ owed' = owed /\ Of(q, "release") = {} /\ Of(q, "countRefs") = {}
  <2>1. \A u \in Thread : Pins(u)' = Pins(u) /\ Counts(u)' = Counts(u)
    BY <1>3, <1>4, <1>7
  <2>2. Counted'
    BY <1>5, <1>7, <2>1 DEF Counted
  <2> QED
    BY <1>6, <1>7, <2>1, <2>2
<1>8. CASE /\ refs' = refs \cup {Ref(t, "clone")} /\ owed' = owed /\ host = "node"
           /\ \A u \in Thread : Mine(t) \notin Pins(u)
           /\ Of(q, "release") = {Ref(t, "clone")} /\ Of(q, "countRefs") = {Ref(t, "clone")}
  <2> DEFINE x == Ref(t, "clone")
  <2>1. x.as = "clone"
    BY RefFields
  <2> HIDE DEF x
  <2>2. /\ refs' = refs \cup {x} /\ Pins(t)' = {x} /\ Counts(t)' = {x}
        /\ \A u \in Thread \ {t} : Pins(u)' = Pins(u) /\ Counts(u)' = Counts(u)
    BY <1>3, <1>8 DEF x
  <2>3. \A u \in Thread : \A c \in Counts(u) : c.as # "handle"
    <3> SUFFICES ASSUME NEW u \in Thread, NEW c \in Counts(u), c.as = "handle" PROVE FALSE
      OBVIOUS
    <3>1. c = Mine(u) /\ c \in Pins(u)
      BY DEF Counted
    <3>2. Mine(u) = Mine(t)
      BY <1>8 DEF Mine
    <3> QED
      BY <1>8, <3>1, <3>2
  <2>4. \A y \in refs' : y.as # "handle" => \E u \in Thread : y \in Pins(u)'
    <3> SUFFICES ASSUME NEW y \in refs', y.as # "handle" PROVE \E u \in Thread : y \in Pins(u)'
      OBVIOUS
    <3>1. CASE y = x
      BY <2>2, <3>1
    <3>2. CASE y # x
      <4>1. PICK u \in Thread : y \in Pins(u)
        BY <2>2, <3>2 DEF Counted
      <4> QED
        BY <1>4, <2>2, <4>1
    <3> QED
      BY <3>1, <3>2
  <2>5. \A u \in Thread : \A c \in Counts(u)' : Pins(u)' = {c} /\ c.as # "handle"
    BY <2>1, <2>2, <2>3 DEF Counted
  <2>6. owed' => \A v \in Thread : \A y \in Pins(v)' : y.as = "trigger" => Commits(v)'
    BY <1>5, <1>8, <2>1, <2>2 DEF Counted
  <2>7. Counted'
    BY <2>4, <2>5, <2>6 DEF Counted
  <2>8. \A u \in Thread : Counts(u) \subseteq Counts(u)'
    BY <1>4, <2>2
  <2>9. \A r \in Of(q, "release") : r.as # "handle"
    BY <1>3, <2>1, <2>2
  <2> QED
    BY <1>6, <1>8, <2>7, <2>8, <2>9
<1>9. CASE /\ refs' = refs
           /\ \A u \in Thread \ {t} : Pins(u) = {}
           /\ Of(q, "release") = {Mine(t)} /\ Of(q, "countRefs") = {Mine(t)}
  <2>1. Mine(t).as = "handle"
    BY RefFields DEF Mine, Boxed
  <2>2. Pins(t)' = {Mine(t)} /\ Counts(t)' = {Mine(t)}
    BY <1>3, <1>9
  <2>3. \A u \in Thread \ {t} : Pins(u)' = {} /\ Counts(u)' = {}
    <3>1. \A u \in Thread \ {t} : \A c \in Counts(u) : Pins(u) = {c}
      BY DEF Counted
    <3>2. \A u \in Thread \ {t} : Counts(u) = {}
      BY <1>9, <3>1
    <3> QED
      BY <1>3, <1>9, <3>2
  <2>4. \A r \in refs' : r.as = "handle"
    BY <1>4, <1>9 DEF Counted
  <2>5. Counted'
    BY <1>5, <2>1, <2>2, <2>3, <2>4 DEF Counted
  <2>6. SomeCounts'
    BY <2>1, <2>2 DEF SomeCounts
  <2> QED
    BY <2>5, <2>6
<1> QED
  BY <1>1, <1>7, <1>8, <1>9 DEF Began

(* Once the last reference is gone, nothing that was acknowledged before    *)
(* the last handle was dropped is only in the log, for any number of        *)
(* threads, unless two references were dropped together.                    *)
THEOREM LastOneFlushes == Spec => []CloseFlushes
<1> DEFINE Inv == "together" \notin met => FlushInv
<1>1. Init => Inv
  <2> SUFFICES ASSUME Init PROVE FlushInv
    OBVIOUS
  <2>1. todo = [t \in Thread |-> <<>>] /\ ~owed
    BY DEF Init
  <2>2. \A t \in Thread : Pins(t) = {} /\ Counts(t) = {}
    BY <2>1 DEF Pins, Counts, Of
  <2>3. \A r \in refs : r.as = "handle"
    BY RefFields DEF Init, Boxed
  <2> QED
    BY <2>1, <2>2, <2>3 DEF FlushInv, Counted
<1>2. HandleInv /\ Inv /\ [Next]_vars => Inv'
  <2>1. ASSUME HandleInv, Inv, Next, "together" \notin met' PROVE FlushInv'
    <3>1. FlushInv
      BY <2>1, MetGrows
    <3> QED
      BY <2>1, <3>1, CallFlushes, StepFlushes DEF Next
  <2>2. ASSUME FlushInv, UNCHANGED vars PROVE FlushInv'
    <3>1. refs' = refs /\ todo' = todo /\ host' = host /\ owed' = owed
      BY <2>2 DEF vars
    <3>2. \A u \in Thread : /\ Pins(u)' = Pins(u) /\ Counts(u)' = Counts(u) /\ Mine(u)' = Mine(u)
                            /\ (Commits(u)' <=> Commits(u))
      BY <3>1 DEF Pins, Counts, Mine, Commits
    <3>3. Counted' /\ (Left' <=> Left) /\ (SomeCommits' <=> SomeCommits) /\ (SomeCounts' <=> SomeCounts)
      BY <2>2, <3>1, <3>2 DEF FlushInv, Counted, Left, SomeCommits, SomeCounts
    <3> QED
      BY <2>2, <3>1, <3>3 DEF FlushInv
  <2> QED
    BY <2>1, <2>2 DEF vars
<1>3. HandleInv /\ Inv => CloseFlushes
  BY FlushedAtTheEnd DEF CloseFlushes
<1> QED
  BY <1>1, <1>2, <1>3, HandlesHold, PTL DEF Spec
=============================================================================
