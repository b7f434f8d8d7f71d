------------------------------- MODULE Filter -------------------------------
(***************************************************************************)
(* Payload filters (filter/mod.rs) and the payload indexes that answer     *)
(* part of them (filter/index.rs).                                         *)
(*                                                                         *)
(* A JSON value is a record of its type and its value; a payload is a      *)
(* function from top-level keys to values.  A filter has three sets of     *)
(* conditions; a range is a function from the bounds it sets.              *)
(***************************************************************************)
EXTENDS Integers, FiniteSets

CONSTANTS
    NoPay,      \* a point without payload, or a slot whose payload is cleared
    Mantissa    \* the largest integer below which f64 has every integer, 2^53

ASSUME FilterAssumption == Mantissa \in Nat /\ Mantissa % 4 = 0

-----------------------------------------------------------------------------
(* Values.                                                                  *)

Int64(n) == [t |-> "int", v |-> n]
Real64(x) == [t |-> "float", v |-> x]
Str(s) == [t |-> "str", v |-> s]

(* i64 as f64: above the mantissa an odd integer goes to a multiple of 4.   *)
AsFloat(n) == IF n <= Mantissa \/ n % 2 = 0 THEN n ELSE 4 * ((n + 1) \div 4)

IsNumber(v) == v.t \in {"int", "float"}
F64(v) == IF v.t = "int" THEN AsFloat(v.v) ELSE v.v

(* MatchValue::matches_stored.                                              *)
MatchesStored(m, v) ==
    \/ v.t = m.t /\ v.v = m.v
    \/ m.t = "int" /\ IsNumber(v) /\ F64(v) = AsFloat(m.v)

(* Range::contains.                                                         *)
InRange(r, x) ==
    /\ "gt"  \in DOMAIN r => x >  r["gt"]
    /\ "gte" \in DOMAIN r => x >= r["gte"]
    /\ "lt"  \in DOMAIN r => x <  r["lt"]
    /\ "lte" \in DOMAIN r => x <= r["lte"]

-----------------------------------------------------------------------------
(* Conditions and filters.                                                  *)

HasKey(pay, key) == pay # NoPay /\ key \in DOMAIN pay

(* Condition::matches, but for Nested.                                      *)
LeafMatches(c, pay) ==
    /\ HasKey(pay, c.key)
    /\ \/ c.op = "eq" /\ MatchesStored(c.value, pay[c.key])
       \/ c.op = "in" /\ \E m \in c.values : MatchesStored(m, pay[c.key])
       \/ /\ c.op = "range" /\ IsNumber(pay[c.key])
          /\ InRange(c.range, F64(pay[c.key]))
       \/ c.op = "exists"

NoFilter == [must |-> {}, should |-> {}, must_not |-> {}]

(* Filter::matches, given the conditions that hold.                         *)
Clauses(f, holding) ==
    /\ f.must \subseteq holding
    /\ f.should # {} => f.should \cap holding # {}
    /\ f.must_not \cap holding = {}

ConditionsOf(f) == f.must \cup f.should \cup f.must_not
LeavesMatch(f, pay) == Clauses(f, {c \in ConditionsOf(f) : LeafMatches(c, pay)})

(* Filters nest to depth two here.                                          *)
Matches(f, pay) ==
    Clauses(f, {c \in ConditionsOf(f) : IF c.op = "nested" THEN LeavesMatch(c.filter, pay)
                                                          ELSE LeafMatches(c, pay)})

-----------------------------------------------------------------------------
(* PayloadIndexes: a function from the declared keys to their index.        *)

EmptyIndex(kind) == [kind |-> kind, posts |-> {}]

(* The posting keys of a stored value: one, or none for another type.       *)
PostingKeys(kind, v) ==
    IF <<kind, v.t>> \in {<<"keyword", "str">>, <<"integer", "int">>} THEN {v.v}
    ELSE IF kind = "float" /\ IsNumber(v) THEN {F64(v)}
    ELSE {}

(* The postings of a payload in slot s, in one index.                       *)
PostsOf(idx, key, s, pay) ==
    IF HasKey(pay, key) THEN PostingKeys(idx.kind, pay[key]) \X {s} ELSE {}

(* PayloadIndexes::insert and ::remove.                                     *)
InsertPayload(ixs, s, pay) ==
    [k \in DOMAIN ixs |-> [ixs[k] EXCEPT !.posts = @ \cup PostsOf(ixs[k], k, s, pay)]]
RemovePayload(ixs, s, pay) ==
    [k \in DOMAIN ixs |-> [ixs[k] EXCEPT !.posts = @ \ PostsOf(ixs[k], k, s, pay)]]

KeysIn(idx) == {p[1] : p \in idx.posts}
SlotsOf(idx, keys) == {p[2] : p \in {q \in idx.posts : q[1] \in keys}}

(* eq_bitmap: nothing when the kind and the type of the value disagree.     *)
EqBitmap(idx, m) ==
    IF <<idx.kind, m.t>> \in {<<"keyword", "str">>, <<"integer", "int">>} THEN SlotsOf(idx, {m.v})
    ELSE IF <<idx.kind, m.t>> = <<"float", "int">> THEN SlotsOf(idx, {AsFloat(m.v)})
    ELSE {}

(* Mutant: the bounds are taken as exclusive.                               *)
RangeBitmap_Open(idx, r) ==
    SlotsOf(idx, {k \in KeysIn(idx) : \A b \in DOMAIN r : k # r[b] /\ InRange(r, k)})

RangeBitmap(idx, r) ==
    SlotsOf(idx, {k \in KeysIn(idx) : InRange(r, IF idx.kind = "integer" THEN AsFloat(k) ELSE k)})

(* PayloadIndexes::answer, None where it is not Answerable.                 *)
Answerable(ixs, c) ==
    /\ c.op # "nested" /\ c.key \in DOMAIN ixs
    /\ c.op = "range" => ixs[c.key].kind # "keyword"

Answer(ixs, c) ==
    LET idx == ixs[c.key] IN
    CASE c.op = "eq"     -> EqBitmap(idx, c.value)
      [] c.op = "in"     -> UNION {EqBitmap(idx, m) : m \in c.values}
      [] c.op = "range"  -> RangeBitmap(idx, c.range)
      [] c.op = "exists" -> SlotsOf(idx, KeysIn(idx))

(* candidates: the slots every answerable `must` condition selects, None    *)
(* when there is no such condition.                                         *)
Answered(ixs, f) == {c \in f.must : Answerable(ixs, c)}

Candidates(ixs, f) ==
    {s \in UNION {Answer(ixs, c) : c \in Answered(ixs, f)} :
        \A c \in Answered(ixs, f) : s \in Answer(ixs, c)}

=============================================================================
