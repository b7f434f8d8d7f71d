--------------------------- MODULE RegistryProof ---------------------------
(***************************************************************************)
(* What the registry promises, for any number of names, ids and calls.     *)
(*                                                                         *)
(* Live: the two copies of every alias, the database's map and the list on *)
(* its collection, agree until a recovery, because no collection has two   *)
(* names and new ids are fresh (IInv), and every id in use or on disk is   *)
(* below the next one (Typed, OnDisk).                                     *)
(*                                                                         *)
(* Recovered: whatever the TOC holds of the log, replaying the log over it *)
(* gives the live collections (OnDisk) and, while no rename and no drop is *)
(* logged, the live aliases (AliasesOnDisk).  And replaying the log over   *)
(* what it gave changes nothing while no rename is logged: that follows    *)
(* from what a live session can have logged (LogTells), by induction over  *)
(* the trace of the replay.                                                *)
(***************************************************************************)
EXTENDS Registry, FoldLemmas

(* What the maps of a registry map to what.                                 *)
Shape ==
    /\ reg = [colls |-> reg.colls, list |-> reg.list, aliases |-> reg.aliases]
    /\ reg.colls = [n \in DOMAIN reg.colls |-> reg.colls[n]]
    /\ \A n \in DOMAIN reg.colls : reg.colls[n] \in Id
    /\ DOMAIN reg.list = Id
    /\ reg.aliases = [a \in DOMAIN reg.aliases |-> reg.aliases[a]]

(* No collection has two names.                                             *)
OneName ==
    \A n, m \in DOMAIN reg.colls : reg.colls[n] = reg.colls[m] => n = m

(* Ids are given out in order.                                              *)
IdsBelowNext ==
    nextId \in Nat /\ \A n \in DOMAIN reg.colls : reg.colls[n] < nextId

(* AliasesConsistent in terms of names: what a collection lists leads to    *)
(* it, and what leads to it is listed.                                      *)
ListedLeads ==
    \A n \in DOMAIN reg.colls : \A a \in reg.list[reg.colls[n]] :
       a \in DOMAIN reg.aliases /\ reg.aliases[a] = n
LeadsListed ==
    \A a \in DOMAIN reg.aliases :
       reg.aliases[a] \in DOMAIN reg.colls /\ a \in reg.list[reg.colls[reg.aliases[a]]]

LiveInv == Shape /\ OneName /\ IdsBelowNext /\ ListedLeads /\ LeadsListed

(* The inductive invariant.                                                 *)
IInv ==
    /\ count = [calls |-> count.calls, downs |-> count.downs]
    /\ count.downs \in Nat
    /\ pc = "down" => count.downs # 0
    /\ NeverRecovered => LiveInv

-----------------------------------------------------------------------------
(* Ids are numbers.                                                         *)
LEMMA IdsAreNumbers == \A i \in Id : i \in Nat
<1>1. MaxId \in Nat
  BY RegistryAssumption DEF RegistryAssumption
<1> QED
  BY <1>1 DEF Id

(* A collection's only name is its NameOf.                                  *)
LEMMA NameOfColl ==
    ASSUME OneName, NEW n \in DOMAIN reg.colls
    PROVE  NameOf(reg, reg.colls[n]) = n
  BY DEF OneName, NameOf

-----------------------------------------------------------------------------

(* The initial registry is empty.                                           *)
LEMMA InitInv == Init => IInv
<1>1. SUFFICES ASSUME Init PROVE IInv
  OBVIOUS
<1>2. Shape
  BY <1>1 DEF Init, EmptyRegistry, Shape
<1>3. OneName /\ IdsBelowNext /\ ListedLeads /\ LeadsListed
  BY <1>1 DEF Init, EmptyRegistry, OneName, IdsBelowNext, ListedLeads, LeadsListed
<1> QED
  BY <1>1, <1>2, <1>3 DEF Init, IInv, LiveInv

(* create_collection preserves the live invariant: the id is fresh.         *)
LEMMA CreateLive ==
    ASSUME LiveInv, NEW n \in Name, CreateCollection(n)
    PROVE  LiveInv'
<1> DEFINE colls == Put(reg.colls, n, nextId)
<1>1. n \notin DOMAIN reg.colls /\ nextId \in Id /\ nextId' = nextId + 1
  BY DEF CreateCollection
<1>2. /\ reg' = [colls |-> colls, list |-> [reg.list EXCEPT ![nextId] = {}],
                 aliases |-> reg.aliases]
  BY DEF CreateCollection, LiveInv, Shape
<1>3. /\ DOMAIN colls = DOMAIN reg.colls \cup {n}
      /\ colls = [x \in DOMAIN reg.colls \cup {n} |-> colls[x]]
      /\ colls[n] = nextId
      /\ \A x \in DOMAIN reg.colls : colls[x] = reg.colls[x]
  <2>1. /\ DOMAIN colls = DOMAIN reg.colls \cup {n}
        /\ colls = [x \in DOMAIN reg.colls \cup {n} |-> colls[x]]
        /\ colls[n] = nextId
        /\ \A x \in DOMAIN reg.colls : x # n => colls[x] = reg.colls[x]
    BY DEF Put, Override
  <2> QED
    BY <1>1, <2>1
<1>4. \A x \in DOMAIN reg.colls :
         /\ reg.colls[x] # nextId /\ reg.colls[x] \in Id
         /\ reg.colls[x] \in Nat /\ reg.colls[x] < nextId + 1
  BY IdsAreNumbers DEF LiveInv, IdsBelowNext, Shape
<1>5. /\ reg'.colls = colls /\ reg'.aliases = reg.aliases
      /\ reg'.list[nextId] = {}
      /\ \A x \in DOMAIN reg.colls : reg'.list[reg.colls[x]] = reg.list[reg.colls[x]]
      /\ DOMAIN reg'.list = Id
  BY <1>1, <1>2, <1>4 DEF LiveInv, Shape
<1> HIDE DEF colls
<1>6. Shape'
  BY <1>1, <1>2, <1>3, <1>4, <1>5 DEF Shape, LiveInv
<1>7. OneName'
  BY <1>3, <1>4, <1>5 DEF OneName, LiveInv
<1>8. IdsBelowNext'
  <2>1. nextId \in Nat /\ nextId' \in Nat /\ nextId < nextId'
    BY <1>1 DEF LiveInv, IdsBelowNext
  <2>2. \A x \in DOMAIN colls : colls[x] < nextId'
    BY <2>1, <1>1, <1>3, <1>4
  <2> QED
    BY <2>1, <2>2, <1>5 DEF IdsBelowNext
<1>9. ListedLeads'
  BY <1>1, <1>3, <1>5 DEF ListedLeads, LiveInv
<1>10. LeadsListed'
  <2> SUFFICES ASSUME NEW a \in DOMAIN reg.aliases
               PROVE  /\ reg.aliases[a] \in DOMAIN colls
                      /\ a \in reg'.list[colls[reg.aliases[a]]]
    BY <1>5 DEF LeadsListed
  <2>1. reg.aliases[a] \in DOMAIN reg.colls /\ a \in reg.list[reg.colls[reg.aliases[a]]]
    BY DEF LeadsListed, LiveInv
  <2> QED
    BY <2>1, <1>3, <1>5
<1> QED
  BY <1>6, <1>7, <1>8, <1>9, <1>10 DEF LiveInv

(* create_alias preserves it: the alias was in nobody's list.               *)
LEMMA AliasLive ==
    ASSUME LiveInv, NEW a \in Name, NEW n \in Name, CreateAlias(a, n)
    PROVE  LiveInv'
<1> DEFINE id == reg.colls[n]
           aliases == Put(reg.aliases, a, n)
<1>1. n \in DOMAIN reg.colls /\ a \notin DOMAIN reg.aliases /\ nextId' = nextId
  BY DEF CreateAlias
<1>2. reg' = [colls |-> reg.colls,
              list |-> [reg.list EXCEPT ![id] = reg.list[id] \cup {a}],
              aliases |-> aliases]
  BY DEF CreateAlias, LiveInv, Shape
<1>3. /\ DOMAIN aliases = DOMAIN reg.aliases \cup {a}
      /\ aliases = [x \in DOMAIN reg.aliases \cup {a} |-> aliases[x]]
      /\ aliases[a] = n
      /\ \A x \in DOMAIN reg.aliases : x # a => aliases[x] = reg.aliases[x]
  BY DEF Put, Override
<1>4. /\ reg'.colls = reg.colls /\ reg'.aliases = aliases
      /\ DOMAIN reg'.list = Id
      /\ reg'.list[id] = reg.list[id] \cup {a}
      /\ \A x \in DOMAIN reg.colls : x # n =>
            reg'.list[reg.colls[x]] = reg.list[reg.colls[x]]
  BY <1>1, <1>2 DEF LiveInv, Shape, OneName
<1> HIDE DEF aliases
<1>5. Shape' /\ OneName'
  BY <1>2, <1>3, <1>4 DEF Shape, OneName, LiveInv
<1>6. IdsBelowNext'
  BY <1>1, <1>4 DEF IdsBelowNext, LiveInv
<1>7. ListedLeads'
  <2> SUFFICES ASSUME NEW m \in DOMAIN reg.colls, NEW x \in reg'.list[reg.colls[m]]
               PROVE  x \in DOMAIN aliases /\ aliases[x] = m
    BY <1>4 DEF ListedLeads
  <2>1. CASE m = n /\ x = a
    BY <2>1, <1>3
  <2>2. CASE ~(m = n /\ x = a)
    <3>1. x \in reg.list[reg.colls[m]]
      BY <2>2, <1>4
    <3>2. x \in DOMAIN reg.aliases /\ reg.aliases[x] = m
      BY <3>1 DEF ListedLeads, LiveInv
    <3> QED
      BY <3>2, <1>1, <1>3
  <2> QED
    BY <2>1, <2>2
<1>8. LeadsListed'
  <2> SUFFICES ASSUME NEW x \in DOMAIN aliases
               PROVE  /\ aliases[x] \in DOMAIN reg.colls
                      /\ x \in reg'.list[reg.colls[aliases[x]]]
    BY <1>4 DEF LeadsListed
  <2>1. CASE x = a
    BY <2>1, <1>1, <1>3, <1>4
  <2>2. CASE x # a
    <3>1. x \in DOMAIN reg.aliases /\ aliases[x] = reg.aliases[x]
      BY <2>2, <1>3
    <3>2. /\ reg.aliases[x] \in DOMAIN reg.colls
          /\ x \in reg.list[reg.colls[reg.aliases[x]]]
      BY <3>1 DEF LeadsListed, LiveInv
    <3> QED
      BY <3>1, <3>2, <1>4
  <2> QED
    BY <2>1, <2>2
<1> QED
  BY <1>5, <1>6, <1>7, <1>8 DEF LiveInv

(* delete_alias preserves it: the alias points to the collection that lists *)
(* it, so that the second case of the code does not arise.                  *)
LEMMA UnaliasLive ==
    ASSUME LiveInv, NEW a \in Name, DeleteAlias(a)
    PROVE  LiveInv'
<1> DEFINE n == reg.aliases[a]
           id == reg.colls[n]
           aliases == Without(reg.aliases, {a})
<1>1. a \in DOMAIN reg.aliases /\ n \in DOMAIN reg.colls /\ nextId' = nextId
  BY DEF DeleteAlias, LiveInv, LeadsListed
<1>2. reg' = [colls |-> reg.colls,
              list |-> [reg.list EXCEPT ![id] = reg.list[id] \ {a}],
              aliases |-> aliases]
  BY <1>1 DEF DeleteAlias, LiveInv, Shape
<1>3. /\ DOMAIN aliases = DOMAIN reg.aliases \ {a}
      /\ aliases = [x \in DOMAIN reg.aliases \ {a} |-> aliases[x]]
      /\ \A x \in DOMAIN reg.aliases : x # a => aliases[x] = reg.aliases[x]
  BY DEF Without
<1>4. /\ reg'.colls = reg.colls /\ reg'.aliases = aliases
      /\ DOMAIN reg'.list = Id
      /\ reg'.list[id] = reg.list[id] \ {a}
      /\ \A x \in DOMAIN reg.colls : x # n =>
            reg'.list[reg.colls[x]] = reg.list[reg.colls[x]]
  BY <1>1, <1>2 DEF LiveInv, Shape, OneName
<1>5. \A m \in DOMAIN reg.colls : a \in reg.list[reg.colls[m]] => m = n
  BY DEF LiveInv, ListedLeads
<1> HIDE DEF aliases
<1>6. Shape' /\ OneName'
  BY <1>2, <1>3, <1>4 DEF Shape, OneName, LiveInv
<1>7. IdsBelowNext'
  BY <1>1, <1>4 DEF IdsBelowNext, LiveInv
<1>8. ListedLeads'
  <2> SUFFICES ASSUME NEW m \in DOMAIN reg.colls, NEW x \in reg'.list[reg.colls[m]]
               PROVE  x \in DOMAIN aliases /\ aliases[x] = m
    BY <1>4 DEF ListedLeads
  <2>1. x \in reg.list[reg.colls[m]] /\ x # a
    BY <1>4, <1>5
  <2>2. x \in DOMAIN reg.aliases /\ reg.aliases[x] = m
    BY <2>1 DEF ListedLeads, LiveInv
  <2> QED
    BY <2>1, <2>2, <1>3
<1>9. LeadsListed'
  <2> SUFFICES ASSUME NEW x \in DOMAIN aliases
               PROVE  /\ aliases[x] \in DOMAIN reg.colls
                      /\ x \in reg'.list[reg.colls[aliases[x]]]
    BY <1>4 DEF LeadsListed
  <2>1. x \in DOMAIN reg.aliases /\ x # a /\ aliases[x] = reg.aliases[x]
    BY <1>3
  <2>2. /\ reg.aliases[x] \in DOMAIN reg.colls
        /\ x \in reg.list[reg.colls[reg.aliases[x]]]
    BY <2>1 DEF LeadsListed, LiveInv
  <2> QED
    BY <2>1, <2>2, <1>4
<1> QED
  BY <1>6, <1>7, <1>8, <1>9 DEF LiveInv

(* delete_collection preserves it: exactly its aliases lead to it.          *)
LEMMA DropLive ==
    ASSUME LiveInv, NEW n \in Name, DeleteCollection(n)
    PROVE  LiveInv'
<1> DEFINE gone == reg.list[reg.colls[n]]
           colls == Without(reg.colls, {n})
           aliases == Without(reg.aliases, gone)
<1>1. n \in DOMAIN reg.colls /\ nextId' = nextId
  BY DEF DeleteCollection
<1>2. reg' = [colls |-> colls, list |-> reg.list, aliases |-> aliases]
  BY DEF DeleteCollection, LiveInv, Shape
<1>3. /\ DOMAIN colls = DOMAIN reg.colls \ {n}
      /\ colls = [x \in DOMAIN reg.colls \ {n} |-> colls[x]]
      /\ \A x \in DOMAIN colls : colls[x] = reg.colls[x]
      /\ DOMAIN aliases = DOMAIN reg.aliases \ gone
      /\ aliases = [x \in DOMAIN reg.aliases \ gone |-> aliases[x]]
      /\ \A x \in DOMAIN aliases : aliases[x] = reg.aliases[x]
  BY DEF Without
<1>4. reg'.colls = colls /\ reg'.aliases = aliases /\ reg'.list = reg.list
  BY <1>2
<1>5. \A x \in gone : reg.aliases[x] = n
  BY <1>1 DEF LiveInv, ListedLeads
<1> HIDE DEF colls, aliases
<1>6. Shape' /\ OneName'
  BY <1>2, <1>3, <1>4 DEF Shape, OneName, LiveInv
<1>7. IdsBelowNext'
  BY <1>1, <1>3, <1>4 DEF IdsBelowNext, LiveInv
<1>8. ListedLeads'
  <2> SUFFICES ASSUME NEW m \in DOMAIN colls, NEW x \in reg.list[colls[m]]
               PROVE  x \in DOMAIN aliases /\ aliases[x] = m
    BY <1>4 DEF ListedLeads
  <2>1. m \in DOMAIN reg.colls /\ m # n /\ colls[m] = reg.colls[m]
    BY <1>3
  <2>2. x \in DOMAIN reg.aliases /\ reg.aliases[x] = m
    BY <2>1 DEF ListedLeads, LiveInv
  <2> QED
    BY <2>1, <2>2, <1>3, <1>5
<1>9. LeadsListed'
  <2> SUFFICES ASSUME NEW x \in DOMAIN aliases
               PROVE  /\ aliases[x] \in DOMAIN colls
                      /\ x \in reg.list[colls[aliases[x]]]
    BY <1>4 DEF LeadsListed
  <2>1. x \in DOMAIN reg.aliases /\ x \notin gone /\ aliases[x] = reg.aliases[x]
    BY <1>3
  <2>2. /\ reg.aliases[x] \in DOMAIN reg.colls
        /\ x \in reg.list[reg.colls[reg.aliases[x]]]
    BY <2>1 DEF LeadsListed, LiveInv
  <2>3. reg.aliases[x] # n
    BY <2>1, <2>2
  <2> QED
    BY <2>1, <2>2, <2>3, <1>3
<1> QED
  BY <1>6, <1>7, <1>8, <1>9 DEF LiveInv

(* rename_collection preserves it: all that lead to the old name are        *)
(* re-pointed.                                                              *)
LEMMA RenameLive ==
    ASSUME LiveInv, NEW from \in Name, NEW to \in Name, RenameCollection(from, to)
    PROVE  LiveInv'
<1> DEFINE id == reg.colls[from]
           own == reg.list[id]
           colls == Put(Without(reg.colls, {from}), to, id)
           aliases == Override(reg.aliases, Repointed(id, to))
<1>1. /\ from \in DOMAIN reg.colls /\ to \notin DOMAIN reg.colls
      /\ nextId' = nextId
  BY DEF RenameCollection
<1>2. reg' = [colls |-> colls, list |-> reg.list, aliases |-> aliases]
  BY DEF RenameCollection, LiveInv, Shape
<1>3. /\ DOMAIN colls = (DOMAIN reg.colls \ {from}) \cup {to}
      /\ colls = [x \in DOMAIN colls |-> colls[x]]
      /\ colls[to] = id
  BY DEF Put, Override, Without
<1>4. \A x \in DOMAIN reg.colls : x # from => x # to /\ colls[x] = reg.colls[x]
  BY <1>1 DEF Put, Override, Without
<1>5. /\ DOMAIN aliases = DOMAIN reg.aliases \cup own
      /\ aliases = [x \in DOMAIN reg.aliases \cup own |-> aliases[x]]
      /\ \A x \in own : aliases[x] = to
      /\ \A x \in DOMAIN reg.aliases \ own : aliases[x] = reg.aliases[x]
  BY DEF Override, Repointed
<1>6. reg'.colls = colls /\ reg'.aliases = aliases /\ reg'.list = reg.list
  BY <1>2
<1>7. \A x \in own : x \in DOMAIN reg.aliases /\ reg.aliases[x] = from
  BY <1>1 DEF LiveInv, ListedLeads
<1> HIDE DEF colls, aliases
<1>8. Shape' /\ OneName' /\ IdsBelowNext'
  BY <1>1, <1>2, <1>3, <1>4, <1>5, <1>6 DEF Shape, OneName, IdsBelowNext, LiveInv
<1>9. ListedLeads'
  <2> SUFFICES ASSUME NEW m \in DOMAIN colls, NEW x \in reg.list[colls[m]]
               PROVE  x \in DOMAIN aliases /\ aliases[x] = m
    BY <1>6 DEF ListedLeads
  <2>1. CASE m = to
    BY <2>1, <1>3, <1>5
  <2>2. CASE m # to
    <3>1. m \in DOMAIN reg.colls /\ m # from /\ colls[m] = reg.colls[m]
      BY <2>2, <1>3, <1>4
    <3>2. x \in DOMAIN reg.aliases /\ reg.aliases[x] = m
      BY <3>1 DEF ListedLeads, LiveInv
    <3> QED
      BY <3>1, <3>2, <1>5, <1>7
  <2> QED
    BY <2>1, <2>2
<1>10. LeadsListed'
  <2> SUFFICES ASSUME NEW x \in DOMAIN aliases
               PROVE  /\ aliases[x] \in DOMAIN colls
                      /\ x \in reg.list[colls[aliases[x]]]
    BY <1>6 DEF LeadsListed
  <2>1. CASE x \in own
    BY <2>1, <1>3, <1>5
  <2>2. CASE x \notin own
    <3>1. x \in DOMAIN reg.aliases /\ aliases[x] = reg.aliases[x]
      BY <2>2, <1>5
    <3>2. /\ reg.aliases[x] \in DOMAIN reg.colls
          /\ x \in reg.list[reg.colls[reg.aliases[x]]]
      BY <3>1 DEF LeadsListed, LiveInv
    <3>3. reg.aliases[x] # from
      BY <3>2, <2>2
    <3> QED
      BY <3>1, <3>2, <3>3, <1>3, <1>4
  <2> QED
    BY <2>1, <2>2
<1> QED
  BY <1>8, <1>9, <1>10 DEF LiveInv

-----------------------------------------------------------------------------
(* Every operation preserves the live invariant.                            *)
Operation ==
    \/ \E n \in Name : CreateCollection(n) \/ DeleteCollection(n) \/ DeleteAlias(n)
    \/ \E n, m \in Name : CreateAlias(n, m) \/ RenameCollection(n, m)

(* Every operation of the live registry keeps the invariant.                *)
LEMMA OperationInv ==
    ASSUME IInv, Operation
    PROVE  IInv'
<1>1. \E op : Call(op)
  BY DEF Operation, CreateCollection, DeleteCollection, DeleteAlias, CreateAlias,
         RenameCollection
<1>2. /\ pc' = pc /\ count'.downs = count.downs
      /\ count' = [calls |-> count'.calls, downs |-> count'.downs]
  BY <1>1 DEF Call, IInv
<1>3. LiveInv => LiveInv'
  BY CreateLive, DropLive, UnaliasLive, AliasLive, RenameLive DEF Operation
<1> QED
  BY <1>2, <1>3 DEF IInv, NeverRecovered

(* Every step preserves the inductive invariant: after a crash it says      *)
(* nothing more of the registry.                                            *)
LEMMA NextInv ==
    ASSUME IInv, [Next]_vars
    PROVE  IInv'
<1>1. CASE Operation
  BY <1>1, OperationInv
<1>2. CASE SwapToc \/ TruncateWal
  BY <1>2 DEF SwapToc, TruncateWal, IInv, LiveInv, Shape, OneName, IdsBelowNext,
              ListedLeads, LeadsListed, NeverRecovered
<1>3. CASE Kill
  <2>1. count'.downs = count.downs + 1 /\ pc' = "down"
        /\ count' = [calls |-> count'.calls, downs |-> count'.downs]
    BY <1>3 DEF Kill, IInv
  <2> QED
    BY <2>1 DEF IInv, NeverRecovered
<1>4. CASE Open
  BY <1>4 DEF Open, IInv, NeverRecovered
<1>5. CASE Finished \/ UNCHANGED vars
  BY <1>5 DEF Finished, vars, IInv, LiveInv, Shape, OneName, IdsBelowNext,
              ListedLeads, LeadsListed, NeverRecovered
<1> QED
  BY <1>1, <1>2, <1>3, <1>4, <1>5 DEF Next, Operation

(* The live invariant says what AliasesConsistent says.                     *)
LEMMA InvImplies == IInv => AliasesConsistent
<1> SUFFICES ASSUME IInv, NeverRecovered
             PROVE  /\ DOMAIN reg.aliases = UNION {reg.list[i] : i \in Live(reg)}
                    /\ \A i \in Live(reg) : \A a \in reg.list[i] :
                          reg.aliases[a] = NameOf(reg, i)
  BY DEF AliasesConsistent
<1>1. LiveInv
  BY DEF IInv
<1>2. \A a \in DOMAIN reg.aliases : \E i \in Live(reg) : a \in reg.list[i]
  BY <1>1 DEF LiveInv, LeadsListed, Live
<1>3. ASSUME NEW i \in Live(reg), NEW a \in reg.list[i]
      PROVE  a \in DOMAIN reg.aliases /\ reg.aliases[a] = NameOf(reg, i)
  <2>1. PICK n \in DOMAIN reg.colls : i = reg.colls[n]
    BY DEF Live
  <2>2. NameOf(reg, i) = n
    BY <1>1, <2>1, NameOfColl DEF LiveInv
  <2> QED
    BY <1>1, <2>1, <2>2 DEF LiveInv, ListedLeads
<1> QED
  BY <1>2, <1>3

(* Until a recovery, the alias map and the alias lists tell the same story, *)
(* whatever collections and aliases are created, dropped and renamed.       *)
THEOREM AliasesStayConsistent == Spec => []AliasesConsistent
<1>1. Init => IInv
  BY InitInv
<1>2. IInv /\ [Next]_vars => IInv'
  BY NextInv
<1>3. IInv => AliasesConsistent
  BY InvImplies
<1> QED
  BY <1>1, <1>2, <1>3, PTL DEF Spec

-----------------------------------------------------------------------------
(* The registry that an open rebuilds.                                      *)

(* What a registry is: no collection has two names.                         *)
Registries ==
    {r \in [colls   : UNION {[S -> Id] : S \in SUBSET Name},
            list    : [Id -> SUBSET Name],
            aliases : UNION {[S -> Name] : S \in SUBSET Name}] :
        \A n, m \in DOMAIN r.colls : r.colls[n] = r.colls[m] => n = m}

LogEntry == [op : OpKinds, id : Id, name : Name]

(* What a TOC is: its collections have different names.                     *)
IsToc ==
    /\ DOMAIN toc \subseteq Id
    /\ \A i \in DOMAIN toc : toc[i].name \in Name /\ toc[i].aliases \subseteq Name
    /\ \A i, j \in DOMAIN toc : toc[i].name = toc[j].name => i = j

(* The shape of the state, and that ids are fresh.                          *)
Typed ==
    /\ reg \in Registries
    /\ wal \in Seq(LogEntry)
    /\ IsToc
    /\ pc \in {"idle", "truncate", "down"}
    /\ nextId \in 1..(MaxId + 1)
    /\ pc # "down" => \A i \in IdsOnDisk \cup Live(reg) : i < nextId

(* Two registries have the same collections and lists.                      *)
Same(r, s) == r.colls = s.colls /\ \A i \in Live(s) : r.list[i] = s.list[i]

(* What the disk says of the registry.                                      *)
OnDisk ==
    /\ pc = "idle" => \A r \in Recoveries : Same(r, reg)
    /\ pc = "truncate" => toc = SealedToc

-----------------------------------------------------------------------------
(* What the WAL says of a registry r that is the result of its entries.     *)

CollOps == {"create", "drop"}
AliasOps == {"alias", "unalias"}

(* An id is created before anything else is done with it, and dropped last. *)
InOrder(w) ==
    \A j, k \in 1..Len(w) :
       j < k /\ w[j].id = w[k].id => w[j].op # "drop" /\ w[k].op # "create"

(* Without renames, an id has one name.                                     *)
OneNameEach(w, r) ==
    \A k \in 1..Len(w) : w[k].op \in CollOps =>
       /\ \A j \in 1..Len(w) :
             w[j].op \in CollOps /\ w[j].id = w[k].id => w[j].name = w[k].name
       /\ \A n \in DOMAIN r.colls : r.colls[n] = w[k].id => n = w[k].name

(* Whom a name belongs to, the last entry that creates or drops it says.    *)
LastSays(w, r) ==
    \A k \in 1..Len(w) : w[k].op \in CollOps =>
       /\ w[k].name \in DOMAIN r.colls =>
             \E l \in k..Len(w) : w[l] = Entry("create", r.colls[w[k].name], w[k].name)
       /\ w[k].id \notin Live(r) =>
             \E l \in k..Len(w) : w[l] = Entry("drop", w[k].id, w[k].name)

(* What was dropped is gone.                                                *)
DroppedDead(w, r) ==
    \A k \in 1..Len(w) : w[k].op = "drop" => w[k].id \notin Live(r)

(* What a collection lists: the last entry about it and the alias says.     *)
ListedLast(w, r) ==
    \A k \in 1..Len(w) : w[k].op \in AliasOps /\ w[k].id \in Live(r) =>
       \/ \E l \in (k + 1)..Len(w) :
             w[l].op \in AliasOps /\ w[l].id = w[k].id /\ w[l].name = w[k].name
       \/ w[k].op = "alias" <=> w[k].name \in r.list[w[k].id]

(* What is listed by a collection created since has an entry.               *)
ListedSince(w, r) ==
    \A k \in 1..Len(w) : w[k].op = "create" /\ w[k].id \in Live(r) =>
       \A a \in r.list[w[k].id] :
          \E l \in 1..Len(w) : w[l] = Entry("alias", w[k].id, a)

Tells(w, r) ==
    /\ InOrder(w) /\ OneNameEach(w, r) /\ LastSays(w, r) /\ DroppedDead(w, r)
    /\ ListedLast(w, r) /\ ListedSince(w, r)

(* ... of the registry in memory, or of the one the next open rebuilds.     *)
LogTells ==
    ~Pending({"rename"}) =>
       IF pc = "down" THEN \A r \in Recoveries : Tells(wal, r) ELSE Tells(wal, reg)

(* Where an alias leads: the last entry about it says.                      *)
LeadsLast ==
    \A k \in 1..Len(wal) :
       /\ wal[k].id \in Live(reg)
       /\ wal[k].op \in AliasOps =>
             \/ \E l \in (k + 1)..Len(wal) :
                   wal[l].op \in AliasOps /\ wal[l].name = wal[k].name
             \/ IF wal[k].op = "alias"
                THEN /\ wal[k].name \in DOMAIN reg.aliases
                     /\ reg.colls[reg.aliases[wal[k].name]] = wal[k].id
                ELSE wal[k].name \notin DOMAIN reg.aliases

AliasesOnDisk ==
    NeverRecovered /\ ~Pending({"drop", "rename"}) =>
       /\ pc = "idle" => \A r \in Recoveries : r.aliases = reg.aliases
       /\ LeadsLast

-----------------------------------------------------------------------------
(* Maps and registries.                                                     *)

(* A function is determined by its values.                                  *)
IsMap(f) == f = [x \in DOMAIN f |-> f[x]]

(* g is f with k mapped to v, or f outside S.                               *)
IsPut(g, f, k, v) ==
    /\ IsMap(g) /\ DOMAIN g = DOMAIN f \cup {k}
    /\ g[k] = v /\ \A x \in DOMAIN f : x # k => g[x] = f[x]
IsWithout(g, f, S) ==
    /\ IsMap(g) /\ DOMAIN g = DOMAIN f \ S
    /\ \A x \in DOMAIN g : g[x] = f[x]

(* What Put yields.                                                         *)
LEMMA PutIs == \A f, k, v : IsPut(Put(f, k, v), f, k, v)
  BY DEF Put, Override, IsMap, IsPut

(* What Without yields.                                                     *)
LEMMA WithoutIs == \A f, S : IsWithout(Without(f, S), f, S)
  BY DEF Without, IsMap, IsWithout

(* What the parts of a registry are.                                        *)
LEMMA PartsAre ==
    ASSUME NEW r \in Registries
    PROVE  /\ r = [colls |-> r.colls, list |-> r.list, aliases |-> r.aliases]
           /\ IsMap(r.colls)
           /\ DOMAIN r.colls \subseteq Name /\ \A n \in DOMAIN r.colls : r.colls[n] \in Id
           /\ \A n, m \in DOMAIN r.colls : r.colls[n] = r.colls[m] => n = m
           /\ r.list \in [Id -> SUBSET Name]
           /\ IsMap(r.aliases)
           /\ DOMAIN r.aliases \subseteq Name /\ \A a \in DOMAIN r.aliases : r.aliases[a] \in Name
           /\ Live(r) \subseteq Id
<1>1. /\ r = [colls |-> r.colls, list |-> r.list, aliases |-> r.aliases]
      /\ r.list \in [Id -> SUBSET Name]
      /\ r.colls \in UNION {[S -> Id] : S \in SUBSET Name}
      /\ r.aliases \in UNION {[S -> Name] : S \in SUBSET Name}
      /\ \A n, m \in DOMAIN r.colls : r.colls[n] = r.colls[m] => n = m
  BY DEF Registries
<1>2. PICK S \in SUBSET Name : r.colls \in [S -> Id]
  BY <1>1
<1>3. PICK T \in SUBSET Name : r.aliases \in [T -> Name]
  BY <1>1
<1> QED
  BY <1>1, <1>2, <1>3 DEF Live, IsMap

(* What parts make a registry.                                              *)
LEMMA IsRegistry ==
    ASSUME NEW C, NEW L, NEW A,
           IsMap(C), DOMAIN C \subseteq Name,
           \A n \in DOMAIN C : C[n] \in Id,
           \A n, m \in DOMAIN C : C[n] = C[m] => n = m,
           L \in [Id -> SUBSET Name],
           IsMap(A), DOMAIN A \subseteq Name,
           \A a \in DOMAIN A : A[a] \in Name
    PROVE  [colls |-> C, list |-> L, aliases |-> A] \in Registries
<1>1. C \in [DOMAIN C -> Id] /\ A \in [DOMAIN A -> Name]
  BY DEF IsMap
<1>2. /\ C \in UNION {[S -> Id] : S \in SUBSET Name}
      /\ A \in UNION {[S -> Name] : S \in SUBSET Name}
  <2>1. DOMAIN C \in SUBSET Name /\ DOMAIN A \in SUBSET Name
    OBVIOUS
  <2> QED
    BY <1>1, <2>1
<1> QED
  BY <1>2 DEF Registries

(* The name of a live id.                                                   *)
LEMMA NameIs ==
    ASSUME NEW r \in Registries, NEW i \in Live(r)
    PROVE  /\ NameOf(r, i) \in DOMAIN r.colls /\ r.colls[NameOf(r, i)] = i
           /\ NameOf(r, i) \in Name
           /\ \A n \in DOMAIN r.colls : r.colls[n] = i => n = NameOf(r, i)
<1>1. \E n \in DOMAIN r.colls : r.colls[n] = i
  BY DEF Live
<1>2. NameOf(r, i) \in DOMAIN r.colls /\ r.colls[NameOf(r, i)] = i
  BY <1>1 DEF NameOf
<1> QED
  BY <1>2, PartsAre

-----------------------------------------------------------------------------
(* One entry.                                                               *)

(* An entry that replay leaves alone: its collection is there already, or   *)
(* is not there.                                                            *)
LEMMA ReplaySkips ==
    ASSUME NEW r \in Registries, NEW e \in LogEntry, e.id \in Live(r) <=> e.op = "create"
    PROVE  Replay(r, e) = r
  BY DEF Replay, ReplayCreate, ReplayDrop, ReplayRename, ReplayAlias, ReplayUnalias,
         LogEntry, OpKinds

(* The creation of a collection that is not there.                          *)
LEMMA ReplayCreates ==
    ASSUME NEW r \in Registries, NEW e \in LogEntry, e.id \notin Live(r), e.op = "create"
    PROVE  /\ Replay(r, e) = [colls |-> Put(r.colls, e.name, e.id),
                              list |-> [r.list EXCEPT ![e.id] = {}],
                              aliases |-> r.aliases]
           /\ Replay(r, e) \in Registries
<1>p. /\ r = [colls |-> r.colls, list |-> r.list, aliases |-> r.aliases]
      /\ IsMap(r.colls)
      /\ DOMAIN r.colls \subseteq Name /\ \A n \in DOMAIN r.colls : r.colls[n] \in Id
      /\ \A n, m \in DOMAIN r.colls : r.colls[n] = r.colls[m] => n = m
      /\ r.list \in [Id -> SUBSET Name]
      /\ IsMap(r.aliases)
      /\ DOMAIN r.aliases \subseteq Name /\ \A a \in DOMAIN r.aliases : r.aliases[a] \in Name
  BY PartsAre
<1> DEFINE C == Put(r.colls, e.name, e.id)
           L == [r.list EXCEPT ![e.id] = {}]
<1>1. e.id \in Id /\ e.name \in Name
  BY DEF LogEntry
<1>2. Replay(r, e) = [colls |-> C, list |-> L, aliases |-> r.aliases]
  BY <1>p DEF Replay, ReplayCreate
<1>3. L \in [Id -> SUBSET Name]
  BY <1>p
<1>4. IsPut(C, r.colls, e.name, e.id)
  BY PutIs
<1>5. \A n \in DOMAIN r.colls : r.colls[n] # e.id
  BY DEF Live
<1> HIDE DEF C, L
<1>6. /\ DOMAIN C \subseteq Name /\ \A n \in DOMAIN C : C[n] \in Id
      /\ \A n, m \in DOMAIN C : C[n] = C[m] => n = m
  BY <1>1, <1>4, <1>5, <1>p DEF IsPut
<1>7. Replay(r, e) \in Registries
  BY <1>2, <1>3, <1>4, <1>6, <1>p, IsRegistry DEF IsPut
<1> QED
  BY <1>2, <1>7 DEF C, L

(* A drop.                                                                  *)
LEMMA ReplayDrops ==
    ASSUME NEW r \in Registries, NEW e \in LogEntry, e.id \in Live(r), e.op = "drop"
    PROVE  /\ Replay(r, e) = [colls |-> Without(r.colls, {NameOf(r, e.id)}),
                              list |-> r.list, aliases |-> r.aliases]
           /\ Replay(r, e) \in Registries
<1>p. /\ r = [colls |-> r.colls, list |-> r.list, aliases |-> r.aliases]
      /\ IsMap(r.colls)
      /\ DOMAIN r.colls \subseteq Name /\ \A n \in DOMAIN r.colls : r.colls[n] \in Id
      /\ \A n, m \in DOMAIN r.colls : r.colls[n] = r.colls[m] => n = m
      /\ r.list \in [Id -> SUBSET Name]
      /\ IsMap(r.aliases)
      /\ DOMAIN r.aliases \subseteq Name /\ \A a \in DOMAIN r.aliases : r.aliases[a] \in Name
  BY PartsAre
<1> DEFINE C == Without(r.colls, {NameOf(r, e.id)})
<1>1. Replay(r, e) = [colls |-> C, list |-> r.list, aliases |-> r.aliases]
  BY <1>p DEF Replay, ReplayDrop
<1>2. IsWithout(C, r.colls, {NameOf(r, e.id)})
  BY WithoutIs
<1> HIDE DEF C
<1>3. Replay(r, e) \in Registries
  BY <1>1, <1>2, <1>p, IsRegistry DEF IsWithout
<1> QED
  BY <1>1, <1>3 DEF C

(* A rename.                                                                *)
LEMMA ReplayRenames ==
    ASSUME NEW r \in Registries, NEW e \in LogEntry, e.id \in Live(r), e.op = "rename"
    PROVE  /\ Replay(r, e) = [colls |-> Put(Without(r.colls, {NameOf(r, e.id)}), e.name, e.id),
                              list |-> r.list, aliases |-> r.aliases]
           /\ Replay(r, e) \in Registries
<1>p. /\ r = [colls |-> r.colls, list |-> r.list, aliases |-> r.aliases]
      /\ IsMap(r.colls)
      /\ DOMAIN r.colls \subseteq Name /\ \A n \in DOMAIN r.colls : r.colls[n] \in Id
      /\ \A n, m \in DOMAIN r.colls : r.colls[n] = r.colls[m] => n = m
      /\ r.list \in [Id -> SUBSET Name]
      /\ IsMap(r.aliases)
      /\ DOMAIN r.aliases \subseteq Name /\ \A a \in DOMAIN r.aliases : r.aliases[a] \in Name
  BY PartsAre
<1> DEFINE B == Without(r.colls, {NameOf(r, e.id)})
           C == Put(B, e.name, e.id)
<1>1. Replay(r, e) = [colls |-> C, list |-> r.list, aliases |-> r.aliases]
  BY <1>p DEF Replay, ReplayRename
<1>2. IsWithout(B, r.colls, {NameOf(r, e.id)})
  BY WithoutIs
<1>3. IsPut(C, B, e.name, e.id)
  <2> HIDE DEF B
  <2> QED
    BY PutIs
<1> HIDE DEF B, C
<1>4. e.id \in Id /\ e.name \in Name
  BY DEF LogEntry
<1>5. \A x \in DOMAIN B : B[x] # e.id
  BY <1>2, NameIs DEF IsWithout
<1>6. /\ DOMAIN C \subseteq Name /\ \A n \in DOMAIN C : C[n] \in Id
      /\ \A n, m \in DOMAIN C : C[n] = C[m] => n = m
  BY <1>2, <1>3, <1>4, <1>5, <1>p DEF IsWithout, IsPut
<1>7. Replay(r, e) \in Registries
  BY <1>1, <1>3, <1>6, <1>p, IsRegistry DEF IsPut
<1> QED
  BY <1>1, <1>7 DEF B, C

(* An alias.                                                                *)
LEMMA ReplayAliases ==
    ASSUME NEW r \in Registries, NEW e \in LogEntry, e.id \in Live(r), e.op = "alias"
    PROVE  /\ Replay(r, e) = [colls |-> r.colls,
                              list |-> [r.list EXCEPT ![e.id] = r.list[e.id] \cup {e.name}],
                              aliases |-> Put(r.aliases, e.name, NameOf(r, e.id))]
           /\ Replay(r, e) \in Registries
<1>p. /\ r = [colls |-> r.colls, list |-> r.list, aliases |-> r.aliases]
      /\ IsMap(r.colls)
      /\ DOMAIN r.colls \subseteq Name /\ \A n \in DOMAIN r.colls : r.colls[n] \in Id
      /\ \A n, m \in DOMAIN r.colls : r.colls[n] = r.colls[m] => n = m
      /\ r.list \in [Id -> SUBSET Name]
      /\ IsMap(r.aliases)
      /\ DOMAIN r.aliases \subseteq Name /\ \A a \in DOMAIN r.aliases : r.aliases[a] \in Name
  BY PartsAre
<1> DEFINE L == [r.list EXCEPT ![e.id] = r.list[e.id] \cup {e.name}]
           A == Put(r.aliases, e.name, NameOf(r, e.id))
<1>1. e.id \in Id /\ e.name \in Name /\ NameOf(r, e.id) \in Name
  BY NameIs DEF LogEntry
<1>2. Replay(r, e) = [colls |-> r.colls, list |-> L, aliases |-> A]
  BY <1>p DEF Replay, ReplayAlias
<1>3. L \in [Id -> SUBSET Name]
  BY <1>1, <1>p
<1>4. IsPut(A, r.aliases, e.name, NameOf(r, e.id))
  BY PutIs
<1> HIDE DEF A, L
<1>5. DOMAIN A \subseteq Name /\ \A a \in DOMAIN A : A[a] \in Name
  BY <1>1, <1>4, <1>p DEF IsPut
<1>6. Replay(r, e) \in Registries
  BY <1>2, <1>3, <1>4, <1>5, <1>p, IsRegistry DEF IsPut
<1> QED
  BY <1>2, <1>6 DEF A, L

(* The end of an alias.                                                     *)
LEMMA ReplayUnaliases ==
    ASSUME NEW r \in Registries, NEW e \in LogEntry, e.id \in Live(r), e.op = "unalias"
    PROVE  /\ Replay(r, e) = [colls |-> r.colls,
                              list |-> [r.list EXCEPT ![e.id] = r.list[e.id] \ {e.name}],
                              aliases |-> Without(r.aliases, {e.name})]
           /\ Replay(r, e) \in Registries
<1>p. /\ r = [colls |-> r.colls, list |-> r.list, aliases |-> r.aliases]
      /\ IsMap(r.colls)
      /\ DOMAIN r.colls \subseteq Name /\ \A n \in DOMAIN r.colls : r.colls[n] \in Id
      /\ \A n, m \in DOMAIN r.colls : r.colls[n] = r.colls[m] => n = m
      /\ r.list \in [Id -> SUBSET Name]
      /\ IsMap(r.aliases)
      /\ DOMAIN r.aliases \subseteq Name /\ \A a \in DOMAIN r.aliases : r.aliases[a] \in Name
  BY PartsAre
<1> DEFINE L == [r.list EXCEPT ![e.id] = r.list[e.id] \ {e.name}]
           A == Without(r.aliases, {e.name})
<1>1. e.id \in Id
  BY DEF LogEntry
<1>2. Replay(r, e) = [colls |-> r.colls, list |-> L, aliases |-> A]
  BY <1>p DEF Replay, ReplayUnalias
<1>3. L \in [Id -> SUBSET Name]
  BY <1>1, <1>p
<1>4. IsWithout(A, r.aliases, {e.name})
  BY WithoutIs
<1> HIDE DEF A, L
<1>5. Replay(r, e) \in Registries
  BY <1>2, <1>3, <1>4, <1>p, IsRegistry DEF IsWithout
<1> QED
  BY <1>2, <1>5 DEF A, L

(* Every kind of entry, as far as the ids go.                               *)
LEMMA ReplayType ==
    ASSUME NEW r \in Registries, NEW e \in LogEntry
    PROVE  Replay(r, e) \in Registries /\ Live(Replay(r, e)) \subseteq Live(r) \cup {e.id}
<1> DEFINE s == Replay(r, e)
<1>1. e.op \in OpKinds
  BY DEF LogEntry
<1>2. CASE e.id \in Live(r) <=> e.op = "create"
  BY <1>2, ReplaySkips
<1>3. CASE e.id \notin Live(r) /\ e.op = "create"
  <2>1. s.colls = Put(r.colls, e.name, e.id) /\ s \in Registries
    BY <1>3, ReplayCreates
  <2>2. IsPut(s.colls, r.colls, e.name, e.id)
    BY <2>1, PutIs
  <2> QED
    BY <2>1, <2>2 DEF IsPut, Live
<1>4. CASE e.id \in Live(r) /\ e.op = "drop"
  <2>1. s.colls = Without(r.colls, {NameOf(r, e.id)}) /\ s \in Registries
    BY <1>4, ReplayDrops
  <2>2. IsWithout(s.colls, r.colls, {NameOf(r, e.id)})
    BY <2>1, WithoutIs
  <2> QED
    BY <2>1, <2>2 DEF IsWithout, Live
<1>5. CASE e.id \in Live(r) /\ e.op = "rename"
  <2> DEFINE B == Without(r.colls, {NameOf(r, e.id)})
  <2>1. IsWithout(B, r.colls, {NameOf(r, e.id)})
    BY WithoutIs
  <2>2. s.colls = Put(B, e.name, e.id) /\ s \in Registries
    BY <1>5, ReplayRenames
  <2> HIDE DEF B
  <2>3. IsPut(s.colls, B, e.name, e.id)
    BY <2>2, PutIs
  <2> QED
    BY <2>1, <2>2, <2>3 DEF IsPut, IsWithout, Live
<1>6. CASE e.id \in Live(r) /\ e.op = "alias"
  <2>1. s.colls = r.colls /\ s \in Registries
    BY <1>6, ReplayAliases
  <2> QED
    BY <2>1 DEF Live
<1>7. CASE e.id \in Live(r) /\ e.op = "unalias"
  <2>1. /\ s = [colls |-> r.colls,
                list |-> [r.list EXCEPT ![e.id] = r.list[e.id] \ {e.name}],
                aliases |-> Without(r.aliases, {e.name})]
        /\ s \in Registries
    BY <1>7, ReplayUnaliases
  <2> QED
    BY <2>1 DEF Live
<1> QED
  BY <1>1, <1>2, <1>3, <1>4, <1>5, <1>6, <1>7 DEF OpKinds

-----------------------------------------------------------------------------
(* Any number of entries.                                                   *)

(* The registries on the way from s through the entries of w.               *)
IsTrace(A, s, w) ==
    /\ A \in [0..Len(w) -> Registries] /\ A[0] = s
    /\ \A k \in 1..Len(w) : A[k] = Replay(A[k - 1], w[k])

(* ReplayAll is the end of such a trace.                                    *)
LEMMA Trace ==
    ASSUME NEW s \in Registries, NEW w \in Seq(LogEntry)
    PROVE  \E A : IsTrace(A, s, w) /\ A[Len(w)] = ReplayAll(s, w)
<1> DEFINE N == Len(w)
           G == [k \in 1..N |-> [x \in Registries |-> Replay(x, w[k])]]
           A == [k \in 0..N |-> Iterate(G, s, k)]
<1>0. N \in Nat /\ DOMAIN w = 1..N /\ \A k \in 1..N : w[k] \in LogEntry
  OBVIOUS
<1>1. Steps(G, Registries, N)
  <2>1. \A k \in 1..N : \A x \in Registries : Replay(x, w[k]) \in Registries
    BY <1>0, ReplayType
  <2> QED
    BY <2>1 DEF Steps
<1>2. /\ Iterate(G, s, 0) = s
      /\ \A n \in 0..N : Iterate(G, s, n) \in Registries
      /\ \A n \in 1..N : Iterate(G, s, n) = G[n][Iterate(G, s, n - 1)]
  <2> HIDE DEF G, N
  <2>1. Iterates(G, Registries, s, N)
    BY <1>0, <1>1, IterateSteps
  <2> QED
    BY ONLY <2>1 DEF Iterates
<1>3. IsTrace(A, s, w)
  <2>1. A \in [0..N -> Registries] /\ A[0] = s
    BY <1>0, <1>2
  <2>2. ASSUME NEW k \in 1..N
        PROVE  A[k] = Replay(A[k - 1], w[k])
    <3>1. k \in 0..N /\ k - 1 \in 0..N
      BY <1>0
    <3>2. A[k] = G[k][A[k - 1]] /\ A[k - 1] \in Registries
      BY <3>1, <1>2
    <3> QED
      BY <3>2
  <2> QED
    BY <2>1, <2>2 DEF IsTrace
<1>4. ReplayAll(s, w) = Iterate(G, s, N)
  <2> DEFINE IsSol(g) == g = [S \in SUBSET (1..N) |-> IF S = {} THEN s
                                ELSE Replay(g[S \ {Max(S)}], w[Max(S)])]
             g0 == CHOOSE g : IsSol(g)
  <2>1. \E g : IsSol(g)
    <3>1. PICK f \in [SUBSET (1..N) -> Registries] : IsFold(f, G, s, N)
      <4> HIDE DEF G, N
      <4> QED
        BY <1>0, <1>1, FoldExists
    <3>2. ASSUME NEW S \in SUBSET (1..N), S # {}
          PROVE  Max(S) \in 1..N /\ f[S] = Replay(f[S \ {Max(S)}], w[Max(S)])
      <4>1. Max(S) \in S
        <5> HIDE DEF N
        <5> QED
          BY <3>2, <1>0, MaxExists
      <4>2. f[S \ {Max(S)}] \in Registries
        BY <3>1
      <4>3. f[S] = G[Max(S)][f[S \ {Max(S)}]]
        BY <3>1, <3>2 DEF IsFold
      <4>4. \A m \in 1..N : \A x \in Registries : G[m][x] = Replay(x, w[m])
        OBVIOUS
      <4> QED
        <5> HIDE DEF G, N
        <5> QED
          BY <4>1, <4>2, <4>3, <4>4
    <3>3. f[{}] = s
      BY <3>1 DEF IsFold
    <3>4. IsSol(f)
      BY <3>1, <3>2, <3>3
    <3> QED
      BY <3>4
  <2>2. IsSol(g0)
    BY <2>1
  <2>3. ReplayAll(s, w) = g0[1..N]
    BY <1>0 DEF ReplayAll, FoldLeft, MapThenFoldSet
  <2>4. g0[{}] = s
    <3> HIDE DEF g0
    <3> QED
      BY <2>2
  <2>5. ASSUME NEW k \in 1..N, g0[1..(k - 1)] \in Registries
        PROVE  g0[1..k] = G[k][g0[1..(k - 1)]]
    <3>1. Max(1..k) = k /\ (1..k) \ {k} = 1..(k - 1)
      BY MaxOfInterval
    <3>2. 1..k \in SUBSET (1..N) /\ 1..k # {}
      <4>1. N \in Nat /\ k \in 1..N
        BY <1>0
      <4>2. k \in 1..k
        BY <4>1
      <4>3. \A j \in 1..k : j \in 1..N
        <5> HIDE DEF N
        <5> QED
          BY <4>1
      <4> QED
        BY <4>2, <4>3, Zenon
    <3>3. g0[1..k] = Replay(g0[1..(k - 1)], w[k])
      <4> HIDE DEF g0
      <4> QED
        BY <2>2, <3>1, <3>2
    <3> QED
      BY <3>3, <2>5
  <2>6. g0[1..N] = Iterate(G, s, N)
    <3> HIDE DEF g0, G, N
    <3> QED
      BY <1>0, <1>1, <2>4, <2>5, FoldIsIterate
  <2> QED
    BY <2>3, <2>6
<1>5. A[N] = ReplayAll(s, w)
  BY <1>0, <1>4
<1> QED
  <2> HIDE DEF A
  <2> QED
    BY <1>3, <1>5

(* What an open rebuilds is a registry.                                     *)
LEMMA ReplayAllType ==
    ASSUME NEW s \in Registries, NEW w \in Seq(LogEntry)
    PROVE  ReplayAll(s, w) \in Registries
<1>1. PICK A : IsTrace(A, s, w) /\ A[Len(w)] = ReplayAll(s, w)
  BY Trace
<1>2. Len(w) \in 0..Len(w)
  OBVIOUS
<1> QED
  BY <1>1, <1>2 DEF IsTrace

(* No entries change nothing.                                               *)
LEMMA ReplayNone ==
    ASSUME NEW s \in Registries
    PROVE  ReplayAll(s, <<>>) = s
<1>1. <<>> \in Seq(LogEntry) /\ Len(<<>>) = 0
  OBVIOUS
<1>2. PICK A : IsTrace(A, s, <<>>) /\ A[0] = ReplayAll(s, <<>>)
  BY <1>1, Trace
<1> QED
  BY <1>2 DEF IsTrace

(* An entry behind the others is replayed on what they yield.               *)
LEMMA ReplayNext ==
    ASSUME NEW s \in Registries, NEW w \in Seq(LogEntry), NEW e \in LogEntry
    PROVE  ReplayAll(s, Append(w, e)) = Replay(ReplayAll(s, w), e)
<1> DEFINE v == Append(w, e)
           n == Len(w)
<1>1. /\ v \in Seq(LogEntry) /\ Len(v) = n + 1 /\ n \in Nat
      /\ v[n + 1] = e /\ \A k \in 1..n : v[k] = w[k]
  OBVIOUS
<1>2. PICK A : IsTrace(A, s, w) /\ A[n] = ReplayAll(s, w)
  BY Trace
<1>3. PICK B : IsTrace(B, s, v) /\ B[n + 1] = ReplayAll(s, v)
  <2> HIDE DEF v
  <2> QED
    BY <1>1, Trace
<1> HIDE DEF v
<1> DEFINE S == {k \in 0..n : A[k] = B[k]}
<1>4. 0 \in S
  BY <1>1, <1>2, <1>3 DEF IsTrace
<1>5. ASSUME NEW k \in 0..n, k < n, k \in S
      PROVE  k + 1 \in S
  <2>1. k + 1 \in 1..n /\ k + 1 \in 1..Len(v) /\ (k + 1) - 1 = k /\ k + 1 \in 0..n
    BY <1>1, <1>5
  <2>2. A[k + 1] = Replay(A[k], w[k + 1]) /\ B[k + 1] = Replay(B[k], v[k + 1])
    BY <1>2, <1>3, <2>1 DEF IsTrace
  <2> QED
    BY <1>1, <1>5, <2>1, <2>2
<1>6. \A k \in 0..n : k \in S
  <2> HIDE DEF S
  <2> QED
    BY <1>1, <1>4, <1>5, BoundedInduction
<1>7. A[n] = B[n]
  BY <1>1, <1>6
<1>8. n + 1 \in 1..Len(v) /\ (n + 1) - 1 = n
  BY <1>1
<1>9. B[n + 1] = Replay(B[n], v[n + 1])
  BY <1>3, <1>8 DEF IsTrace
<1> QED
  BY <1>1, <1>2, <1>3, <1>7, <1>9 DEF v

(* Every collection that an open rebuilds was there or has an entry.        *)
LEMMA ReplayAllLive ==
    ASSUME NEW s \in Registries, NEW w \in Seq(LogEntry)
    PROVE  Live(ReplayAll(s, w)) \subseteq Live(s) \cup {w[k].id : k \in DOMAIN w}
<1> DEFINE n == Len(w)
           D == Live(s) \cup {w[k].id : k \in DOMAIN w}
<1>0. n \in Nat /\ DOMAIN w = 1..n /\ \A k \in 1..n : w[k] \in LogEntry
  OBVIOUS
<1>1. PICK A : IsTrace(A, s, w) /\ A[n] = ReplayAll(s, w)
  BY Trace
<1> DEFINE S == {k \in 0..n : Live(A[k]) \subseteq D}
<1>2. 0 \in S
  BY <1>0, <1>1 DEF IsTrace
<1>3. ASSUME NEW k \in 0..n, k < n, k \in S
      PROVE  k + 1 \in S
  <2>1. k + 1 \in 1..n /\ (k + 1) - 1 = k /\ k + 1 \in 0..n
    BY <1>0, <1>3
  <2>2. A[k + 1] = Replay(A[k], w[k + 1]) /\ A[k] \in Registries
    BY <1>1, <2>1 DEF IsTrace
  <2>3. Live(A[k + 1]) \subseteq Live(A[k]) \cup {w[k + 1].id}
    BY <1>0, <2>1, <2>2, ReplayType
  <2>4. w[k + 1].id \in D
    BY <1>0, <2>1
  <2> HIDE DEF D
  <2> QED
    BY <1>3, <2>1, <2>3, <2>4
<1>4. \A k \in 0..n : k \in S
  <2> HIDE DEF S
  <2> QED
    BY <1>0, <1>2, <1>3, BoundedInduction
<1>5. n \in S
  <2> HIDE DEF S
  <2> QED
    BY <1>0, <1>4
<1> QED
  BY <1>1, <1>5

(* One entry does the same to the collections and the lists, whatever the   *)
(* alias map.                                                               *)
LEMMA ReplayAlike ==
    ASSUME NEW r \in Registries, NEW s \in Registries, NEW e \in LogEntry,
           r.colls = s.colls, r.list = s.list
    PROVE  Replay(r, e).colls = Replay(s, e).colls /\ Replay(r, e).list = Replay(s, e).list
<1>1. Live(r) = Live(s) /\ NameOf(r, e.id) = NameOf(s, e.id)
  BY DEF Live, NameOf
<1>2. e.op \in OpKinds
  BY DEF LogEntry
<1>3. CASE e.id \in Live(r) <=> e.op = "create"
  <2>1. Replay(r, e) = r /\ Replay(s, e) = s
    BY <1>1, <1>3, ReplaySkips
  <2> QED
    BY <2>1
<1>4. CASE e.id \notin Live(r) /\ e.op = "create"
  <2>1. \A t \in {r, s} : Replay(t, e) = [colls |-> Put(t.colls, e.name, e.id),
                                          list |-> [t.list EXCEPT ![e.id] = {}],
                                          aliases |-> t.aliases]
    BY <1>1, <1>4, ReplayCreates
  <2> QED
    BY <2>1
<1>5. CASE e.id \in Live(r) /\ e.op = "drop"
  <2>1. \A t \in {r, s} : Replay(t, e) = [colls |-> Without(t.colls, {NameOf(t, e.id)}),
                                          list |-> t.list, aliases |-> t.aliases]
    BY <1>1, <1>5, ReplayDrops
  <2> QED
    BY <1>1, <2>1
<1>6. CASE e.id \in Live(r) /\ e.op = "rename"
  <2>1. \A t \in {r, s} :
           Replay(t, e) = [colls |-> Put(Without(t.colls, {NameOf(t, e.id)}), e.name, e.id),
                           list |-> t.list, aliases |-> t.aliases]
    BY <1>1, <1>6, ReplayRenames
  <2> QED
    BY <1>1, <2>1
<1>7. CASE e.id \in Live(r) /\ e.op = "alias"
  <2>1. \A t \in {r, s} :
           Replay(t, e) = [colls |-> t.colls,
                           list |-> [t.list EXCEPT ![e.id] = t.list[e.id] \cup {e.name}],
                           aliases |-> Put(t.aliases, e.name, NameOf(t, e.id))]
    BY <1>1, <1>7, ReplayAliases
  <2> QED
    BY <2>1
<1>8. CASE e.id \in Live(r) /\ e.op = "unalias"
  <2>1. \A t \in {r, s} :
           Replay(t, e) = [colls |-> t.colls,
                           list |-> [t.list EXCEPT ![e.id] = t.list[e.id] \ {e.name}],
                           aliases |-> Without(t.aliases, {e.name})]
    BY <1>1, <1>8, ReplayUnaliases
  <2> QED
    BY <2>1
<1> QED
  BY <1>1, <1>2, <1>3, <1>4, <1>5, <1>6, <1>7, <1>8 DEF OpKinds

(* ... and so do all of them.                                               *)
LEMMA ReplayAllAlike ==
    ASSUME NEW r \in Registries, NEW s \in Registries, NEW w \in Seq(LogEntry),
           r.colls = s.colls, r.list = s.list
    PROVE  /\ ReplayAll(r, w).colls = ReplayAll(s, w).colls
           /\ ReplayAll(r, w).list = ReplayAll(s, w).list
<1> DEFINE n == Len(w)
<1>0. n \in Nat /\ \A k \in 1..n : w[k] \in LogEntry
  OBVIOUS
<1>1. PICK A : IsTrace(A, r, w) /\ A[n] = ReplayAll(r, w)
  BY Trace
<1>2. PICK B : IsTrace(B, s, w) /\ B[n] = ReplayAll(s, w)
  BY Trace
<1> DEFINE S == {k \in 0..n : A[k].colls = B[k].colls /\ A[k].list = B[k].list}
<1>3. 0 \in S
  BY <1>0, <1>1, <1>2 DEF IsTrace
<1>4. ASSUME NEW k \in 0..n, k < n, k \in S
      PROVE  k + 1 \in S
  <2>1. k + 1 \in 1..n /\ (k + 1) - 1 = k /\ k + 1 \in 0..n
    BY <1>0, <1>4
  <2>2. /\ A[k + 1] = Replay(A[k], w[k + 1]) /\ A[k] \in Registries
        /\ B[k + 1] = Replay(B[k], w[k + 1]) /\ B[k] \in Registries
    BY <1>1, <1>2, <2>1 DEF IsTrace
  <2>3. A[k].colls = B[k].colls /\ A[k].list = B[k].list /\ w[k + 1] \in LogEntry
    BY <1>0, <1>4, <2>1
  <2>4. A[k + 1].colls = B[k + 1].colls /\ A[k + 1].list = B[k + 1].list
    BY <2>2, <2>3, ReplayAlike
  <2> QED
    BY <2>1, <2>4
<1>5. \A k \in 0..n : k \in S
  <2> HIDE DEF S
  <2> QED
    BY <1>0, <1>3, <1>4, BoundedInduction
<1>6. n \in S
  <2> HIDE DEF S
  <2> QED
    BY <1>0, <1>5
<1> QED
  BY <1>1, <1>2, <1>6

-----------------------------------------------------------------------------
(* What an open loads and rebuilds.                                         *)

(* The registry of the TOC.                                                 *)
LEMMA LoadedIs ==
    ASSUME IsToc, NEW r \in Loaded
    PROVE  /\ r \in Registries
           /\ DOMAIN r.colls = {toc[i].name : i \in DOMAIN toc}
           /\ \A i \in DOMAIN toc : r.colls[toc[i].name] = i
           /\ Live(r) = DOMAIN toc
           /\ r.list = [i \in Id |-> IF i \in DOMAIN toc THEN toc[i].aliases ELSE {}]
           /\ DOMAIN r.aliases = UNION {toc[i].aliases : i \in DOMAIN toc}
           /\ \A a \in DOMAIN r.aliases : \E i \in DOMAIN toc :
                 a \in toc[i].aliases /\ r.aliases[a] = toc[i].name
<1> DEFINE listed == UNION {toc[i].aliases : i \in DOMAIN toc}
           C == [n \in {toc[i].name : i \in DOMAIN toc} |-> CHOOSE i \in DOMAIN toc : toc[i].name = n]
           L == [i \in Id |-> IF i \in DOMAIN toc THEN toc[i].aliases ELSE {}]
<1>0. /\ DOMAIN toc \subseteq Id
      /\ \A i \in DOMAIN toc : toc[i].name \in Name /\ toc[i].aliases \subseteq Name
      /\ \A i, j \in DOMAIN toc : toc[i].name = toc[j].name => i = j
  BY DEF IsToc
<1>1. PICK f \in [listed -> DOMAIN toc] :
         /\ \A a \in listed : a \in toc[f[a]].aliases
         /\ r = [colls |-> C, list |-> L, aliases |-> [a \in listed |-> toc[f[a]].name]]
  BY DEF Loaded
<1> DEFINE A == [a \in listed |-> toc[f[a]].name]
<1>2. \A i \in DOMAIN toc : toc[i].name \in DOMAIN C /\ C[toc[i].name] = i
  <2> SUFFICES ASSUME NEW i \in DOMAIN toc
               PROVE  toc[i].name \in DOMAIN C /\ C[toc[i].name] = i
    OBVIOUS
  <2>1. \A j \in DOMAIN toc : toc[j].name = toc[i].name => j = i
    BY <1>0
  <2>2. (CHOOSE j \in DOMAIN toc : toc[j].name = toc[i].name) = i
    BY <2>1
  <2> QED
    BY <2>2
<1>3. \A n \in DOMAIN C : \E i \in DOMAIN toc : n = toc[i].name /\ C[n] = i
  BY <1>2
<1>4. C = [n \in DOMAIN C |-> C[n]] /\ A = [a \in DOMAIN A |-> A[a]] /\ DOMAIN A = listed
      /\ DOMAIN C = {toc[i].name : i \in DOMAIN toc}
  OBVIOUS
<1>5. L \in [Id -> SUBSET Name]
  BY <1>0
<1>6. \A a \in DOMAIN A : f[a] \in DOMAIN toc /\ a \in toc[f[a]].aliases /\ A[a] = toc[f[a]].name
  BY <1>1
<1>7. IsMap(C) /\ IsMap(A)
  BY <1>4 DEF IsMap
<1> HIDE DEF C, L, A
<1>8. /\ DOMAIN C \subseteq Name /\ \A n \in DOMAIN C : C[n] \in Id
      /\ \A n, m \in DOMAIN C : C[n] = C[m] => n = m
  BY <1>0, <1>3
<1>9. DOMAIN A \subseteq Name /\ \A a \in DOMAIN A : A[a] \in Name
  BY <1>0, <1>6
<1>10. r = [colls |-> C, list |-> L, aliases |-> A]
  BY <1>1 DEF A
<1>11. r \in Registries
  BY <1>5, <1>7, <1>8, <1>9, <1>10, IsRegistry
<1>12. r.colls = C /\ r.list = L /\ r.aliases = A
  BY <1>10
<1>13. Live(r) = DOMAIN toc
  <2>1. Live(r) = {C[n] : n \in DOMAIN C}
    BY <1>12 DEF Live
  <2>2. \A x \in Live(r) : x \in DOMAIN toc
    BY <1>3, <2>1
  <2>3. \A i \in DOMAIN toc : i \in Live(r)
    BY <1>2, <2>1
  <2> QED
    BY <2>2, <2>3
<1> QED
  BY <1>2, <1>4, <1>6, <1>11, <1>12, <1>13 DEF L

(* It is one, up to the alias map.                                          *)
LEMMA LoadedAlike ==
    \A r, s \in Loaded : r.colls = s.colls /\ r.list = s.list
<1> DEFINE C == [n \in {toc[i].name : i \in DOMAIN toc} |-> CHOOSE i \in DOMAIN toc : toc[i].name = n]
           L == [i \in Id |-> IF i \in DOMAIN toc THEN toc[i].aliases ELSE {}]
<1>1. \A r \in Loaded : \E A : r = [colls |-> C, list |-> L, aliases |-> A]
  BY DEF Loaded
<1> HIDE DEF C, L
<1>2. \A r \in Loaded : r.colls = C /\ r.list = L
  BY <1>1
<1> QED
  BY <1>2

(* What an open rebuilds is a registry of collections known to the disk,    *)
(* one up to the alias map.                                                 *)
LEMMA RecoveriesAre ==
    ASSUME Typed
    PROVE  /\ \A r \in Recoveries : r \in Registries /\ Live(r) \subseteq IdsOnDisk
           /\ \A r, s \in Recoveries : r.colls = s.colls /\ r.list = s.list
<1>1. wal \in Seq(LogEntry) /\ IsToc
  BY DEF Typed
<1>2. ASSUME NEW r \in Recoveries
      PROVE  r \in Registries /\ Live(r) \subseteq IdsOnDisk
  <2>1. PICK s \in Loaded : r = ReplayAll(s, wal)
    BY DEF Recoveries
  <2>2. s \in Registries /\ Live(s) = DOMAIN toc
    BY <1>1, LoadedIs
  <2>3. r \in Registries
    BY <1>1, <2>1, <2>2, ReplayAllType
  <2>4. Live(r) \subseteq Live(s) \cup {wal[k].id : k \in DOMAIN wal}
    BY <1>1, <2>1, <2>2, ReplayAllLive
  <2> QED
    BY <2>2, <2>3, <2>4 DEF IdsOnDisk
<1>3. ASSUME NEW r \in Recoveries, NEW s \in Recoveries
      PROVE  r.colls = s.colls /\ r.list = s.list
  <2>1. PICK x \in Loaded : r = ReplayAll(x, wal)
    BY DEF Recoveries
  <2>2. PICK y \in Loaded : s = ReplayAll(y, wal)
    BY DEF Recoveries
  <2>3. x \in Registries /\ y \in Registries /\ x.colls = y.colls /\ x.list = y.list
    BY <1>1, LoadedIs, LoadedAlike
  <2> QED
    BY <1>1, <2>1, <2>2, <2>3, ReplayAllAlike
<1> QED
  BY <1>2, <1>3

(* Every id on disk is an id.                                               *)
LEMMA IdsOnDiskType ==
    ASSUME Typed
    PROVE  IdsOnDisk \subseteq Id
<1>1. \A k \in DOMAIN wal : wal[k] \in LogEntry
  BY DEF Typed
<1>2. \A k \in DOMAIN wal : wal[k].id \in Id
  BY <1>1 DEF LogEntry
<1>3. DOMAIN toc \subseteq Id
  BY DEF Typed, IsToc
<1> QED
  BY <1>2, <1>3 DEF IdsOnDisk

(* The id after a set of ids.                                               *)
LEMMA IdAfterIs ==
    ASSUME NEW S \in SUBSET Id
    PROVE  IdAfter(S) \in 1..(MaxId + 1) /\ \A i \in S : i < IdAfter(S)
<1>0. MaxId \in Nat
  BY RegistryAssumption DEF RegistryAssumption
<1>1. \E x \in S \cup {0} : \A y \in S \cup {0} : x >= y
  <2>1. CASE S = {}
    BY <2>1
  <2>2. CASE S # {}
    <3>1. Max(S) \in S /\ \A y \in S : Max(S) >= y
      BY <1>0, <2>2, MaxExists DEF Id
    <3>2. Max(S) >= 0
      BY <3>1, IdsAreNumbers
    <3> QED
      BY <3>1, <3>2
  <2> QED
    BY <2>1, <2>2
<1>2. Max(S \cup {0}) \in S \cup {0} /\ \A y \in S \cup {0} : Max(S \cup {0}) >= y
  BY <1>1 DEF Max
<1> DEFINE m == Max(S \cup {0})
<1>3. m \in 0..MaxId /\ \A i \in S : i \in Nat /\ m >= i
  <2>1. \A x \in S \cup {0} : x \in 0..MaxId
    BY <1>0 DEF Id
  <2>2. m \in S \cup {0} /\ \A y \in S : m >= y
    BY <1>2
  <2> HIDE DEF m
  <2> QED
    BY <1>0, <2>1, <2>2
<1>4. IdAfter(S) = m + 1
  BY DEF IdAfter
<1> HIDE DEF m
<1> QED
  BY <1>0, <1>3, <1>4

-----------------------------------------------------------------------------
(* The operations.                                                          *)

(* A call logs entry e and does to the collections and the lists what       *)
(* replay will do; to the alias map too, if it is no drop or rename.        *)
Logged(e) ==
    /\ e \in LogEntry /\ wal' = Append(wal, e) /\ e.id < nextId'
    /\ IF e.op = "create" THEN e.id = nextId /\ e.name \notin DOMAIN reg.colls
                          ELSE e.id \in Live(reg)
    /\ e.op = "drop" => e.name = NameOf(reg, e.id)
    /\ reg'.colls = Replay(reg, e).colls /\ reg'.list = Replay(reg, e).list
    /\ e.op \notin {"drop", "rename"} => reg'.aliases = Replay(reg, e).aliases

(* The end of an alias that leads nowhere.                                  *)
Unlogged ==
    /\ wal' = wal /\ reg'.colls = reg.colls /\ reg'.list = reg.list
    /\ \E a \in DOMAIN reg.aliases : reg.aliases[a] \notin DOMAIN reg.colls

Effect ==
    /\ pc = "idle" /\ UNCHANGED <<toc, pc>> /\ count'.downs = count.downs
    /\ reg' \in Registries /\ nextId' \in 1..(MaxId + 1) /\ nextId <= nextId'
    /\ Unlogged \/ \E e \in LogEntry : Logged(e)

(* Ids in use are below the next.                                           *)
LEMMA LiveBelow ==
    ASSUME Typed, pc = "idle"
    PROVE  /\ nextId \in Nat /\ MaxId \in Nat /\ nextId \notin Live(reg) /\ nextId <= MaxId + 1
           /\ \A n \in DOMAIN reg.colls : reg.colls[n] \in Live(reg)
           /\ \A i \in Live(reg) : i < nextId /\ i \in Nat /\ i \in Id
<1>0. MaxId \in Nat
  BY RegistryAssumption DEF RegistryAssumption
<1>1. reg \in Registries /\ nextId \in 1..(MaxId + 1) /\ \A i \in Live(reg) : i < nextId
  BY DEF Typed
<1>2. Live(reg) \subseteq Id
  BY <1>1, PartsAre
<1>3. \A i \in Live(reg) : i \in Nat /\ i # nextId
  BY <1>0, <1>1, <1>2, IdsAreNumbers
<1> QED
  BY <1>0, <1>1, <1>2, <1>3 DEF Live

(* create_collection.                                                       *)
LEMMA CreateEffect ==
    ASSUME Typed, NEW n \in Name, CreateCollection(n), count'.downs = count.downs
    PROVE  Effect
<1> DEFINE e == Entry("create", nextId, n)
<1>1. pc = "idle" /\ UNCHANGED <<toc, pc>> /\ nextId \in Id /\ nextId' = nextId + 1
      /\ n \notin DOMAIN reg.colls /\ wal' = Append(wal, e)
  BY DEF CreateCollection, Call, Log
<1>2. nextId \in Nat /\ MaxId \in Nat /\ nextId \notin Live(reg) /\ nextId <= MaxId
  BY <1>1, LiveBelow, IdsAreNumbers DEF Id
<1>3. e \in LogEntry /\ e.op = "create" /\ e.id = nextId /\ e.name = n
  BY <1>1 DEF Entry, LogEntry, OpKinds
<1>4. reg \in Registries
  BY DEF Typed
<1>5. reg' = Replay(reg, e)
  <2>1. Replay(reg, e) = [reg EXCEPT !.colls = Put(@, e.name, e.id), !.list[e.id] = {}]
    BY <1>2, <1>3 DEF Replay, ReplayCreate
  <2> QED
    BY <1>3, <2>1 DEF CreateCollection
<1>6. reg' \in Registries
  BY <1>3, <1>4, <1>5, ReplayType
<1>7. nextId' \in 1..(MaxId + 1) /\ nextId <= nextId' /\ e.id < nextId'
  BY <1>1, <1>2, <1>3
<1> HIDE DEF e
<1>8. Logged(e)
  BY <1>1, <1>3, <1>5, <1>7 DEF Logged
<1> QED
  BY <1>1, <1>3, <1>6, <1>7, <1>8 DEF Effect

(* create_alias.                                                            *)
LEMMA AliasEffect ==
    ASSUME Typed, NEW a \in Name, NEW n \in Name, CreateAlias(a, n), count'.downs = count.downs
    PROVE  Effect
<1> DEFINE e == Entry("alias", reg.colls[n], a)
<1>1. pc = "idle" /\ UNCHANGED <<toc, pc>> /\ nextId' = nextId
      /\ n \in DOMAIN reg.colls /\ wal' = Append(wal, e)
  BY DEF CreateAlias, Call, Log
<1>2. /\ nextId \in Nat /\ nextId \in 1..(MaxId + 1)
      /\ reg.colls[n] \in Live(reg) /\ reg.colls[n] < nextId /\ reg.colls[n] \in Id
  BY <1>1, LiveBelow DEF Typed
<1>3. e \in LogEntry /\ e.op = "alias" /\ e.id = reg.colls[n] /\ e.name = a
  BY <1>2 DEF Entry, LogEntry, OpKinds
<1>4. reg \in Registries /\ NameOf(reg, reg.colls[n]) = n
  BY <1>1, <1>2, NameIs DEF Typed
<1>5. reg' = Replay(reg, e)
  <2>1. Replay(reg, e) = [reg EXCEPT !.aliases = Put(@, e.name, NameOf(reg, e.id)),
                                     !.list[e.id] = @ \cup {e.name}]
    BY <1>2, <1>3 DEF Replay, ReplayAlias
  <2> QED
    BY <1>3, <1>4, <2>1 DEF CreateAlias
<1>6. reg' \in Registries
  BY <1>3, <1>4, <1>5, ReplayType
<1> HIDE DEF e
<1>7. Logged(e)
  BY <1>1, <1>2, <1>3, <1>5 DEF Logged
<1> QED
  BY <1>1, <1>2, <1>3, <1>6, <1>7 DEF Effect

(* delete_alias, which logs nothing of an alias that leads nowhere.         *)
LEMMA UnaliasEffect ==
    ASSUME Typed, NEW a \in Name, DeleteAlias(a), count'.downs = count.downs
    PROVE  Effect
<1> DEFINE n == reg.aliases[a]
           e == Entry("unalias", reg.colls[n], a)
<1>1. pc = "idle" /\ UNCHANGED <<toc, pc>> /\ nextId' = nextId /\ a \in DOMAIN reg.aliases
  BY DEF DeleteAlias, Call
<1>2. reg \in Registries /\ nextId \in 1..(MaxId + 1) /\ nextId \in Nat
  BY <1>1, LiveBelow DEF Typed
<1>3. CASE n \in DOMAIN reg.colls
  <2>1. reg.colls[n] \in Live(reg) /\ reg.colls[n] < nextId /\ reg.colls[n] \in Id
    BY <1>1, <1>3, LiveBelow
  <2>2. e \in LogEntry /\ e.op = "unalias" /\ e.id = reg.colls[n] /\ e.name = a
    BY <2>1 DEF Entry, LogEntry, OpKinds
  <2>3. reg' = [reg EXCEPT !.aliases = Without(@, {a}), !.list[reg.colls[n]] = @ \ {a}]
        /\ wal' = Append(wal, e)
    BY <1>3 DEF DeleteAlias, Log
  <2>4. reg' = Replay(reg, e)
    <3>1. Replay(reg, e) = [reg EXCEPT !.aliases = Without(@, {e.name}), !.list[e.id] = @ \ {e.name}]
      BY <2>1, <2>2 DEF Replay, ReplayUnalias
    <3> QED
      BY <2>2, <2>3, <3>1
  <2>5. reg' \in Registries
    BY <1>2, <2>2, <2>4, ReplayType
  <2> HIDE DEF e
  <2>6. Logged(e)
    BY <1>1, <2>1, <2>2, <2>3, <2>4 DEF Logged
  <2> QED
    BY <1>1, <1>2, <2>2, <2>5, <2>6 DEF Effect
<1>4. CASE n \notin DOMAIN reg.colls
  <2> DEFINE A == Without(reg.aliases, {a})
  <2>1. reg' = [reg EXCEPT !.aliases = A] /\ wal' = wal
    BY <1>4 DEF DeleteAlias
  <2>2. IsWithout(A, reg.aliases, {a})
    BY WithoutIs
  <2>3. reg' = [colls |-> reg.colls, list |-> reg.list, aliases |-> A]
    <3>1. reg = [colls |-> reg.colls, list |-> reg.list, aliases |-> reg.aliases]
      BY <1>2, PartsAre
    <3> HIDE DEF A
    <3> QED
      BY <2>1, <3>1
  <2> HIDE DEF A
  <2>4. reg' \in Registries
    BY <1>2, <2>2, <2>3, PartsAre, IsRegistry DEF IsWithout
  <2>5. Unlogged
    BY <1>1, <1>4, <2>1, <2>3 DEF Unlogged
  <2> QED
    BY <1>1, <1>2, <2>4, <2>5 DEF Effect
<1> QED
  BY <1>3, <1>4

(* delete_collection.                                                       *)
LEMMA DropEffect ==
    ASSUME Typed, NEW n \in Name, DeleteCollection(n), count'.downs = count.downs
    PROVE  Effect
<1> DEFINE i == reg.colls[n]
           e == Entry("drop", i, n)
           A == Without(reg.aliases, reg.list[i])
<1>1. pc = "idle" /\ UNCHANGED <<toc, pc>> /\ nextId' = nextId
      /\ n \in DOMAIN reg.colls /\ wal' = Append(wal, e)
  BY DEF DeleteCollection, Call, Log
<1>2. /\ nextId \in Nat /\ nextId \in 1..(MaxId + 1) /\ i \in Live(reg) /\ i < nextId /\ i \in Id
  BY <1>1, LiveBelow DEF Typed
<1>3. e \in LogEntry /\ e.op = "drop" /\ e.id = i /\ e.name = n
  BY <1>2 DEF Entry, LogEntry, OpKinds
<1>4. reg \in Registries /\ NameOf(reg, i) = n
  BY <1>1, <1>2, NameIs DEF Typed
<1>5. IsWithout(A, reg.aliases, reg.list[i])
  BY WithoutIs
<1>6. reg' = [colls |-> Without(reg.colls, {n}), list |-> reg.list, aliases |-> A]
  <2>1. reg = [colls |-> reg.colls, list |-> reg.list, aliases |-> reg.aliases]
    BY <1>4, PartsAre
  <2> QED
    BY <2>1 DEF DeleteCollection
<1> HIDE DEF e, A
<1>7. /\ Replay(reg, e) = [colls |-> Without(reg.colls, {NameOf(reg, e.id)}),
                           list |-> reg.list, aliases |-> reg.aliases]
      /\ Replay(reg, e) \in Registries
  BY <1>2, <1>3, <1>4, ReplayDrops
<1>8. reg'.colls = Replay(reg, e).colls /\ reg'.list = Replay(reg, e).list
  BY <1>3, <1>4, <1>6, <1>7
<1>9. reg' \in Registries
  <2> DEFINE C == reg'.colls
             L == reg'.list
             s == Replay(reg, e)
  <2>1. reg' = [colls |-> C, list |-> L, aliases |-> A] /\ C = s.colls /\ L = s.list
    BY <1>6, <1>8
  <2>2. DOMAIN A \subseteq Name /\ IsMap(A) /\ \A a \in DOMAIN A : A[a] \in Name
    BY <1>4, <1>5, PartsAre DEF IsWithout
  <2> HIDE DEF C, L, s
  <2>3. s \in Registries
    BY <1>7 DEF s
  <2> QED
    BY <2>1, <2>2, <2>3, PartsAre, IsRegistry
<1>10. Logged(e)
  BY <1>1, <1>2, <1>3, <1>4, <1>8 DEF Logged
<1> QED
  BY <1>1, <1>2, <1>3, <1>9, <1>10 DEF Effect

(* rename_collection.                                                       *)
LEMMA RenameEffect ==
    ASSUME Typed, NEW from \in Name, NEW to \in Name, RenameCollection(from, to),
           count'.downs = count.downs
    PROVE  Effect
<1> DEFINE i == reg.colls[from]
           e == Entry("rename", i, to)
           A == Override(reg.aliases, Repointed(i, to))
<1>1. pc = "idle" /\ UNCHANGED <<toc, pc>> /\ nextId' = nextId
      /\ from \in DOMAIN reg.colls /\ wal' = Append(wal, e)
  BY DEF RenameCollection, Call, Log
<1>2. /\ nextId \in Nat /\ nextId \in 1..(MaxId + 1) /\ i \in Live(reg) /\ i < nextId /\ i \in Id
  BY <1>1, LiveBelow DEF Typed
<1>3. e \in LogEntry /\ e.op = "rename" /\ e.id = i /\ e.name = to
  BY <1>2 DEF Entry, LogEntry, OpKinds
<1>4. reg \in Registries /\ NameOf(reg, i) = from
  BY <1>1, <1>2, NameIs DEF Typed
<1>5. /\ DOMAIN A = DOMAIN reg.aliases \cup reg.list[i] /\ IsMap(A)
      /\ \A a \in DOMAIN A : A[a] = to \/ (a \in DOMAIN reg.aliases /\ A[a] = reg.aliases[a])
  BY DEF Override, Repointed, IsMap
<1>6. reg' = [colls |-> Put(Without(reg.colls, {from}), to, i), list |-> reg.list, aliases |-> A]
  <2>1. reg = [colls |-> reg.colls, list |-> reg.list, aliases |-> reg.aliases]
    BY <1>4, PartsAre
  <2> QED
    BY <2>1 DEF RenameCollection
<1> HIDE DEF e, A
<1>7. /\ Replay(reg, e) = [colls |-> Put(Without(reg.colls, {NameOf(reg, e.id)}), e.name, e.id),
                           list |-> reg.list, aliases |-> reg.aliases]
      /\ Replay(reg, e) \in Registries
  BY <1>2, <1>3, <1>4, ReplayRenames
<1>8. reg'.colls = Replay(reg, e).colls /\ reg'.list = Replay(reg, e).list
  BY <1>3, <1>4, <1>6, <1>7
<1>9. reg' \in Registries
  <2> DEFINE C == reg'.colls
             L == reg'.list
             s == Replay(reg, e)
  <2>1. reg' = [colls |-> C, list |-> L, aliases |-> A] /\ C = s.colls /\ L = s.list
    BY <1>6, <1>8
  <2>2. /\ DOMAIN reg.aliases \subseteq Name /\ \A a \in DOMAIN reg.aliases : reg.aliases[a] \in Name
        /\ reg.list[i] \subseteq Name
    BY <1>2, <1>4, PartsAre
  <2>3. DOMAIN A \subseteq Name /\ IsMap(A) /\ \A a \in DOMAIN A : A[a] \in Name
    BY <1>5, <2>2
  <2> HIDE DEF C, L, s
  <2>4. s \in Registries
    BY <1>7 DEF s
  <2> QED
    BY <2>1, <2>3, <2>4, PartsAre, IsRegistry
<1>10. Logged(e)
  BY <1>1, <1>2, <1>3, <1>4, <1>8 DEF Logged
<1> QED
  BY <1>1, <1>2, <1>3, <1>9, <1>10 DEF Effect

(* Every operation has such an effect.                                      *)
LEMMA OperationEffect ==
    ASSUME IInv, Typed, Operation
    PROVE  Effect
<1>1. \E op : Call(op)
  BY DEF Operation, CreateCollection, DeleteCollection, DeleteAlias, CreateAlias,
         RenameCollection
<1>2. count'.downs = count.downs
  BY <1>1 DEF Call, IInv
<1> QED
  BY <1>2, CreateEffect, DropEffect, UnaliasEffect, AliasEffect, RenameEffect DEF Operation

-----------------------------------------------------------------------------
(* The shape of the state is preserved.                                     *)

(* By the operations.                                                       *)
LEMMA EffectTyped ==
    ASSUME Typed, Effect
    PROVE  Typed'
<1>1. /\ pc = "idle" /\ pc' = pc /\ toc' = toc /\ reg' \in Registries
      /\ nextId' \in 1..(MaxId + 1) /\ nextId <= nextId'
  BY DEF Effect
<1>2. /\ wal \in Seq(LogEntry) /\ IsToc /\ nextId \in 1..(MaxId + 1) /\ reg \in Registries
      /\ \A i \in IdsOnDisk \cup Live(reg) : i < nextId
  BY <1>1 DEF Typed
<1>0. MaxId \in Nat /\ nextId \in Nat /\ nextId' \in Nat
  BY <1>1, <1>2, RegistryAssumption DEF RegistryAssumption
<1>3. \A i \in IdsOnDisk \cup Live(reg) : i \in Nat
  BY <1>2, IdsOnDiskType, PartsAre, IdsAreNumbers
<1>4. IsToc'
  BY <1>1, <1>2 DEF IsToc
<1>5. CASE Unlogged
  <2>1. wal' = wal /\ Live(reg') = Live(reg) /\ IdsOnDisk' = IdsOnDisk
    BY <1>1, <1>5 DEF Unlogged, Live, IdsOnDisk
  <2>2. \A i \in IdsOnDisk' \cup Live(reg') : i < nextId'
    BY <1>0, <1>1, <1>2, <1>3, <2>1
  <2> QED
    BY <1>1, <1>2, <1>4, <2>1, <2>2 DEF Typed
<1>6. ASSUME NEW e \in LogEntry, Logged(e)
      PROVE  Typed'
  <2>1. wal' = Append(wal, e) /\ e.id < nextId' /\ reg'.colls = Replay(reg, e).colls
    BY <1>6 DEF Logged
  <2>2. Live(reg') \subseteq Live(reg) \cup {e.id}
    <3>1. Live(reg') = Live(Replay(reg, e))
      BY <2>1 DEF Live
    <3> QED
      BY <1>2, <3>1, ReplayType
  <2>3. /\ wal' \in Seq(LogEntry)
        /\ \A k \in DOMAIN wal' : wal'[k] = e \/ \E l \in DOMAIN wal : wal'[k] = wal[l]
    BY <1>2, <2>1
  <2>4. IdsOnDisk' \subseteq IdsOnDisk \cup {e.id}
    BY <1>1, <2>3 DEF IdsOnDisk
  <2>5. \A i \in IdsOnDisk \cup Live(reg) : i < nextId'
    BY <1>0, <1>1, <1>2, <1>3
  <2>6. \A i \in IdsOnDisk' \cup Live(reg') : i < nextId'
    BY <2>1, <2>2, <2>4, <2>5
  <2> QED
    BY <1>1, <1>2, <1>4, <2>3, <2>6 DEF Typed
<1> QED
  BY <1>5, <1>6 DEF Effect

(* The sealed TOC lists the live collections.                               *)
LEMMA SealedIs ==
    ASSUME reg \in Registries
    PROVE  /\ DOMAIN SealedToc = Live(reg)
           /\ \A i \in Live(reg) : /\ SealedToc[i].name = NameOf(reg, i)
                                   /\ SealedToc[i].aliases = reg.list[i]
  BY DEF SealedToc

(* By the header swap.                                                      *)
LEMMA SwapTyped ==
    ASSUME Typed, SwapToc
    PROVE  Typed'
<1>1. /\ reg' = reg /\ nextId' = nextId /\ wal' = wal /\ toc' = SealedToc
      /\ pc = "idle" /\ pc' = "truncate"
  BY DEF SwapToc
<1>2. /\ reg \in Registries /\ wal \in Seq(LogEntry) /\ nextId \in 1..(MaxId + 1)
      /\ \A i \in IdsOnDisk \cup Live(reg) : i < nextId
  BY <1>1 DEF Typed
<1>3. /\ DOMAIN toc' = Live(reg)
      /\ \A i \in Live(reg) : toc'[i].name = NameOf(reg, i) /\ toc'[i].aliases = reg.list[i]
  BY <1>1, <1>2, SealedIs
<1>4. IsToc'
  <2>1. Live(reg) \subseteq Id /\ \A i \in Id : reg.list[i] \subseteq Name
    BY <1>2, PartsAre
  <2>2. \A i \in Live(reg) : NameOf(reg, i) \in Name /\ reg.colls[NameOf(reg, i)] = i
    BY <1>2, NameIs
  <2> QED
    BY <1>3, <2>1, <2>2 DEF IsToc
<1>5. IdsOnDisk' \subseteq IdsOnDisk \cup Live(reg)
  BY <1>1, <1>3 DEF IdsOnDisk
<1> QED
  BY <1>1, <1>2, <1>4, <1>5 DEF Typed

(* By every step.                                                           *)
LEMMA NextTyped ==
    ASSUME IInv, Typed, [Next]_vars
    PROVE  Typed'
<1>0. MaxId \in Nat
  BY RegistryAssumption DEF RegistryAssumption
<1>1. CASE Operation
  BY <1>1, OperationEffect, EffectTyped
<1>2. CASE SwapToc
  BY <1>2, SwapTyped
<1>3. CASE TruncateWal
  <2>1. /\ reg' = reg /\ nextId' = nextId /\ toc' = toc /\ wal' = <<>>
        /\ pc = "truncate" /\ pc' = "idle"
    BY <1>3 DEF TruncateWal
  <2>2. IsToc' /\ wal' \in Seq(LogEntry) /\ IdsOnDisk' \subseteq IdsOnDisk
    BY <2>1 DEF Typed, IsToc, IdsOnDisk
  <2> QED
    BY <2>1, <2>2 DEF Typed
<1>4. CASE Kill
  <2>1. reg' = EmptyRegistry /\ nextId' = 1 /\ toc' = toc /\ wal' = wal /\ pc' = "down"
    BY <1>4 DEF Kill
  <2>2. EmptyRegistry \in Registries
    <3> DEFINE C == <<>>
               L == [i \in Id |-> {}]
    <3>1. IsMap(C) /\ DOMAIN C = {} /\ L \in [Id -> SUBSET Name]
      BY DEF IsMap
    <3> HIDE DEF C, L
    <3>2. [colls |-> C, list |-> L, aliases |-> C] \in Registries
      BY <3>1, IsRegistry
    <3> QED
      BY <3>2 DEF EmptyRegistry, C, L
  <2>3. IsToc'
    BY <2>1 DEF Typed, IsToc
  <2> QED
    BY <1>0, <2>1, <2>2, <2>3 DEF Typed
<1>5. CASE Open
  <2>1. /\ reg' \in Recoveries /\ nextId' = IdAfter(IdsOnDisk) /\ toc' = toc /\ wal' = wal
        /\ pc' = "idle"
    BY <1>5 DEF Open
  <2>2. reg' \in Registries /\ Live(reg') \subseteq IdsOnDisk
    BY <2>1, RecoveriesAre
  <2>3. nextId' \in 1..(MaxId + 1) /\ \A i \in IdsOnDisk : i < nextId'
    BY <2>1, IdsOnDiskType, IdAfterIs
  <2>4. IsToc' /\ IdsOnDisk' = IdsOnDisk
    BY <2>1 DEF Typed, IsToc, IdsOnDisk
  <2> QED
    BY <2>1, <2>2, <2>3, <2>4 DEF Typed
<1>6. CASE Finished \/ UNCHANGED vars
  BY <1>6 DEF Finished, vars, Typed, IsToc, IdsOnDisk
<1> QED
  BY <1>1, <1>2, <1>3, <1>4, <1>5, <1>6 DEF Next, Operation

-----------------------------------------------------------------------------
(* What is on disk is the registry.                                         *)

(* One entry does the same to registries of the same collections.           *)
LEMMA ReplaySame ==
    ASSUME NEW r \in Registries, NEW s \in Registries, NEW e \in LogEntry, Same(r, s)
    PROVE  Same(Replay(r, e), Replay(s, e))
<1>1. Live(r) = Live(s) /\ NameOf(r, e.id) = NameOf(s, e.id) /\ r.colls = s.colls
  BY DEF Same, Live, NameOf
<1>2. e.op \in OpKinds /\ e.id \in Id
  BY DEF LogEntry
<1>3. \A i \in Live(s) : r.list[i] = s.list[i]
  BY DEF Same
<1>4. r.list \in [Id -> SUBSET Name] /\ s.list \in [Id -> SUBSET Name] /\ Live(s) \subseteq Id
  BY PartsAre
<1>5. Live(Replay(s, e)) \subseteq Live(s) \cup {e.id}
  BY ReplayType
<1>6. CASE e.id \in Live(r) <=> e.op = "create"
  <2>1. Replay(r, e) = r /\ Replay(s, e) = s
    BY <1>1, <1>6, ReplaySkips
  <2> QED
    BY <2>1
<1>7. CASE e.id \notin Live(r) /\ e.op = "create"
  <2>1. \A t \in {r, s} : Replay(t, e) = [colls |-> Put(t.colls, e.name, e.id),
                                          list |-> [t.list EXCEPT ![e.id] = {}],
                                          aliases |-> t.aliases]
    BY <1>1, <1>7, ReplayCreates
  <2>2. \A t \in {r, s} : Replay(t, e).colls = Put(s.colls, e.name, e.id)
                          /\ Replay(t, e).list = [t.list EXCEPT ![e.id] = {}]
    BY <1>1, <2>1
  <2>3. \A i \in Live(s) \cup {e.id} : [r.list EXCEPT ![e.id] = {}][i] = [s.list EXCEPT ![e.id] = {}][i]
    BY <1>2, <1>3, <1>4
  <2> QED
    BY <1>5, <2>2, <2>3 DEF Same
<1>8. CASE e.id \in Live(r) /\ e.op = "drop"
  <2>1. \A t \in {r, s} : Replay(t, e) = [colls |-> Without(t.colls, {NameOf(t, e.id)}),
                                          list |-> t.list, aliases |-> t.aliases]
    BY <1>1, <1>8, ReplayDrops
  <2> QED
    BY <1>1, <1>3, <1>5, <1>8, <2>1 DEF Same
<1>9. CASE e.id \in Live(r) /\ e.op = "rename"
  <2>1. \A t \in {r, s} :
           Replay(t, e) = [colls |-> Put(Without(t.colls, {NameOf(t, e.id)}), e.name, e.id),
                           list |-> t.list, aliases |-> t.aliases]
    BY <1>1, <1>9, ReplayRenames
  <2> QED
    BY <1>1, <1>3, <1>5, <1>9, <2>1 DEF Same
<1>10. CASE e.id \in Live(r) /\ e.op = "alias"
  <2>1. \A t \in {r, s} :
           Replay(t, e) = [colls |-> t.colls,
                           list |-> [t.list EXCEPT ![e.id] = t.list[e.id] \cup {e.name}],
                           aliases |-> Put(t.aliases, e.name, NameOf(t, e.id))]
    BY <1>1, <1>10, ReplayAliases
  <2>2. /\ Replay(r, e).colls = s.colls /\ Replay(s, e).colls = s.colls
        /\ Replay(r, e).list = [r.list EXCEPT ![e.id] = r.list[e.id] \cup {e.name}]
        /\ Replay(s, e).list = [s.list EXCEPT ![e.id] = s.list[e.id] \cup {e.name}]
    BY <1>1, <2>1
  <2>3. ASSUME NEW i \in Live(s) PROVE Replay(r, e).list[i] = Replay(s, e).list[i]
    <3>1. i \in DOMAIN r.list /\ i \in DOMAIN s.list /\ r.list[i] = s.list[i]
      BY <1>3, <1>4
    <3> QED
      BY <2>2, <3>1
  <2> QED
    BY <1>1, <1>5, <1>10, <2>2, <2>3 DEF Same
<1>11. CASE e.id \in Live(r) /\ e.op = "unalias"
  <2>1. \A t \in {r, s} :
           Replay(t, e) = [colls |-> t.colls,
                           list |-> [t.list EXCEPT ![e.id] = t.list[e.id] \ {e.name}],
                           aliases |-> Without(t.aliases, {e.name})]
    BY <1>1, <1>11, ReplayUnaliases
  <2>2. /\ Replay(r, e).colls = s.colls /\ Replay(s, e).colls = s.colls
        /\ Replay(r, e).list = [r.list EXCEPT ![e.id] = r.list[e.id] \ {e.name}]
        /\ Replay(s, e).list = [s.list EXCEPT ![e.id] = s.list[e.id] \ {e.name}]
    BY <1>1, <2>1
  <2>3. ASSUME NEW i \in Live(s) PROVE Replay(r, e).list[i] = Replay(s, e).list[i]
    <3>1. i \in DOMAIN r.list /\ i \in DOMAIN s.list /\ r.list[i] = s.list[i]
      BY <1>3, <1>4
    <3> QED
      BY <2>2, <3>1
  <2> QED
    BY <1>1, <1>5, <1>11, <2>2, <2>3 DEF Same
<1> QED
  BY <1>1, <1>2, <1>6, <1>7, <1>8, <1>9, <1>10, <1>11 DEF OpKinds

(* What the next open finds behind an entry more.                           *)
LEMMA RecoveriesNext ==
    ASSUME Typed, toc' = toc, NEW e \in LogEntry, wal' = Append(wal, e)
    PROVE  \A r \in Recoveries' : \E s \in Recoveries : s \in Registries /\ r = Replay(s, e)
<1> SUFFICES ASSUME NEW r \in Recoveries'
             PROVE  \E s \in Recoveries : s \in Registries /\ r = Replay(s, e)
  OBVIOUS
<1>1. wal \in Seq(LogEntry) /\ IsToc
  BY DEF Typed
<1>2. PICK x \in Loaded' : r = ReplayAll(x, wal')
  BY DEF Recoveries
<1>3. x \in Loaded
  <2>1. Loaded' = Loaded
    BY DEF Loaded
  <2> QED
    BY <1>2, <2>1
<1>4. x \in Registries
  BY <1>1, <1>3, LoadedIs
<1>5. r = Replay(ReplayAll(x, wal), e)
  BY <1>1, <1>2, <1>4, ReplayNext
<1>6. ReplayAll(x, wal) \in Registries
  BY <1>1, <1>4, ReplayAllType
<1> QED
  BY <1>3, <1>5, <1>6 DEF Recoveries

(* What the next open finds if neither the TOC nor the WAL changes.         *)
LEMMA RecoveriesStay ==
    ASSUME toc' = toc, wal' = wal
    PROVE  Recoveries' = Recoveries
  BY DEF Recoveries, Loaded

(* What is loaded of a sealed TOC is the registry that was sealed.          *)
LEMMA SealedSame ==
    ASSUME reg \in Registries, IsToc, toc = SealedToc, NEW r \in Loaded
    PROVE  Same(r, reg)
<1>1. /\ DOMAIN toc = Live(reg)
      /\ \A i \in Live(reg) : toc[i].name = NameOf(reg, i) /\ toc[i].aliases = reg.list[i]
  BY SealedIs
<1>2. /\ DOMAIN r.colls = {toc[i].name : i \in DOMAIN toc}
      /\ \A i \in DOMAIN toc : r.colls[toc[i].name] = i
      /\ r.list = [i \in Id |-> IF i \in DOMAIN toc THEN toc[i].aliases ELSE {}]
      /\ r \in Registries
  BY LoadedIs
<1>3. Live(reg) \subseteq Id
  BY PartsAre
<1>4. \A i \in Live(reg) : r.list[i] = reg.list[i]
  BY <1>1, <1>2, <1>3
<1>5. \A i \in Live(reg) : NameOf(reg, i) \in DOMAIN reg.colls /\ reg.colls[NameOf(reg, i)] = i
  BY NameIs
<1>6. \A n \in DOMAIN reg.colls : reg.colls[n] \in Live(reg) /\ NameOf(reg, reg.colls[n]) = n
  BY NameIs DEF Live
<1>7. DOMAIN r.colls = DOMAIN reg.colls /\ \A n \in DOMAIN reg.colls : r.colls[n] = reg.colls[n]
  BY <1>1, <1>2, <1>5, <1>6
<1>8. r.colls = reg.colls
  <2>1. IsMap(r.colls) /\ IsMap(reg.colls)
    BY <1>2, PartsAre
  <2> QED
    BY <1>7, <2>1 DEF IsMap
<1> QED
  BY <1>4, <1>8 DEF Same

(* What the next open finds in a sealed TOC, with no entries.               *)
LEMMA RecoveriesSealed ==
    ASSUME Typed, toc = SealedToc, toc' = toc, wal' = <<>>, NEW r \in Recoveries'
    PROVE  r \in Loaded /\ r \in Registries /\ Same(r, reg)
<1>1. IsToc /\ reg \in Registries
  BY DEF Typed
<1>2. PICK x \in Loaded' : r = ReplayAll(x, <<>>)
  BY DEF Recoveries
<1>3. x \in Loaded
  <2>1. Loaded' = Loaded
    BY DEF Loaded
  <2> QED
    BY <1>2, <2>1
<1>4. x \in Registries /\ r = x
  BY <1>1, <1>2, <1>3, LoadedIs, ReplayNone
<1> QED
  BY <1>1, <1>3, <1>4, SealedSame

(* Every step keeps what is on disk the registry.                           *)
LEMMA NextOnDisk ==
    ASSUME IInv, Typed, OnDisk, [Next]_vars
    PROVE  OnDisk'
<1>1. CASE Operation
  <2>1. Effect
    BY <1>1, OperationEffect
  <2>2. /\ pc = "idle" /\ pc' = "idle" /\ toc' = toc /\ reg \in Registries
        /\ \A r \in Recoveries : Same(r, reg)
    BY <2>1 DEF Effect, OnDisk, Typed
  <2>3. CASE Unlogged
    <3>1. Recoveries' = Recoveries /\ reg'.colls = reg.colls /\ reg'.list = reg.list
      BY <2>2, <2>3, RecoveriesStay DEF Unlogged
    <3>2. Live(reg') = Live(reg)
      BY <3>1 DEF Live
    <3> QED
      BY <2>2, <3>1, <3>2 DEF OnDisk, Same
  <2>4. ASSUME NEW e \in LogEntry, Logged(e)
        PROVE  OnDisk'
    <3>1. /\ wal' = Append(wal, e)
          /\ reg'.colls = Replay(reg, e).colls /\ reg'.list = Replay(reg, e).list
      BY <2>4 DEF Logged
    <3>2. ASSUME NEW r \in Recoveries' PROVE Same(r, reg')
      <4>1. PICK s \in Recoveries : s \in Registries /\ r = Replay(s, e)
        BY <2>2, <3>1, RecoveriesNext
      <4>2. Same(r, Replay(reg, e))
        BY <2>2, <4>1, ReplaySame
      <4>3. Live(reg') = Live(Replay(reg, e))
        BY <3>1 DEF Live
      <4> QED
        BY <3>1, <4>2, <4>3 DEF Same
    <3> QED
      BY <2>2, <3>2 DEF OnDisk
  <2> QED
    BY <2>1, <2>3, <2>4 DEF Effect
<1>2. CASE SwapToc
  BY <1>2 DEF SwapToc, OnDisk, SealedToc
<1>3. CASE TruncateWal
  <2>1. reg' = reg /\ toc' = toc /\ wal' = <<>> /\ toc = SealedToc /\ pc' = "idle"
    BY <1>3 DEF TruncateWal, OnDisk
  <2>2. \A r \in Recoveries' : Same(r, reg)
    BY <2>1, RecoveriesSealed
  <2> QED
    BY <2>1, <2>2 DEF OnDisk
<1>4. CASE Kill
  BY <1>4 DEF Kill, OnDisk
<1>5. CASE Open
  <2>1. reg' \in Recoveries /\ Recoveries' = Recoveries /\ pc' = "idle"
    BY <1>5, RecoveriesStay DEF Open
  <2>2. \A r \in Recoveries : r.colls = reg'.colls /\ r.list = reg'.list
    BY <2>1, RecoveriesAre
  <2> QED
    BY <2>1, <2>2 DEF OnDisk, Same
<1>6. CASE Finished \/ UNCHANGED vars
  <2>1. reg' = reg /\ toc' = toc /\ wal' = wal /\ pc' = pc
    BY <1>6 DEF Finished, vars
  <2>2. Recoveries' = Recoveries
    BY <2>1, RecoveriesStay
  <2> QED
    BY <2>1, <2>2 DEF OnDisk, SealedToc
<1> QED
  BY <1>1, <1>2, <1>3, <1>4, <1>5, <1>6 DEF Next, Operation

(* The empty database.                                                      *)
LEMMA InitTyped == Init => Typed /\ OnDisk
<1> SUFFICES ASSUME Init PROVE Typed /\ OnDisk
  OBVIOUS
<1>1. /\ reg = EmptyRegistry /\ nextId = 1 /\ toc = <<>> /\ wal = <<>> /\ pc = "idle"
  BY DEF Init
<1>2. MaxId \in Nat
  BY RegistryAssumption DEF RegistryAssumption
<1>3. EmptyRegistry \in Registries
  <2> DEFINE C == <<>>
             L == [i \in Id |-> {}]
  <2>1. IsMap(C) /\ DOMAIN C = {} /\ L \in [Id -> SUBSET Name]
    BY DEF IsMap
  <2> HIDE DEF C, L
  <2>2. [colls |-> C, list |-> L, aliases |-> C] \in Registries
    BY <2>1, IsRegistry
  <2> QED
    BY <2>2 DEF EmptyRegistry, C, L
<1>4. DOMAIN toc = {} /\ DOMAIN wal = {} /\ wal \in Seq(LogEntry) /\ Live(reg) = {}
  BY <1>1 DEF EmptyRegistry, Live
<1>5. IsToc /\ IdsOnDisk = {}
  BY <1>4 DEF IsToc, IdsOnDisk
<1>6. Typed
  BY <1>1, <1>2, <1>3, <1>4, <1>5 DEF Typed
<1>7. \A r \in Recoveries : Same(r, reg)
  <2> SUFFICES ASSUME NEW r \in Recoveries PROVE Same(r, reg)
    OBVIOUS
  <2>1. PICK x \in Loaded : r = ReplayAll(x, <<>>)
    BY <1>1 DEF Recoveries
  <2>2. x \in Registries /\ DOMAIN x.colls = {}
    BY <1>4, <1>5, LoadedIs
  <2>3. r = x
    BY <2>1, <2>2, ReplayNone
  <2>4. IsMap(x.colls) /\ IsMap(reg.colls) /\ DOMAIN reg.colls = {}
    BY <1>1, <1>3, <2>2, PartsAre DEF EmptyRegistry
  <2>5. x.colls = reg.colls
    BY <2>2, <2>4 DEF IsMap
  <2> QED
    BY <1>4, <2>3, <2>5 DEF Same
<1> QED
  BY <1>1, <1>6, <1>7 DEF OnDisk

(* What Typed and OnDisk are for.                                           *)
LEMMA TypedImplies == Typed => FreshIds
<1> SUFFICES ASSUME Typed PROVE FreshIds
  OBVIOUS
<1>1. reg \in Registries /\ wal \in Seq(LogEntry)
  BY DEF Typed
<1>2. /\ DOMAIN reg.colls \subseteq Name /\ Live(reg) \subseteq Id
      /\ reg.list \in [Id -> SUBSET Name]
      /\ DOMAIN reg.aliases \cup Range(reg.aliases) \subseteq Name
  BY <1>1, PartsAre DEF Range
<1>3. \A k \in DOMAIN wal : wal[k] \in [op : OpKinds, id : Id, name : Name]
  <2>1. \A k \in DOMAIN wal : wal[k] \in LogEntry
    BY <1>1
  <2> QED
    BY <2>1 DEF LogEntry
<1>4. TypeOK
  BY <1>2, <1>3 DEF TypeOK, Typed, IsToc
<1> QED
  BY <1>4 DEF FreshIds, Typed

-----------------------------------------------------------------------------

(* The shape, fresh ids and the recoveries are invariant.                   *)
LEMMA DiskInvariant == Spec => [](IInv /\ Typed /\ OnDisk)
<1>1. Init => IInv /\ Typed /\ OnDisk
  BY InitInv, InitTyped
<1>2. IInv /\ Typed /\ OnDisk /\ [Next]_vars => (IInv /\ Typed /\ OnDisk)'
  BY NextInv, NextTyped, NextOnDisk
<1> QED
  BY <1>1, <1>2, PTL DEF Spec

(* No collection ever takes the entries of another: its id is new, whatever *)
(* was dropped, checkpointed and recovered before.                          *)
THEOREM IdsStayFresh == Spec => []FreshIds
<1>1. IInv /\ Typed /\ OnDisk => FreshIds
  BY TypedImplies
<1> QED
  BY <1>1, DiskInvariant, PTL

(* Were the process to end with no checkpoint under way, the next open      *)
(* would find every collection under its name, with its alias list.         *)
THEOREM CollectionsSurvive == Spec => []ReplayKeepsCollections
<1>1. IInv /\ Typed /\ OnDisk => ReplayKeepsCollections
  BY DEF OnDisk, ReplayKeepsCollections, Same, SameCollections
<1> QED
  BY <1>1, DiskInvariant, PTL

-----------------------------------------------------------------------------
(* The alias map, until the first recovery.                                 *)

(* An entry, neither drop nor rename, does the same to the alias maps of    *)
(* registries of the same collections.                                      *)
LEMMA ReplaySameAliases ==
    ASSUME NEW r \in Registries, NEW s \in Registries, NEW e \in LogEntry,
           r.colls = s.colls, r.aliases = s.aliases
    PROVE  Replay(r, e).aliases = Replay(s, e).aliases
<1>1. Live(r) = Live(s) /\ NameOf(r, e.id) = NameOf(s, e.id)
  BY DEF Live, NameOf
<1>2. e.op \in OpKinds
  BY DEF LogEntry
<1>3. CASE e.id \in Live(r) <=> e.op = "create"
  <2>1. Replay(r, e) = r /\ Replay(s, e) = s
    BY <1>1, <1>3, ReplaySkips
  <2> QED
    BY <2>1
<1>4. CASE e.id \notin Live(r) /\ e.op = "create"
  <2>1. Replay(r, e).aliases = r.aliases /\ Replay(s, e).aliases = s.aliases
    BY <1>1, <1>4, ReplayCreates
  <2> QED
    BY <2>1
<1>5. CASE e.id \in Live(r) /\ e.op = "drop"
  <2>1. \A t \in {r, s} : Replay(t, e) = [colls |-> Without(t.colls, {NameOf(t, e.id)}),
                                          list |-> t.list, aliases |-> t.aliases]
    BY <1>1, <1>5, ReplayDrops
  <2> QED
    BY <2>1
<1>6. CASE e.id \in Live(r) /\ e.op = "rename"
  <2>1. \A t \in {r, s} :
           Replay(t, e) = [colls |-> Put(Without(t.colls, {NameOf(t, e.id)}), e.name, e.id),
                           list |-> t.list, aliases |-> t.aliases]
    BY <1>1, <1>6, ReplayRenames
  <2> QED
    BY <2>1
<1>7. CASE e.id \in Live(r) /\ e.op = "alias"
  <2>1. /\ Replay(r, e).aliases = Put(r.aliases, e.name, NameOf(r, e.id))
        /\ Replay(s, e).aliases = Put(s.aliases, e.name, NameOf(s, e.id))
    BY <1>1, <1>7, ReplayAliases
  <2> QED
    BY <1>1, <2>1
<1>8. CASE e.id \in Live(r) /\ e.op = "unalias"
  <2>1. \A t \in {r, s} :
           Replay(t, e) = [colls |-> t.colls,
                           list |-> [t.list EXCEPT ![e.id] = t.list[e.id] \ {e.name}],
                           aliases |-> Without(t.aliases, {e.name})]
    BY <1>1, <1>8, ReplayUnaliases
  <2> QED
    BY <2>1
<1> QED
  BY <1>1, <1>2, <1>3, <1>4, <1>5, <1>6, <1>7, <1>8 DEF OpKinds

(* What is loaded of a sealed TOC has the alias map that was sealed, if the *)
(* map and the lists agree.                                                 *)
LEMMA SealedAliases ==
    ASSUME LiveInv, reg \in Registries, IsToc, toc = SealedToc, NEW r \in Loaded
    PROVE  r.aliases = reg.aliases
<1>1. /\ DOMAIN toc = Live(reg)
      /\ \A i \in Live(reg) : toc[i].name = NameOf(reg, i) /\ toc[i].aliases = reg.list[i]
  BY SealedIs
<1>2. /\ DOMAIN r.aliases = UNION {toc[i].aliases : i \in DOMAIN toc}
      /\ \A a \in DOMAIN r.aliases : \E i \in DOMAIN toc :
            a \in toc[i].aliases /\ r.aliases[a] = toc[i].name
      /\ r \in Registries
  BY LoadedIs
<1>3. \A i \in Live(reg) : NameOf(reg, i) \in DOMAIN reg.colls /\ reg.colls[NameOf(reg, i)] = i
  BY NameIs
<1>4. ASSUME NEW a \in DOMAIN r.aliases
      PROVE  a \in DOMAIN reg.aliases /\ r.aliases[a] = reg.aliases[a]
  <2>1. PICK i \in Live(reg) : a \in reg.list[i] /\ r.aliases[a] = NameOf(reg, i)
    BY <1>1, <1>2
  <2> QED
    BY <1>3, <2>1 DEF LiveInv, ListedLeads
<1>5. ASSUME NEW a \in DOMAIN reg.aliases
      PROVE  a \in DOMAIN r.aliases
  <2>1. /\ reg.aliases[a] \in DOMAIN reg.colls
        /\ a \in reg.list[reg.colls[reg.aliases[a]]]
    BY DEF LiveInv, LeadsListed
  <2>2. reg.colls[reg.aliases[a]] \in Live(reg)
    BY <2>1 DEF Live
  <2> QED
    BY <1>1, <1>2, <2>1, <2>2
<1>6. IsMap(r.aliases) /\ IsMap(reg.aliases)
  BY <1>2, PartsAre
<1> QED
  BY <1>4, <1>5, <1>6 DEF IsMap

(* What an entry, neither drop nor rename, does in memory.                  *)
LEMMA LoggedIs ==
    ASSUME Typed, pc = "idle", NEW e \in LogEntry, Logged(e), e.op \notin {"drop", "rename"}
    PROVE  /\ e.id \in Live(reg') /\ Live(reg) \subseteq Live(reg')
           /\ \A n \in DOMAIN reg.colls : n \in DOMAIN reg'.colls /\ reg'.colls[n] = reg.colls[n]
           /\ e.op = "create" => reg'.aliases = reg.aliases
           /\ e.op = "alias" => IsPut(reg'.aliases, reg.aliases, e.name, NameOf(reg, e.id))
           /\ e.op = "unalias" => IsWithout(reg'.aliases, reg.aliases, {e.name})
           /\ e.op # "create" => e.id \in Live(reg)
<1>1. /\ reg \in Registries
      /\ reg'.colls = Replay(reg, e).colls /\ reg'.aliases = Replay(reg, e).aliases
      /\ IF e.op = "create" THEN e.id = nextId /\ e.name \notin DOMAIN reg.colls
                            ELSE e.id \in Live(reg)
  BY DEF Typed, Logged
<1>2. CASE e.op = "create"
  <2>1. e.id \notin Live(reg)
    BY <1>1, <1>2, LiveBelow
  <2>2. Replay(reg, e).colls = Put(reg.colls, e.name, e.id) /\ Replay(reg, e).aliases = reg.aliases
    BY <1>1, <1>2, <2>1, ReplayCreates
  <2>3. IsPut(reg'.colls, reg.colls, e.name, e.id)
    BY <1>1, <2>2, PutIs
  <2>4. \A n \in DOMAIN reg.colls : n \in DOMAIN reg'.colls /\ reg'.colls[n] = reg.colls[n]
    BY <1>1, <1>2, <2>3 DEF IsPut
  <2>5. e.id \in Live(reg') /\ Live(reg) \subseteq Live(reg')
    BY <2>3, <2>4 DEF IsPut, Live
  <2> QED
    BY <1>1, <1>2, <2>2, <2>4, <2>5
<1>3. CASE e.op = "alias"
  <2>1. /\ Replay(reg, e).colls = reg.colls
        /\ Replay(reg, e).aliases = Put(reg.aliases, e.name, NameOf(reg, e.id))
    BY <1>1, <1>3, ReplayAliases
  <2>2. IsPut(reg'.aliases, reg.aliases, e.name, NameOf(reg, e.id))
    BY <1>1, <2>1, PutIs
  <2> QED
    BY <1>1, <1>3, <2>1, <2>2 DEF Live
<1>4. CASE e.op = "unalias"
  <2>1. Replay(reg, e) = [colls |-> reg.colls,
                          list |-> [reg.list EXCEPT ![e.id] = reg.list[e.id] \ {e.name}],
                          aliases |-> Without(reg.aliases, {e.name})]
    BY <1>1, <1>4, ReplayUnaliases
  <2>2. Replay(reg, e).colls = reg.colls /\ Replay(reg, e).aliases = Without(reg.aliases, {e.name})
    BY <2>1
  <2>3. IsWithout(reg'.aliases, reg.aliases, {e.name})
    BY <1>1, <2>2, WithoutIs
  <2> QED
    BY <1>1, <1>4, <2>2, <2>3 DEF Live
<1> QED
  BY <1>2, <1>3, <1>4 DEF LogEntry, OpKinds

(* An entry keeps what the last entry about an alias says.                  *)
LEMMA LoggedLeads ==
    ASSUME Typed, LiveInv, pc = "idle", NEW e \in LogEntry, Logged(e),
           e.op \notin {"drop", "rename"}, LeadsLast
    PROVE  LeadsLast'
<1> DEFINE n == Len(wal)
<1>1. /\ n \in Nat /\ Len(wal') = n + 1 /\ wal'[n + 1] = e
      /\ \A k \in 1..n : wal'[k] = wal[k]
  BY DEF Typed, Logged
<1>2. /\ e.id \in Live(reg') /\ Live(reg) \subseteq Live(reg')
      /\ \A m \in DOMAIN reg.colls : m \in DOMAIN reg'.colls /\ reg'.colls[m] = reg.colls[m]
      /\ e.op = "create" => reg'.aliases = reg.aliases
      /\ e.op = "alias" => IsPut(reg'.aliases, reg.aliases, e.name, NameOf(reg, e.id))
      /\ e.op = "unalias" => IsWithout(reg'.aliases, reg.aliases, {e.name})
      /\ e.op # "create" => e.id \in Live(reg)
  BY LoggedIs
<1>3. e.op \in {"create", "alias", "unalias"}
  BY DEF LogEntry, OpKinds
<1> HIDE DEF n
<1> SUFFICES ASSUME NEW k \in 1..(n + 1)
             PROVE  /\ wal'[k].id \in Live(reg')
                    /\ wal'[k].op \in AliasOps =>
                          \/ \E l \in (k + 1)..(n + 1) :
                                wal'[l].op \in AliasOps /\ wal'[l].name = wal'[k].name
                          \/ IF wal'[k].op = "alias"
                             THEN /\ wal'[k].name \in DOMAIN reg'.aliases
                                  /\ reg'.colls[reg'.aliases[wal'[k].name]] = wal'[k].id
                             ELSE wal'[k].name \notin DOMAIN reg'.aliases
  BY <1>1 DEF LeadsLast
<1>4. CASE k = n + 1
  <2>1. CASE e.op = "alias"
    <3>1. NameOf(reg, e.id) \in DOMAIN reg.colls /\ reg.colls[NameOf(reg, e.id)] = e.id
      BY <1>2, <2>1, NameIs DEF Typed
    <3>2. e.name \in DOMAIN reg'.aliases /\ reg'.aliases[e.name] = NameOf(reg, e.id)
      BY <1>2, <2>1 DEF IsPut
    <3> QED
      BY <1>1, <1>2, <1>4, <2>1, <3>1, <3>2
  <2>2. CASE e.op # "alias"
    BY <1>1, <1>2, <1>3, <1>4, <2>2 DEF AliasOps, IsWithout
  <2> QED
    BY <2>1, <2>2
<1>5. CASE k # n + 1
  <2>1. k \in 1..n /\ wal'[k] = wal[k]
    BY <1>1, <1>5
  <2>2. /\ wal[k].id \in Live(reg)
        /\ wal[k].op \in AliasOps =>
             \/ \E l \in (k + 1)..n : wal[l].op \in AliasOps /\ wal[l].name = wal[k].name
             \/ IF wal[k].op = "alias"
                THEN /\ wal[k].name \in DOMAIN reg.aliases
                     /\ reg.colls[reg.aliases[wal[k].name]] = wal[k].id
                ELSE wal[k].name \notin DOMAIN reg.aliases
    BY <2>1 DEF LeadsLast, n
  <2>3. CASE \E l \in (k + 1)..n : wal[l].op \in AliasOps /\ wal[l].name = wal[k].name
    <3>1. PICK l \in (k + 1)..n : wal[l].op \in AliasOps /\ wal[l].name = wal[k].name
      BY <2>3
    <3>2. l \in (k + 1)..(n + 1) /\ wal'[l] = wal[l]
      BY <1>1, <2>1
    <3> QED
      BY <1>2, <2>1, <2>2, <3>1, <3>2
  <2>4. CASE e.op \in AliasOps /\ e.name = wal[k].name
    <3>1. n + 1 \in (k + 1)..(n + 1)
      BY <1>1, <2>1
    <3> QED
      BY <1>1, <1>2, <2>1, <2>2, <2>4, <3>1
  <2>5. CASE /\ ~\E l \in (k + 1)..n : wal[l].op \in AliasOps /\ wal[l].name = wal[k].name
             /\ ~(e.op \in AliasOps /\ e.name = wal[k].name)
    <3>1. ASSUME wal[k].op \in AliasOps
          PROVE  IF wal[k].op = "alias"
                 THEN /\ wal[k].name \in DOMAIN reg'.aliases
                      /\ reg'.colls[reg'.aliases[wal[k].name]] = wal[k].id
                 ELSE wal[k].name \notin DOMAIN reg'.aliases
      <4>1. /\ wal[k].name \in DOMAIN reg'.aliases <=> wal[k].name \in DOMAIN reg.aliases
            /\ wal[k].name \in DOMAIN reg.aliases =>
                  reg'.aliases[wal[k].name] = reg.aliases[wal[k].name]
        BY <1>2, <1>3, <2>5 DEF IsPut, IsWithout, AliasOps
      <4>2. \A a \in DOMAIN reg.aliases : reg.aliases[a] \in DOMAIN reg.colls
        BY DEF LiveInv, LeadsListed
      <4> QED
        BY <1>2, <2>2, <2>5, <3>1, <4>1, <4>2
    <3> QED
      BY <1>2, <2>1, <2>2, <3>1
  <2> QED
    BY <2>3, <2>4, <2>5
<1> QED
  BY <1>4, <1>5

(* Every step keeps the alias map on disk.                                  *)
LEMMA NextAliases ==
    ASSUME IInv, Typed, OnDisk, AliasesOnDisk, [Next]_vars
    PROVE  AliasesOnDisk'
<1> SUFFICES ASSUME NeverRecovered', ~Pending({"drop", "rename"})'
             PROVE  /\ pc' = "idle" => \A r \in Recoveries' : r.aliases = reg'.aliases
                    /\ LeadsLast'
  BY DEF AliasesOnDisk
<1>1. CASE Operation
  <2>1. Effect
    BY <1>1, OperationEffect
  <2>2. /\ pc = "idle" /\ pc' = "idle" /\ toc' = toc /\ reg \in Registries /\ LiveInv
        /\ \A r \in Recoveries : Same(r, reg)
    BY <2>1 DEF Effect, OnDisk, Typed, NeverRecovered, IInv
  <2>3. ~Unlogged
    BY <2>2 DEF Unlogged, LiveInv, LeadsListed
  <2>4. PICK e \in LogEntry : Logged(e)
    BY <2>1, <2>3 DEF Effect
  <2>5. /\ Len(wal) \in Nat /\ DOMAIN wal = 1..Len(wal) /\ DOMAIN wal' = 1..(Len(wal) + 1)
        /\ wal'[Len(wal) + 1] = e /\ \A k \in 1..Len(wal) : wal'[k] = wal[k]
        /\ wal' = Append(wal, e)
    BY <2>4 DEF Typed, Logged
  <2>6. e.op \notin {"drop", "rename"} /\ ~Pending({"drop", "rename"})
    BY <2>5 DEF Pending
  <2>7. LeadsLast /\ \A r \in Recoveries : r.aliases = reg.aliases
    BY <2>1, <2>2, <2>6 DEF AliasesOnDisk, NeverRecovered, Effect
  <2>8. LeadsLast'
    BY <2>2, <2>4, <2>6, <2>7, LoggedLeads
  <2>9. ASSUME NEW r \in Recoveries' PROVE r.aliases = reg'.aliases
    <3>1. PICK s \in Recoveries : s \in Registries /\ r = Replay(s, e)
      BY <2>2, <2>5, RecoveriesNext
    <3>2. s.colls = reg.colls /\ s.aliases = reg.aliases
      BY <2>2, <2>7, <3>1 DEF Same
    <3>3. reg'.aliases = Replay(reg, e).aliases
      BY <2>4, <2>6 DEF Logged
    <3> QED
      BY <2>2, <3>1, <3>2, <3>3, ReplaySameAliases
  <2> QED
    BY <2>8, <2>9
<1>2. CASE SwapToc
  <2>1. reg' = reg /\ wal' = wal /\ pc' = "truncate" /\ count' = count
    BY <1>2 DEF SwapToc
  <2>2. LeadsLast
    BY <2>1 DEF AliasesOnDisk, NeverRecovered, Pending
  <2> QED
    BY <2>1, <2>2 DEF LeadsLast
<1>3. CASE TruncateWal
  <2>1. /\ reg' = reg /\ toc' = toc /\ wal' = <<>> /\ toc = SealedToc /\ count' = count
        /\ reg \in Registries /\ IsToc
    BY <1>3 DEF TruncateWal, OnDisk, Typed
  <2>2. LiveInv
    BY <2>1 DEF IInv, NeverRecovered
  <2>3. \A r \in Recoveries' : r \in Loaded
    BY <2>1, RecoveriesSealed
  <2>4. \A r \in Recoveries' : r.aliases = reg.aliases
    BY <2>1, <2>2, <2>3, SealedAliases
  <2>5. LeadsLast'
    BY <2>1 DEF LeadsLast
  <2> QED
    BY <2>1, <2>4, <2>5
<1>4. CASE Kill
  BY <1>4 DEF Kill, IInv, NeverRecovered
<1>5. CASE Open
  BY <1>5 DEF Open, IInv, NeverRecovered
<1>6. CASE Finished \/ UNCHANGED vars
  <2>1. reg' = reg /\ toc' = toc /\ wal' = wal /\ pc' = pc /\ count' = count
    BY <1>6 DEF Finished, vars
  <2>2. Recoveries' = Recoveries
    BY <2>1, RecoveriesStay
  <2>3. LeadsLast /\ (pc = "idle" => \A r \in Recoveries : r.aliases = reg.aliases)
    BY <2>1 DEF AliasesOnDisk, NeverRecovered, Pending
  <2> QED
    BY <2>1, <2>2, <2>3 DEF LeadsLast
<1> QED
  BY <1>1, <1>2, <1>3, <1>4, <1>5, <1>6 DEF Next, Operation

(* No entry of w behind the k-th is about alias a.                          *)
NoMore(w, k, a) ==
    \A l \in (k + 1)..Len(w) : w[l].op \in AliasOps => w[l].name # a

(* Two alias maps agree on a.                                               *)
Agree(f, g, a) ==
    (a \in DOMAIN f <=> a \in DOMAIN g) /\ (a \in DOMAIN f => f[a] = g[a])

(* Replaying the entries over their result changes no alias: the last entry *)
(* about one says where it leads.                                           *)
LEMMA ReplayedAliases ==
    ASSUME Typed, LiveInv, LeadsLast, ~Pending({"drop", "rename"}),
           NEW x \in Registries, x.colls = reg.colls, x.aliases = reg.aliases
    PROVE  ReplayAll(x, wal).aliases = reg.aliases
<1> DEFINE n == Len(wal)
<1>0. /\ n \in Nat /\ \A k \in 1..n : wal[k] \in LogEntry /\ wal[k].op \notin {"drop", "rename"}
      /\ wal \in Seq(LogEntry) /\ reg \in Registries
  BY DEF Typed, Pending
<1>1. PICK A : IsTrace(A, x, wal) /\ A[n] = ReplayAll(x, wal)
  BY <1>0, Trace
<1> DEFINE S == {k \in 0..n : /\ A[k].colls = reg.colls
                              /\ \A a : NoMore(wal, k, a) => Agree(A[k].aliases, reg.aliases, a)}
<1>2. 0 \in S
  BY <1>0, <1>1 DEF IsTrace, Agree
<1>3. ASSUME NEW k \in 0..n, k < n, k \in S
      PROVE  k + 1 \in S
  <2> DEFINE m == k + 1
             e == wal[m]
  <2>1. m \in 1..n /\ m - 1 = k /\ m \in 0..n
    BY <1>0, <1>3
  <2>2. A[m] = Replay(A[k], e) /\ A[k] \in Registries
    BY <1>1, <2>1 DEF IsTrace
  <2>3. /\ A[k].colls = reg.colls
        /\ \A a : NoMore(wal, k, a) => Agree(A[k].aliases, reg.aliases, a)
    BY <1>3
  <2>4. /\ e.id \in Live(reg)
        /\ e.op \in AliasOps =>
             \/ \E l \in (m + 1)..n : wal[l].op \in AliasOps /\ wal[l].name = e.name
             \/ IF e.op = "alias"
                THEN e.name \in DOMAIN reg.aliases /\ reg.colls[reg.aliases[e.name]] = e.id
                ELSE e.name \notin DOMAIN reg.aliases
    BY <2>1 DEF LeadsLast
  <2>5. e \in LogEntry /\ e.op \in {"create", "alias", "unalias"}
    BY <1>0, <2>1 DEF LogEntry, OpKinds
  <2>6. Live(A[k]) = Live(reg) /\ NameOf(A[k], e.id) = NameOf(reg, e.id)
    BY <2>3 DEF Live, NameOf
  <2>7. ASSUME NEW a, NoMore(wal, m, a), ~(e.op \in AliasOps /\ e.name = a)
        PROVE  NoMore(wal, k, a)
    <3>1. \A l \in (k + 1)..n : l = m \/ l \in (m + 1)..n
      BY <1>0, <2>1
    <3> QED
      BY <2>7, <3>1 DEF NoMore
  <2>8. CASE e.op = "create"
    <3>1. A[m] = A[k]
      BY <2>2, <2>4, <2>5, <2>6, <2>8, ReplaySkips
    <3>2. \A a : NoMore(wal, m, a) => Agree(A[m].aliases, reg.aliases, a)
      BY <2>3, <2>7, <2>8, <3>1 DEF AliasOps
    <3> QED
      BY <2>1, <2>3, <3>1, <3>2
  <2>9. CASE e.op = "alias"
    <3>1. A[m].colls = reg.colls /\ A[m].aliases = Put(A[k].aliases, e.name, NameOf(reg, e.id))
      BY <2>2, <2>3, <2>4, <2>5, <2>6, <2>9, ReplayAliases
    <3>2. IsPut(A[m].aliases, A[k].aliases, e.name, NameOf(reg, e.id))
      BY <3>1, PutIs
    <3> SUFFICES ASSUME NEW a, NoMore(wal, m, a)
                 PROVE  Agree(A[m].aliases, reg.aliases, a)
      BY <2>1, <3>1
    <3>3. CASE e.name = a
      <4>1. ~\E l \in (m + 1)..n : wal[l].op \in AliasOps /\ wal[l].name = e.name
        BY <3>3 DEF NoMore
      <4>2. e.name \in DOMAIN reg.aliases /\ reg.colls[reg.aliases[e.name]] = e.id
        BY <2>4, <2>9, <4>1 DEF AliasOps
      <4>3. reg.aliases[e.name] = NameOf(reg, e.id)
        BY <1>0, <2>4, <4>2, NameIs DEF LiveInv, LeadsListed
      <4> QED
        BY <3>2, <3>3, <4>2, <4>3 DEF IsPut, Agree
    <3>4. CASE e.name # a
      <4>1. Agree(A[k].aliases, reg.aliases, a)
        BY <2>3, <2>7, <3>4
      <4> QED
        BY <3>2, <3>4, <4>1 DEF IsPut, Agree
    <3> QED
      BY <3>3, <3>4
  <2>10. CASE e.op = "unalias"
    <3>1. A[m] = [colls |-> A[k].colls,
                  list |-> [A[k].list EXCEPT ![e.id] = A[k].list[e.id] \ {e.name}],
                  aliases |-> Without(A[k].aliases, {e.name})]
      BY <2>2, <2>3, <2>4, <2>5, <2>6, <2>10, ReplayUnaliases
    <3>2. A[m].colls = reg.colls /\ A[m].aliases = Without(A[k].aliases, {e.name})
      BY <2>3, <3>1
    <3>3. IsWithout(A[m].aliases, A[k].aliases, {e.name})
      BY <3>2, WithoutIs
    <3> SUFFICES ASSUME NEW a, NoMore(wal, m, a)
                 PROVE  Agree(A[m].aliases, reg.aliases, a)
      BY <2>1, <3>2
    <3>4. CASE e.name = a
      <4>1. ~\E l \in (m + 1)..n : wal[l].op \in AliasOps /\ wal[l].name = e.name
        BY <3>4 DEF NoMore
      <4>2. e.name \notin DOMAIN reg.aliases
        BY <2>4, <2>10, <4>1 DEF AliasOps
      <4> QED
        BY <3>3, <3>4, <4>2 DEF IsWithout, Agree
    <3>5. CASE e.name # a
      <4>1. Agree(A[k].aliases, reg.aliases, a)
        BY <2>3, <2>7, <3>5
      <4> QED
        BY <3>3, <3>5, <4>1 DEF IsWithout, Agree
    <3> QED
      BY <3>4, <3>5
  <2> QED
    BY <2>5, <2>8, <2>9, <2>10
<1>4. \A k \in 0..n : k \in S
  <2> HIDE DEF S
  <2> QED
    BY <1>0, <1>2, <1>3, BoundedInduction
<1>5. n \in S
  <2> HIDE DEF S
  <2> QED
    BY <1>0, <1>4
<1>6. \A a : Agree(A[n].aliases, reg.aliases, a)
  <2>1. \A a : NoMore(wal, n, a)
    BY <1>0 DEF NoMore
  <2> QED
    BY <1>5, <2>1
<1>7. IsMap(A[n].aliases) /\ IsMap(reg.aliases)
  <2>1. A[n] \in Registries
    BY <1>0, <1>1 DEF IsTrace
  <2> QED
    BY <1>0, <2>1, PartsAre
<1>8. A[n].aliases = reg.aliases
  BY <1>6, <1>7 DEF Agree, IsMap
<1> QED
  BY <1>1, <1>8

(* What AliasesOnDisk is for: the next open rebuilds the alias map.         *)
LEMMA AliasesImplies ==
    ASSUME IInv, Typed, OnDisk, AliasesOnDisk
    PROVE  ReplayKeepsAliases
<1> SUFFICES ASSUME NeverRecovered, ~Pending({"drop", "rename"}), NEW r \in Recoveries
             PROVE  r.aliases = reg.aliases
  BY DEF ReplayKeepsAliases
<1>1. LiveInv /\ pc # "down" /\ LeadsLast
  BY DEF IInv, NeverRecovered, AliasesOnDisk
<1>2. CASE pc = "idle"
  BY <1>2 DEF AliasesOnDisk
<1>3. CASE pc = "truncate"
  <2>1. toc = SealedToc /\ IsToc /\ reg \in Registries
    BY <1>3 DEF OnDisk, Typed
  <2>2. PICK x \in Loaded : r = ReplayAll(x, wal)
    BY DEF Recoveries
  <2>3. x \in Registries
    BY <2>1, LoadedIs
  <2>4. x.colls = reg.colls
    BY <2>1, SealedSame DEF Same
  <2>5. x.aliases = reg.aliases
    BY <1>1, <2>1, SealedAliases
  <2> QED
    BY <1>1, <2>2, <2>3, <2>4, <2>5, ReplayedAliases
<1> QED
  BY <1>1, <1>2, <1>3 DEF Typed

(* The empty database.                                                      *)
LEMMA InitAliases == Init => AliasesOnDisk
<1> SUFFICES ASSUME Init
             PROVE  LeadsLast /\ \A r \in Recoveries : r.aliases = reg.aliases
  BY DEF AliasesOnDisk
<1>1. /\ reg = EmptyRegistry /\ toc = <<>> /\ wal = <<>>
      /\ Typed
  BY InitTyped DEF Init
<1>2. LeadsLast
  BY <1>1 DEF LeadsLast
<1>3. ASSUME NEW r \in Recoveries PROVE r.aliases = reg.aliases
  <2>1. PICK x \in Loaded : r = ReplayAll(x, <<>>)
    BY <1>1 DEF Recoveries
  <2>2. x \in Registries /\ DOMAIN x.aliases = UNION {toc[i].aliases : i \in DOMAIN toc}
    BY <1>1, LoadedIs DEF Typed
  <2>3. r = x
    BY <2>1, <2>2, ReplayNone
  <2>4. DOMAIN toc = {}
    BY <1>1
  <2>5. DOMAIN x.aliases = {} /\ DOMAIN reg.aliases = {}
    BY <1>1, <2>2, <2>4 DEF EmptyRegistry
  <2>6. IsMap(x.aliases) /\ IsMap(reg.aliases)
    BY <1>1, <2>2, PartsAre DEF Typed
  <2> QED
    BY <2>3, <2>5, <2>6 DEF IsMap
<1> QED
  BY <1>2, <1>3

-----------------------------------------------------------------------------

(* Recovery serves the live registry, its aliases included, until the first *)
(* recovery and while neither a drop nor a rename is logged, in the window  *)
(* between the TOC's swap and the WAL's truncation too.                     *)
THEOREM RegistrySurvives == Spec => []ReplayKeepsRegistry
<1>1. Init => IInv /\ Typed /\ OnDisk /\ AliasesOnDisk
  BY InitInv, InitTyped, InitAliases
<1>2. IInv /\ Typed /\ OnDisk /\ AliasesOnDisk /\ [Next]_vars
         => (IInv /\ Typed /\ OnDisk /\ AliasesOnDisk)'
  BY NextInv, NextTyped, NextOnDisk, NextAliases
<1>3. IInv /\ Typed /\ OnDisk /\ AliasesOnDisk => ReplayKeepsRegistry
  BY AliasesImplies DEF OnDisk, ReplayKeepsCollections, Same, SameCollections,
                        ReplayKeepsRegistry
<1> QED
  BY <1>1, <1>2, <1>3, PTL DEF Spec

-----------------------------------------------------------------------------
(* What the WAL tells of the registry, without renames.                     *)

(* What an entry that replay does not leave alone makes of r.               *)
Writes(r, e, t) ==
    /\ e.op = "create" =>
          /\ IsPut(t.colls, r.colls, e.name, e.id)
          /\ t.list[e.id] = {} /\ \A i \in Id : i # e.id => t.list[i] = r.list[i]
    /\ e.op = "drop" =>
          /\ IsWithout(t.colls, r.colls, {NameOf(r, e.id)})
          /\ \A i \in Id : t.list[i] = r.list[i]
    /\ e.op \in AliasOps =>
          /\ t.colls = r.colls
          /\ \A i \in Id : \A a : a \in t.list[i] <=>
                IF i = e.id /\ a = e.name THEN e.op = "alias" ELSE a \in r.list[i]

(* Replay makes that of it.                                                 *)
LEMMA ReplayWrites ==
    ASSUME NEW r \in Registries, NEW e \in LogEntry, e.op # "rename",
           e.id \in Live(r) <=> e.op # "create"
    PROVE  Writes(r, e, Replay(r, e)) /\ Replay(r, e) \in Registries
<1>1. e.op \in OpKinds /\ e.id \in Id /\ r.list \in [Id -> SUBSET Name]
  BY PartsAre DEF LogEntry
<1>2. Replay(r, e) \in Registries
  BY ReplayType
<1>3. CASE e.op = "create"
  <2>1. Replay(r, e) = [colls |-> Put(r.colls, e.name, e.id),
                        list |-> [r.list EXCEPT ![e.id] = {}],
                        aliases |-> r.aliases]
    BY <1>3, ReplayCreates
  <2>2. /\ Replay(r, e).colls = Put(r.colls, e.name, e.id)
        /\ Replay(r, e).list = [r.list EXCEPT ![e.id] = {}]
    BY <2>1
  <2>3. IsPut(Replay(r, e).colls, r.colls, e.name, e.id)
    BY <2>2, PutIs
  <2> QED
    BY <1>1, <1>2, <1>3, <2>2, <2>3 DEF Writes, AliasOps
<1>4. CASE e.op = "drop"
  <2>1. Replay(r, e) = [colls |-> Without(r.colls, {NameOf(r, e.id)}),
                        list |-> r.list, aliases |-> r.aliases]
    BY <1>4, ReplayDrops
  <2>2. Replay(r, e).colls = Without(r.colls, {NameOf(r, e.id)}) /\ Replay(r, e).list = r.list
    BY <2>1
  <2>3. IsWithout(Replay(r, e).colls, r.colls, {NameOf(r, e.id)})
    BY <2>2, WithoutIs
  <2> QED
    BY <1>1, <1>2, <1>4, <2>2, <2>3 DEF Writes, AliasOps
<1>5. CASE e.op = "alias"
  <2>1. Replay(r, e) = [colls |-> r.colls,
                        list |-> [r.list EXCEPT ![e.id] = r.list[e.id] \cup {e.name}],
                        aliases |-> Put(r.aliases, e.name, NameOf(r, e.id))]
    BY <1>5, ReplayAliases
  <2>2. /\ Replay(r, e).colls = r.colls
        /\ Replay(r, e).list = [r.list EXCEPT ![e.id] = r.list[e.id] \cup {e.name}]
    BY <2>1
  <2> QED
    BY <1>1, <1>2, <1>5, <2>2 DEF Writes, AliasOps
<1>6. CASE e.op = "unalias"
  <2>1. Replay(r, e) = [colls |-> r.colls,
                        list |-> [r.list EXCEPT ![e.id] = r.list[e.id] \ {e.name}],
                        aliases |-> Without(r.aliases, {e.name})]
    BY <1>6, ReplayUnaliases
  <2>2. /\ Replay(r, e).colls = r.colls
        /\ Replay(r, e).list = [r.list EXCEPT ![e.id] = r.list[e.id] \ {e.name}]
    BY <2>1
  <2> QED
    BY <1>1, <1>2, <1>6, <2>2 DEF Writes, AliasOps
<1> QED
  BY <1>1, <1>3, <1>4, <1>5, <1>6 DEF OpKinds

(* The ids in use behind such an entry.                                     *)
LEMMA WritesLive ==
    ASSUME NEW r \in Registries, NEW t \in Registries, NEW e \in LogEntry, Writes(r, e, t),
           e.op # "rename", e.id \in Live(r) <=> e.op # "create"
    PROVE  /\ e.op = "create" /\ e.name \notin DOMAIN r.colls => Live(t) = Live(r) \cup {e.id}
           /\ e.op = "drop" => Live(t) = Live(r) \ {e.id}
           /\ e.op \in AliasOps => Live(t) = Live(r)
<1>1. CASE e.op = "create" /\ e.name \notin DOMAIN r.colls
  BY <1>1 DEF Writes, IsPut, Live, AliasOps
<1>2. CASE e.op = "drop"
  <2>1. IsWithout(t.colls, r.colls, {NameOf(r, e.id)})
    BY <1>2 DEF Writes
  <2>2. \A n \in DOMAIN r.colls : r.colls[n] = e.id <=> n = NameOf(r, e.id)
    BY <1>2, NameIs
  <2>3. Live(t) = Live(r) \ {e.id}
    BY <2>1, <2>2 DEF IsWithout, Live
  <2> QED
    BY <1>2, <2>3 DEF AliasOps
<1>3. CASE e.op \in AliasOps
  BY <1>3 DEF Writes, Live, AliasOps
<1> QED
  BY <1>1, <1>2, <1>3

(* What is told is of the collections and their lists.                      *)
LEMMA SameTells ==
    ASSUME NEW r, NEW s, NEW w \in Seq(LogEntry), Same(r, s), Tells(w, s)
    PROVE  Tells(w, r)
<1>1. r.colls = s.colls /\ Live(r) = Live(s) /\ \A i \in Live(s) : r.list[i] = s.list[i]
  BY DEF Same, Live
<1>2. InOrder(w) /\ OneNameEach(w, r) /\ LastSays(w, r) /\ DroppedDead(w, r)
  BY <1>1 DEF Tells, OneNameEach, LastSays, DroppedDead
<1>3. ListedLast(w, r)
  BY <1>1 DEF Tells, ListedLast
<1>4. ListedSince(w, r)
  BY <1>1 DEF Tells, ListedSince
<1> QED
  BY <1>2, <1>3, <1>4 DEF Tells

(* An operation's entry keeps what is told.                                 *)
LEMMA TellsNext ==
    ASSUME NEW r \in Registries, NEW w \in Seq(LogEntry), NEW e \in LogEntry, NEW v,
           v = Append(w, e), e.op # "rename", Tells(w, r),
           e.id \in Live(r) <=> e.op # "create",
           e.op = "create" =>
              e.name \notin DOMAIN r.colls /\ \A k \in 1..Len(w) : w[k].id # e.id,
           e.op = "drop" => e.name = NameOf(r, e.id),
           NEW t, t = Replay(r, e)
    PROVE  Tells(v, t)
<1> DEFINE n == Len(w)
<1>1. /\ n \in Nat /\ Len(v) = n + 1 /\ v[n + 1] = e
      /\ \A k \in 1..n : v[k] = w[k] /\ w[k] \in LogEntry
      /\ \A k \in 1..(n + 1) : k \in 1..n \/ k = n + 1
      /\ \A k \in 1..n : k \in 1..(n + 1) /\ k < n + 1
      /\ n + 1 \in 1..(n + 1)
  OBVIOUS
<1>2. /\ InOrder(w) /\ OneNameEach(w, r) /\ LastSays(w, r) /\ DroppedDead(w, r)
      /\ ListedLast(w, r) /\ ListedSince(w, r)
  BY DEF Tells
<1>3. Writes(r, e, t) /\ t \in Registries
  BY ReplayWrites
<1>4. /\ e.op = "create" => Live(t) = Live(r) \cup {e.id}
      /\ e.op = "drop" => Live(t) = Live(r) \ {e.id}
      /\ e.op \in AliasOps => Live(t) = Live(r)
  BY <1>3, WritesLive
<1>5. /\ e.op \in {"create", "drop", "alias", "unalias"} /\ e = Entry(e.op, e.id, e.name)
      /\ \A k \in 1..n : w[k].op \in OpKinds /\ w[k].id \in Id
      /\ Live(t) \subseteq Id
  BY <1>1, <1>3, PartsAre DEF LogEntry, OpKinds, Entry
<1>6. e.op # "create" => NameOf(r, e.id) \in DOMAIN r.colls /\ r.colls[NameOf(r, e.id)] = e.id
  BY NameIs
<1> HIDE DEF n
<1>7. \A k \in 1..n : w[k].id = e.id => w[k].op # "drop" /\ e.op # "create"
  BY <1>2 DEF DroppedDead, n
<1>8. InOrder(v)
  <2> SUFFICES ASSUME NEW j \in 1..(n + 1), NEW k \in 1..(n + 1), j < k, v[j].id = v[k].id
               PROVE  v[j].op # "drop" /\ v[k].op # "create"
    BY <1>1 DEF InOrder
  <2>1. j \in 1..n
    BY <1>1
  <2>2. CASE k \in 1..n
    BY <1>1, <1>2, <2>1, <2>2 DEF InOrder, n
  <2>3. CASE k = n + 1
    BY <1>1, <1>7, <2>1, <2>3
  <2> QED
    BY <1>1, <2>2, <2>3
<1>9. \A k \in 1..n : w[k].op \in CollOps /\ w[k].id = e.id /\ e.op = "drop" => w[k].name = e.name
  BY <1>2, <1>6 DEF OneNameEach, n
<1>10. OneNameEach(v, t)
  <2> SUFFICES ASSUME NEW k \in 1..(n + 1), v[k].op \in CollOps
               PROVE  /\ \A j \in 1..(n + 1) :
                            v[j].op \in CollOps /\ v[j].id = v[k].id => v[j].name = v[k].name
                      /\ \A m \in DOMAIN t.colls : t.colls[m] = v[k].id => m = v[k].name
    BY <1>1 DEF OneNameEach
  <2>1. CASE k \in 1..n
    <3>1. v[k] = w[k]
      BY <1>1, <2>1
    <3>2. ASSUME NEW j \in 1..(n + 1), v[j].op \in CollOps, v[j].id = v[k].id
          PROVE  v[j].name = v[k].name
      <4>1. CASE j \in 1..n
        BY <1>1, <1>2, <2>1, <3>1, <3>2, <4>1 DEF OneNameEach, n
      <4>2. CASE j = n + 1
        BY <1>1, <1>7, <1>9, <2>1, <3>1, <3>2, <4>2 DEF CollOps
      <4> QED
        BY <1>1, <4>1, <4>2
    <3>3. ASSUME NEW m \in DOMAIN t.colls, t.colls[m] = v[k].id
          PROVE  m = v[k].name
      <4>1. m \in DOMAIN r.colls /\ r.colls[m] = t.colls[m]
        BY <1>3, <1>5, <1>7, <2>1, <3>1, <3>3 DEF Writes, IsPut, IsWithout, AliasOps
      <4> QED
        BY <1>2, <2>1, <3>1, <3>3, <4>1 DEF OneNameEach, n
    <3> QED
      BY <3>2, <3>3
  <2>2. CASE k = n + 1
    <3>1. v[k] = e
      BY <1>1, <2>2
    <3>2. \A j \in 1..(n + 1) : v[j].op \in CollOps /\ v[j].id = e.id => v[j].name = e.name
      BY <1>1, <1>7, <1>9, <3>1 DEF CollOps
    <3>3. CASE e.op = "create"
      <4>1. \A m \in DOMAIN r.colls : r.colls[m] # e.id
        BY <3>3 DEF Live
      <4>2. \A m \in DOMAIN t.colls : t.colls[m] = e.id => m = e.name
        BY <1>3, <3>3, <4>1 DEF Writes, IsPut
      <4> QED
        BY <3>1, <3>2, <4>2
    <3>4. CASE e.op = "drop"
      BY <1>4, <3>1, <3>2, <3>4 DEF Live
    <3> QED
      BY <3>1, <3>3, <3>4 DEF CollOps
  <2> QED
    BY <1>1, <2>1, <2>2
<1>11. LastSays(v, t)
  <2> SUFFICES ASSUME NEW k \in 1..(n + 1), v[k].op \in CollOps
               PROVE  /\ v[k].name \in DOMAIN t.colls =>
                           \E l \in k..(n + 1) : v[l] = Entry("create", t.colls[v[k].name], v[k].name)
                      /\ v[k].id \notin Live(t) =>
                           \E l \in k..(n + 1) : v[l] = Entry("drop", v[k].id, v[k].name)
    BY <1>1 DEF LastSays
  <2>1. n + 1 \in k..(n + 1)
    BY <1>1
  <2>2. CASE k \in 1..n
    <3>1. /\ v[k] = w[k]
          /\ w[k].name \in DOMAIN r.colls =>
               \E l \in k..n : w[l] = Entry("create", r.colls[w[k].name], w[k].name)
          /\ w[k].id \notin Live(r) =>
               \E l \in k..n : w[l] = Entry("drop", w[k].id, w[k].name)
      BY <1>1, <1>2, <2>2 DEF LastSays, n
    <3>2. \A l \in k..n : l \in k..(n + 1) /\ v[l] = w[l]
      BY <1>1, <2>2
    <3>3. ASSUME w[k].name \in DOMAIN t.colls
          PROVE  \E l \in k..(n + 1) : v[l] = Entry("create", t.colls[w[k].name], w[k].name)
      <4>1. CASE e.op = "create" /\ e.name = w[k].name
        <5>1. t.colls[e.name] = e.id
          BY <1>3, <4>1 DEF Writes, IsPut
        <5> QED
          BY <1>1, <1>5, <2>1, <4>1, <5>1
      <4>2. CASE ~(e.op = "create" /\ e.name = w[k].name)
        <5>1. w[k].name \in DOMAIN r.colls /\ t.colls[w[k].name] = r.colls[w[k].name]
          BY <1>3, <1>5, <3>3, <4>2 DEF Writes, IsPut, IsWithout, AliasOps
        <5> QED
          BY <3>1, <3>2, <5>1
      <4> QED
        BY <4>1, <4>2
    <3>4. ASSUME w[k].id \notin Live(t)
          PROVE  \E l \in k..(n + 1) : v[l] = Entry("drop", w[k].id, w[k].name)
      <4>1. CASE w[k].id \notin Live(r)
        BY <3>1, <3>2, <4>1
      <4>2. CASE w[k].id \in Live(r)
        <5>1. e.op = "drop" /\ w[k].id = e.id
          BY <1>4, <1>5, <3>4, <4>2 DEF AliasOps
        <5>2. w[k].name = e.name
          BY <1>9, <2>2, <3>1, <5>1
        <5> QED
          BY <1>1, <1>5, <2>1, <5>1, <5>2
      <4> QED
        BY <4>1, <4>2
    <3> QED
      BY <3>1, <3>3, <3>4
  <2>3. CASE k = n + 1
    <3>1. v[k] = e
      BY <1>1, <2>3
    <3>2. CASE e.op = "create"
      <4>1. t.colls[e.name] = e.id /\ e.id \in Live(t)
        BY <1>3, <1>4, <3>2 DEF Writes, IsPut
      <4> QED
        BY <1>1, <1>5, <2>1, <3>1, <3>2, <4>1
    <3>3. CASE e.op = "drop"
      <4>1. e.name \notin DOMAIN t.colls
        BY <1>3, <3>3 DEF Writes, IsWithout
      <4> QED
        BY <1>1, <1>5, <2>1, <3>1, <3>3, <4>1
    <3> QED
      BY <3>1, <3>2, <3>3 DEF CollOps
  <2> QED
    BY <1>1, <2>2, <2>3
<1>12. DroppedDead(v, t)
  <2> SUFFICES ASSUME NEW k \in 1..(n + 1), v[k].op = "drop"
               PROVE  v[k].id \notin Live(t)
    BY <1>1 DEF DroppedDead
  <2>1. CASE k \in 1..n
    <3>1. w[k].id \notin Live(r) /\ v[k] = w[k]
      BY <1>1, <1>2, <2>1 DEF DroppedDead, n
    <3> QED
      BY <1>4, <1>5, <1>7, <2>1, <3>1 DEF AliasOps
  <2>2. CASE k = n + 1
    BY <1>1, <1>4, <2>2
  <2> QED
    BY <1>1, <2>1, <2>2
<1>13. ListedLast(v, t)
  <2> SUFFICES ASSUME NEW k \in 1..(n + 1), v[k].op \in AliasOps, v[k].id \in Live(t)
               PROVE  \/ \E l \in (k + 1)..(n + 1) :
                           v[l].op \in AliasOps /\ v[l].id = v[k].id /\ v[l].name = v[k].name
                      \/ v[k].op = "alias" <=> v[k].name \in t.list[v[k].id]
    BY <1>1 DEF ListedLast
  <2>1. CASE k \in 1..n
    <3>1. v[k] = w[k] /\ w[k].id \in Live(r) /\ w[k].id \in Id
      BY <1>1, <1>4, <1>5, <1>7, <2>1 DEF AliasOps
    <3>2. \/ \E l \in (k + 1)..n :
               w[l].op \in AliasOps /\ w[l].id = w[k].id /\ w[l].name = w[k].name
          \/ w[k].op = "alias" <=> w[k].name \in r.list[w[k].id]
      BY <1>2, <2>1, <3>1 DEF ListedLast, n
    <3>3. \A l \in (k + 1)..n : l \in (k + 1)..(n + 1) /\ v[l] = w[l]
      BY <1>1, <2>1
    <3>4. CASE e.op \in AliasOps /\ e.id = w[k].id /\ e.name = w[k].name
      <4>1. n + 1 \in (k + 1)..(n + 1)
        BY <1>1, <2>1
      <4> QED
        BY <1>1, <3>1, <3>4, <4>1
    <3>5. CASE ~(e.op \in AliasOps /\ e.id = w[k].id /\ e.name = w[k].name)
      <4>1. w[k].name \in t.list[w[k].id] <=> w[k].name \in r.list[w[k].id]
        BY <1>3, <1>5, <1>7, <2>1, <3>1, <3>5 DEF Writes, AliasOps
      <4> QED
        BY <3>1, <3>2, <3>3, <4>1
    <3> QED
      BY <3>4, <3>5
  <2>2. CASE k = n + 1
    <3>1. v[k] = e /\ e.id \in Id
      BY <1>1, <2>2 DEF LogEntry
    <3> QED
      BY <1>3, <3>1 DEF Writes
  <2> QED
    BY <1>1, <2>1, <2>2
<1>14. ListedSince(v, t)
  <2>0. SUFFICES \A k \in 1..(n + 1) : v[k].op = "create" /\ v[k].id \in Live(t) =>
                    \A a \in t.list[v[k].id] :
                       \E l \in 1..(n + 1) : v[l] = Entry("alias", v[k].id, a)
    <3>1. Len(v) = n + 1
      BY <1>1
    <3> QED
      BY ONLY <3>1, <2>0 DEF ListedSince
  <2> SUFFICES ASSUME NEW k \in 1..(n + 1), v[k].op = "create", v[k].id \in Live(t),
                      NEW a \in t.list[v[k].id]
               PROVE  \E l \in 1..(n + 1) : v[l] = Entry("alias", v[k].id, a)
    OBVIOUS
  <2>1. CASE k \in 1..n
    <3>1. v[k] = w[k] /\ w[k].id \in Live(r) /\ w[k].id \in Id
      BY <1>1, <1>4, <1>5, <1>7, <2>1 DEF AliasOps
    <3>2. CASE a \in r.list[w[k].id]
      <4>1. PICK l \in 1..n : w[l] = Entry("alias", w[k].id, a)
        BY <1>2, <2>1, <3>1, <3>2 DEF ListedSince, n
      <4> QED
        BY <1>1, <3>1, <4>1
    <3>3. CASE a \notin r.list[w[k].id]
      <4>1. e.op = "alias" /\ e.id = w[k].id /\ e.name = a
        BY <1>3, <1>5, <1>7, <2>1, <3>1, <3>3 DEF Writes, AliasOps
      <4> QED
        BY <1>1, <1>5, <3>1, <4>1
    <3> QED
      BY <3>2, <3>3
  <2>2. CASE k = n + 1
    BY <1>1, <1>3, <2>2 DEF Writes
  <2> QED
    BY <1>1, <2>1, <2>2
<1> QED
  BY <1>8, <1>10, <1>11, <1>12, <1>13, <1>14 DEF Tells

-----------------------------------------------------------------------------
(* Replaying the entries over their result, without renames.                *)

(* No entry of w behind the k-th creates or drops a collection of name n.   *)
Settled(w, k, n) ==
    \A l \in (k + 1)..Len(w) : w[l].op \in CollOps => w[l].name # n

(* The collections of s, k entries of w replayed, where w tells of r: s     *)
(* agrees with r on the names that no later entry is about, has a           *)
(* collection under no name but its own, none that was dropped, none but    *)
(* r's and the created ones, and misses of r's only some to be created.     *)
Settling(w, r, k, s) ==
    \A n : Settled(w, k, n) => Agree(s.colls, r.colls, n)
NamedSo(w, s) ==
    \A n \in DOMAIN s.colls : \A j \in 1..Len(w) :
       w[j].op \in CollOps /\ w[j].id = s.colls[n] => w[j].name = n
Undropped(w, k, s) ==
    \A n \in DOMAIN s.colls : \A l \in 1..k :
       w[l].op = "drop" => w[l].id # s.colls[n]
Accounted(w, r, k, s) ==
    \A n \in DOMAIN s.colls :
       \/ n \in DOMAIN r.colls /\ r.colls[n] = s.colls[n]
       \/ \E j \in 1..k : w[j] = Entry("create", s.colls[n], n)
Returning(w, r, k, s) ==
    \A i \in Live(r) :
       i \in Live(s) \/ \E l \in (k + 1)..Len(w) : w[l].op = "create" /\ w[l].id = i

CollsAt(w, r, k, s) ==
    /\ s \in Registries
    /\ Settling(w, r, k, s) /\ NamedSo(w, s) /\ Undropped(w, k, s)
    /\ Accounted(w, r, k, s) /\ Returning(w, r, k, s)

(* What the entry in place m tells if no later one is about its name.       *)
LEMMA LastTells ==
    ASSUME NEW r \in Registries, NEW w \in Seq(LogEntry), Tells(w, r),
           NEW m \in 1..Len(w), w[m].op \in CollOps, Settled(w, m, w[m].name)
    PROVE  /\ w[m].op = "create" =>
                w[m].name \in DOMAIN r.colls /\ r.colls[w[m].name] = w[m].id
           /\ w[m].op = "drop" => w[m].name \notin DOMAIN r.colls
<1>1. /\ w[m].name \in DOMAIN r.colls =>
             \E l \in m..Len(w) : w[l] = Entry("create", r.colls[w[m].name], w[m].name)
      /\ w[m].id \notin Live(r) =>
             \E l \in m..Len(w) : w[l] = Entry("drop", w[m].id, w[m].name)
      /\ \A n \in DOMAIN r.colls : r.colls[n] = w[m].id => n = w[m].name
  BY DEF Tells, LastSays, OneNameEach
<1>2. \A l \in m..Len(w) : l = m \/ l \in (m + 1)..Len(w)
  OBVIOUS
<1>3. ASSUME NEW l \in m..Len(w), NEW op \in CollOps, NEW i, w[l] = Entry(op, i, w[m].name)
      PROVE  l = m /\ w[m].op = op /\ w[m].id = i
  <2>1. w[l].op = op /\ w[l].name = w[m].name /\ w[l].id = i
    BY <1>3 DEF Entry
  <2> QED
    BY <1>2, <1>3, <2>1 DEF Settled
<1>4. w[m].name \in DOMAIN r.colls => w[m].op = "create" /\ w[m].id = r.colls[w[m].name]
  BY <1>1, <1>3 DEF CollOps
<1>5. w[m].id \notin Live(r) => w[m].op = "drop"
  BY <1>1, <1>3 DEF CollOps
<1>6. w[m].id \in Live(r) => w[m].name \in DOMAIN r.colls
  BY <1>1 DEF Live
<1> QED
  BY <1>4, <1>5, <1>6

(* One more entry.                                                          *)
LEMMA CollsNext ==
    ASSUME NEW r \in Registries, NEW w \in Seq(LogEntry), Tells(w, r),
           \A k \in 1..Len(w) : w[k].op # "rename",
           NEW m \in 1..Len(w), NEW s, CollsAt(w, r, m - 1, s),
           NEW t, t = Replay(s, w[m])
    PROVE  CollsAt(w, r, m, t)
<1> DEFINE e == w[m]
           k == m - 1
           n == Len(w)
<1>1. /\ e \in LogEntry /\ e.op \in {"create", "drop", "alias", "unalias"}
      /\ e = Entry(e.op, e.id, e.name)
  <2>1. e \in LogEntry /\ e.op # "rename"
    OBVIOUS
  <2> QED
    BY <2>1 DEF LogEntry, OpKinds, Entry
<1>2. /\ s \in Registries /\ t \in Registries
      /\ Settling(w, r, k, s) /\ NamedSo(w, s) /\ Undropped(w, k, s)
      /\ Accounted(w, r, k, s) /\ Returning(w, r, k, s)
  BY <1>1, ReplayType DEF CollsAt
<1>3. /\ InOrder(w) /\ OneNameEach(w, r) /\ LastSays(w, r) /\ DroppedDead(w, r)
  BY DEF Tells
<1>4. /\ k \in Nat /\ n \in Nat /\ m \in 1..n /\ m \in 1..m
      /\ \A l \in (k + 1)..n : l = m \/ l \in (m + 1)..n
      /\ \A l \in (m + 1)..n : l \in (k + 1)..n /\ l \in 1..n /\ m < l
      /\ \A l \in 1..m : l = m \/ l \in 1..k
      /\ \A l \in 1..k : l \in 1..m /\ l \in 1..n /\ l < m
      /\ \A l \in 1..n : l \in 1..k \/ l = m \/ l \in (m + 1)..n
  OBVIOUS
<1> HIDE DEF k, n
<1>5. e.id \in Live(s) /\ e.op \in CollOps => NameOf(s, e.id) = e.name
  BY <1>2, <1>4, NameIs DEF NamedSo, n
<1>6. e.op = "create" =>
         /\ e.name \in DOMAIN t.colls /\ t.colls[e.name] = e.id
         /\ \A x : x # e.name => (x \in DOMAIN t.colls <=> x \in DOMAIN s.colls)
         /\ \A x \in DOMAIN s.colls : x # e.name => t.colls[x] = s.colls[x]
  <2>1. CASE e.op = "create" /\ e.id \in Live(s)
    <3>1. t = s
      BY <1>1, <1>2, <2>1, ReplaySkips
    <3> QED
      BY <1>2, <1>5, <2>1, <3>1, NameIs DEF CollOps
  <2>2. CASE e.op = "create" /\ e.id \notin Live(s)
    <3>1. Writes(s, e, t)
      BY <1>1, <1>2, <2>2, ReplayWrites
    <3> QED
      BY <2>2, <3>1 DEF Writes, IsPut
  <2> QED
    BY <2>1, <2>2
<1>7. e.op = "drop" =>
         /\ \A x : x \in DOMAIN t.colls <=> x \in DOMAIN s.colls /\ s.colls[x] # e.id
         /\ \A x \in DOMAIN t.colls : t.colls[x] = s.colls[x]
  <2>1. CASE e.op = "drop" /\ e.id \notin Live(s)
    <3>1. t = s
      BY <1>1, <1>2, <2>1, ReplaySkips
    <3> QED
      BY <2>1, <3>1 DEF Live
  <2>2. CASE e.op = "drop" /\ e.id \in Live(s)
    <3>1. Writes(s, e, t)
      BY <1>1, <1>2, <2>2, ReplayWrites
    <3>2. \A x \in DOMAIN s.colls : s.colls[x] = e.id <=> x = NameOf(s, e.id)
      BY <1>2, <2>2, NameIs
    <3> QED
      BY <2>2, <3>1, <3>2 DEF Writes, IsWithout
  <2> QED
    BY <2>1, <2>2
<1>8. e.op \in AliasOps => t.colls = s.colls
  <2>1. CASE e.op \in AliasOps /\ e.id \notin Live(s)
    BY <1>1, <1>2, <2>1, ReplaySkips DEF AliasOps
  <2>2. CASE e.op \in AliasOps /\ e.id \in Live(s)
    BY <1>1, <1>2, <2>2, ReplayWrites DEF Writes, AliasOps
  <2> QED
    BY <2>1, <2>2
<1>9. e.op \in CollOps \/ e.op \in AliasOps
  BY <1>1 DEF CollOps, AliasOps
<1>10. ASSUME NEW x \in DOMAIN t.colls
       PROVE  \/ e.op = "create" /\ x = e.name /\ t.colls[x] = e.id
              \/ /\ x \in DOMAIN s.colls /\ t.colls[x] = s.colls[x]
                 /\ e.op = "drop" => t.colls[x] # e.id
  BY <1>6, <1>7, <1>8, <1>9 DEF CollOps
<1>11. Settling(w, r, m, t)
  <2> SUFFICES ASSUME NEW x, Settled(w, m, x)
               PROVE  Agree(t.colls, r.colls, x)
    BY DEF Settling
  <2>1. CASE ~(e.op \in CollOps /\ e.name = x)
    <3>1. Settled(w, k, x)
      BY <1>4, <2>1 DEF Settled, n
    <3>2. Agree(s.colls, r.colls, x)
      BY <1>2, <3>1 DEF Settling
    <3>3. e.op = "drop" => (x \in DOMAIN s.colls => s.colls[x] # e.id)
      BY <1>2, <1>4, <2>1 DEF NamedSo, CollOps, n
    <3>4. Agree(t.colls, s.colls, x)
      BY <1>6, <1>7, <1>8, <1>9, <2>1, <3>3 DEF Agree, CollOps
    <3> QED
      BY <3>2, <3>4 DEF Agree
  <2>2. CASE e.op = "create" /\ e.name = x
    <3>1. x \in DOMAIN r.colls /\ r.colls[x] = e.id
      BY <2>2, LastTells DEF CollOps
    <3> QED
      BY <1>6, <2>2, <3>1 DEF Agree
  <2>3. CASE e.op = "drop" /\ e.name = x
    <3>1. x \notin DOMAIN r.colls
      BY <2>3, LastTells DEF CollOps
    <3>2. ASSUME x \in DOMAIN t.colls PROVE FALSE
      <4>1. x \in DOMAIN s.colls /\ t.colls[x] = s.colls[x] /\ s.colls[x] # e.id
        BY <1>7, <2>3, <3>2
      <4>2. PICK j \in 1..k : w[j] = Entry("create", s.colls[x], x)
        BY <1>2, <3>1, <4>1 DEF Accounted
      <4>3. w[j].op = "create" /\ w[j].id = s.colls[x] /\ w[j].name = x /\ j \in 1..n
        BY <1>4, <4>2 DEF Entry
      <4>4. w[j].id \notin Live(r)
        BY <1>3, <3>1, <4>3 DEF OneNameEach, CollOps, Live, n
      <4>5. PICK l \in j..n : w[l] = Entry("drop", w[j].id, x)
        BY <1>3, <4>3, <4>4 DEF LastSays, CollOps, n
      <4>6. w[l].op = "drop" /\ w[l].id = s.colls[x] /\ w[l].name = x /\ l \in 1..n
        BY <1>4, <4>3, <4>5 DEF Entry
      <4>7. l \notin 1..k
        BY <1>2, <4>1, <4>6 DEF Undropped
      <4>8. l # m
        BY <4>1, <4>6
      <4>9. l \in (m + 1)..n
        BY <1>4, <4>6, <4>7, <4>8
      <4> QED
        BY <4>6, <4>9 DEF Settled, CollOps, n
    <3> QED
      BY <3>1, <3>2 DEF Agree
  <2> QED
    BY <2>1, <2>2, <2>3 DEF CollOps
<1>12. NamedSo(w, t)
  <2> SUFFICES ASSUME NEW x \in DOMAIN t.colls, NEW j \in 1..n,
                      w[j].op \in CollOps, w[j].id = t.colls[x]
               PROVE  w[j].name = x
    BY DEF NamedSo, n
  <2>1. CASE e.op = "create" /\ x = e.name /\ t.colls[x] = e.id
    BY <1>3, <1>4, <2>1 DEF OneNameEach, CollOps, n
  <2>2. CASE x \in DOMAIN s.colls /\ t.colls[x] = s.colls[x]
    BY <1>2, <2>2 DEF NamedSo, n
  <2> QED
    BY <1>10, <2>1, <2>2
<1>13. Undropped(w, m, t)
  <2> SUFFICES ASSUME NEW x \in DOMAIN t.colls, NEW l \in 1..m, w[l].op = "drop",
                      w[l].id = t.colls[x]
               PROVE  FALSE
    BY DEF Undropped
  <2>1. CASE e.op = "create" /\ x = e.name /\ t.colls[x] = e.id
    <3>1. l \in 1..k
      BY <1>4, <2>1
    <3> QED
      BY <1>3, <1>4, <2>1, <3>1 DEF InOrder, n
  <2>2. CASE /\ x \in DOMAIN s.colls /\ t.colls[x] = s.colls[x]
             /\ e.op = "drop" => t.colls[x] # e.id
    <3>1. l \in 1..k
      BY <1>4, <2>2
    <3> QED
      BY <1>2, <2>2, <3>1 DEF Undropped
  <2> QED
    BY <1>10, <2>1, <2>2
<1>14. Accounted(w, r, m, t)
  <2> SUFFICES ASSUME NEW x \in DOMAIN t.colls
               PROVE  \/ x \in DOMAIN r.colls /\ r.colls[x] = t.colls[x]
                      \/ \E j \in 1..m : w[j] = Entry("create", t.colls[x], x)
    BY DEF Accounted
  <2>1. CASE e.op = "create" /\ x = e.name /\ t.colls[x] = e.id
    BY <1>1, <1>4, <2>1
  <2>2. CASE x \in DOMAIN s.colls /\ t.colls[x] = s.colls[x]
    BY <1>2, <1>4, <2>2 DEF Accounted
  <2> QED
    BY <1>10, <2>1, <2>2
<1>15. Returning(w, r, m, t)
  <2> SUFFICES ASSUME NEW i \in Live(r)
               PROVE  \/ i \in Live(t)
                      \/ \E l \in (m + 1)..n : w[l].op = "create" /\ w[l].id = i
    BY DEF Returning, n
  <2>1. CASE e.op = "create" /\ e.id = i
    BY <1>6, <2>1 DEF Live
  <2>2. CASE ~(e.op = "create" /\ e.id = i) /\ i \notin Live(s)
    BY <1>2, <1>4, <2>2 DEF Returning, n
  <2>3. CASE ~(e.op = "create" /\ e.id = i) /\ i \in Live(s)
    <3>1. PICK x \in DOMAIN s.colls : s.colls[x] = i
      BY <2>3 DEF Live
    <3>2. CASE e.op = "create" /\ e.name = x
      <4>1. PICK y \in DOMAIN r.colls : r.colls[y] = i
        BY DEF Live
      <4>2. y = x
        <5>1. CASE x \in DOMAIN r.colls /\ r.colls[x] = i
          BY <4>1, <5>1, NameIs
        <5>2. ASSUME NEW j \in 1..k, w[j] = Entry("create", i, x)
              PROVE  y = x
          <6>1. w[j].op = "create" /\ w[j].id = i /\ w[j].name = x /\ j \in 1..n
            BY <1>4, <5>2, SMTT(30) DEF Entry
          <6> QED
            BY <1>3, <4>1, <6>1 DEF OneNameEach, CollOps, n
        <5> QED
          BY <1>2, <3>1, <5>1, <5>2 DEF Accounted
      <4>3. PICK l \in m..n : w[l] = Entry("create", i, x)
        BY <1>3, <1>4, <3>2, <4>1, <4>2 DEF LastSays, CollOps, n
      <4>4. w[l].op = "create" /\ w[l].id = i /\ l # m
        BY <2>3, <3>2, <4>3 DEF Entry
      <4>5. l \in (m + 1)..n
        BY <1>4, <4>4
      <4> QED
        BY <4>4, <4>5
    <3>3. CASE ~(e.op = "create" /\ e.name = x)
      <4>1. e.op = "drop" => e.id # i
        BY <1>3, <1>4 DEF DroppedDead, n
      <4>2. x \in DOMAIN t.colls /\ t.colls[x] = i
        BY <1>6, <1>7, <1>8, <1>9, <3>1, <3>3, <4>1 DEF CollOps
      <4> QED
        BY <4>2 DEF Live
    <3> QED
      BY <3>2, <3>3
  <2> QED
    BY <2>1, <2>2, <2>3
<1> QED
  BY <1>2, <1>11, <1>12, <1>13, <1>14, <1>15 DEF CollsAt

(* No entry of w behind the k-th creates i or is about i's alias a.         *)
SettledAlias(w, k, i, a) ==
    \A l \in (k + 1)..Len(w) : w[l].id = i =>
       w[l].op # "create" /\ (w[l].op \in AliasOps => w[l].name # a)

(* The alias lists of s, k entries of w replayed: r's where no entry of the *)
(* collection has been replayed, and as to the aliases that no later entry  *)
(* is about.                                                                *)
Untouched(w, r, k, s) ==
    \A i \in Live(r) : (\A l \in 1..k : w[l].id # i) => s.list[i] = r.list[i]
Relisted(w, r, k, s) ==
    \A i \in Live(r) : \A a :
       SettledAlias(w, k, i, a) => (a \in s.list[i] <=> a \in r.list[i])

ListsAt(w, r, k, s) == Untouched(w, r, k, s) /\ Relisted(w, r, k, s)

(* One more entry.                                                          *)
LEMMA ListsNext ==
    ASSUME NEW r \in Registries, NEW w \in Seq(LogEntry), Tells(w, r),
           \A k \in 1..Len(w) : w[k].op # "rename",
           NEW m \in 1..Len(w), NEW s, CollsAt(w, r, m - 1, s), ListsAt(w, r, m - 1, s),
           NEW t, t = Replay(s, w[m])
    PROVE  ListsAt(w, r, m, t)
<1> DEFINE e == w[m]
           k == m - 1
           n == Len(w)
<1>1. e \in LogEntry /\ e.op \in {"create", "drop", "alias", "unalias"}
  <2>1. e \in LogEntry /\ e.op # "rename"
    OBVIOUS
  <2> QED
    BY <2>1 DEF LogEntry, OpKinds
<1>2. /\ s \in Registries /\ Returning(w, r, k, s)
      /\ Untouched(w, r, k, s) /\ Relisted(w, r, k, s)
      /\ InOrder(w) /\ ListedLast(w, r) /\ ListedSince(w, r)
      /\ Live(r) \subseteq Id
  BY PartsAre DEF CollsAt, ListsAt, Tells
<1>3. /\ m \in 1..n /\ m \in 1..m
      /\ \A l \in (k + 1)..n : l = m \/ l \in (m + 1)..n
      /\ \A l \in (m + 1)..n : l \in (k + 1)..n /\ l \in 1..n /\ m < l
      /\ \A l \in 1..k : l \in 1..m /\ l \in 1..n /\ l < m
      /\ \A l \in 1..n : l \in 1..k \/ l = m \/ l \in (m + 1)..n
  OBVIOUS
<1> HIDE DEF k, n
<1>4. CASE e.id \in Live(s) <=> e.op = "create"
  <2>1. t = s
    BY <1>1, <1>2, <1>4, ReplaySkips
  <2>2. Untouched(w, r, m, t)
    BY <1>2, <1>3, <2>1 DEF Untouched
  <2> SUFFICES ASSUME NEW i \in Live(r), NEW a, SettledAlias(w, m, i, a)
               PROVE  a \in s.list[i] <=> a \in r.list[i]
    BY <2>1, <2>2 DEF ListsAt, Relisted
  <2>3. CASE e.id # i \/ e.op = "drop"
    <3>1. SettledAlias(w, k, i, a)
      BY <1>3, <2>3 DEF SettledAlias, AliasOps, n
    <3> QED
      BY <1>2, <3>1 DEF Relisted
  <2>4. CASE e.id = i /\ e.op = "create"
    <3>1. \A l \in 1..k : w[l].id # i
      BY <1>2, <1>3, <2>4 DEF InOrder, n
    <3> QED
      BY <1>2, <3>1 DEF Untouched
  <2>5. CASE e.id = i /\ e.op \in AliasOps
    <3>1. i \notin Live(s)
      BY <1>4, <2>5 DEF AliasOps
    <3>2. PICK l \in (k + 1)..n : w[l].op = "create" /\ w[l].id = i
      BY <1>2, <3>1 DEF Returning, n
    <3>3. l \in (m + 1)..n
      BY <1>3, <2>5, <3>2 DEF AliasOps
    <3> QED
      BY <1>2, <1>3, <2>5, <3>2, <3>3 DEF InOrder, n
  <2> QED
    BY <1>1, <2>3, <2>4, <2>5 DEF AliasOps
<1>5. CASE ~(e.id \in Live(s) <=> e.op = "create")
  <2>1. Writes(s, e, t)
    BY <1>1, <1>2, <1>5, ReplayWrites
  <2>2. Untouched(w, r, m, t)
    <3> SUFFICES ASSUME NEW i \in Live(r), \A l \in 1..m : w[l].id # i
                 PROVE  t.list[i] = r.list[i]
      BY DEF Untouched
    <3>1. s.list[i] = r.list[i] /\ e.id # i /\ i \in Id
      BY <1>2, <1>3 DEF Untouched
    <3>2. CASE e.op \in {"create", "drop"}
      BY <2>1, <3>1, <3>2 DEF Writes
    <3>3. CASE e.op \in AliasOps
      <4>1. \A a : a \in t.list[i] <=> a \in s.list[i]
        BY <2>1, <3>1, <3>3 DEF Writes
      <4>2. t \in Registries
        BY <1>1, <1>2, ReplayType
      <4>3. t.list[i] \subseteq Name /\ s.list[i] \subseteq Name
        BY <1>2, <3>1, <4>2, PartsAre
      <4> QED
        BY <3>1, <4>1, <4>3
    <3> QED
      BY <1>1, <3>2, <3>3 DEF AliasOps
  <2> SUFFICES ASSUME NEW i \in Live(r), NEW a, SettledAlias(w, m, i, a)
               PROVE  a \in t.list[i] <=> a \in r.list[i]
    BY <2>2 DEF ListsAt, Relisted
  <2>3. i \in Id /\ e.id \in Id
    BY <1>1, <1>2 DEF LogEntry
  <2>4. CASE e.id = i /\ e.op = "create"
    <3>1. t.list[i] = {}
      BY <2>1, <2>4 DEF Writes
    <3>2. ASSUME a \in r.list[i] PROVE FALSE
      <4>1. PICK l \in 1..n : w[l] = Entry("alias", i, a)
        BY <1>2, <1>3, <2>4, <3>2 DEF ListedSince, n
      <4>2. w[l].op = "alias" /\ w[l].id = i /\ w[l].name = a
        BY <4>1 DEF Entry
      <4>3. l \notin 1..k
        BY <1>2, <1>3, <2>4, <4>2 DEF InOrder, n
      <4>4. l \in (m + 1)..n
        BY <1>3, <2>4, <4>2, <4>3
      <4> QED
        BY <4>2, <4>4 DEF SettledAlias, AliasOps, n
    <3> QED
      BY <3>1, <3>2
  <2>5. CASE e.id = i /\ e.op \in AliasOps /\ e.name = a
    <3>1. a \in t.list[i] <=> e.op = "alias"
      BY <2>1, <2>3, <2>5 DEF Writes
    <3>2. ~\E l \in (m + 1)..n : w[l].op \in AliasOps /\ w[l].id = i /\ w[l].name = a
      BY DEF SettledAlias, n
    <3>3. e.op = "alias" <=> a \in r.list[i]
      BY <1>2, <1>3, <2>5, <3>2 DEF ListedLast, n
    <3> QED
      BY <3>1, <3>3
  <2>6. CASE ~(e.id = i /\ (e.op = "create" \/ (e.op \in AliasOps /\ e.name = a)))
    <3>0. e.id = i => e.op # "create" /\ (e.op \in AliasOps => e.name # a)
      BY <2>6
    <3>1. SettledAlias(w, k, i, a)
      <4> SUFFICES ASSUME NEW l \in (k + 1)..n, w[l].id = i
                   PROVE  w[l].op # "create" /\ (w[l].op \in AliasOps => w[l].name # a)
        BY DEF SettledAlias, n
      <4>1. CASE l = m
        BY <3>0, <4>1
      <4>2. CASE l \in (m + 1)..n
        BY <4>2 DEF SettledAlias, n
      <4> QED
        BY <1>3, <4>1, <4>2
    <3>2. a \in s.list[i] <=> a \in r.list[i]
      BY <1>2, <3>1 DEF Relisted
    <3>3. a \in t.list[i] <=> a \in s.list[i]
      <4>1. CASE e.op = "create"
        BY <2>1, <2>3, <3>0, <4>1 DEF Writes
      <4>2. CASE e.op = "drop"
        BY <2>1, <2>3, <4>2 DEF Writes
      <4>3. CASE e.op \in AliasOps
        <5>1. ~(i = e.id /\ a = e.name)
          BY <3>0, <4>3
        <5> QED
          BY <2>1, <2>3, <4>3, <5>1 DEF Writes
      <4> QED
        BY <1>1, <4>1, <4>2, <4>3 DEF AliasOps
    <3> QED
      BY <3>2, <3>3
  <2> QED
    BY <2>4, <2>5, <2>6
<1> QED
  BY <1>4, <1>5

(* All entries.                                                             *)
LEMMA ReplayAgain ==
    ASSUME NEW r \in Registries, NEW w \in Seq(LogEntry), Tells(w, r),
           \A k \in 1..Len(w) : w[k].op # "rename",
           NEW x \in Registries, Same(x, r)
    PROVE  Same(ReplayAll(x, w), r)
<1> DEFINE n == Len(w)
<1>0. n \in Nat
  OBVIOUS
<1>1. PICK A : IsTrace(A, x, w) /\ A[n] = ReplayAll(x, w)
  BY Trace
<1>2. A \in [0..n -> Registries] /\ A[0] = x /\ \A k \in 1..n : A[k] = Replay(A[k - 1], w[k])
  BY <1>1 DEF IsTrace
<1> DEFINE S == {k \in 0..n : CollsAt(w, r, k, A[k]) /\ ListsAt(w, r, k, A[k])}
<1>3. 0 \in S
  <2>1. x.colls = r.colls /\ Live(x) = Live(r) /\ \A i \in Live(r) : x.list[i] = r.list[i]
    BY DEF Same, Live
  <2>2. CollsAt(w, r, 0, x)
    <3>1. Settling(w, r, 0, x) /\ Undropped(w, 0, x) /\ Accounted(w, r, 0, x)
      BY <2>1 DEF Settling, Undropped, Accounted, Agree
    <3>2. NamedSo(w, x)
      BY <2>1 DEF NamedSo, Tells, OneNameEach
    <3>3. Returning(w, r, 0, x)
      BY <2>1 DEF Returning
    <3> QED
      BY <3>1, <3>2, <3>3 DEF CollsAt
  <2>3. ListsAt(w, r, 0, x)
    BY <2>1 DEF ListsAt, Untouched, Relisted
  <2> QED
    BY <1>0, <1>2, <2>2, <2>3
<1>4. ASSUME NEW k \in 0..n, k < n, k \in S
      PROVE  k + 1 \in S
  <2> DEFINE m == k + 1
  <2>1. m \in 1..n /\ m - 1 = k /\ m \in 0..n
    BY <1>0, <1>4
  <2>2. A[m] = Replay(A[k], w[m])
    BY <1>2, <2>1
  <2>3. CollsAt(w, r, m - 1, A[k]) /\ ListsAt(w, r, m - 1, A[k])
    BY <1>4, <2>1
  <2> HIDE DEF m
  <2>4. CollsAt(w, r, m, A[m])
    BY <2>1, <2>2, <2>3, CollsNext
  <2>5. ListsAt(w, r, m, A[m])
    BY <2>1, <2>2, <2>3, ListsNext
  <2>6. m \in S
    BY <2>1, <2>4, <2>5
  <2> QED
    BY <2>6 DEF m
<1>5. \A k \in 0..n : k \in S
  <2> HIDE DEF S
  <2> QED
    BY <1>0, <1>3, <1>4, BoundedInduction
<1>6. CollsAt(w, r, n, A[n]) /\ ListsAt(w, r, n, A[n])
  BY <1>0, <1>5
<1>7. A[n] \in Registries
  BY <1>6 DEF CollsAt
<1>8. A[n].colls = r.colls
  <2>1. \A y : Settled(w, n, y)
    BY <1>0 DEF Settled
  <2>2. \A y : Agree(A[n].colls, r.colls, y)
    BY <1>6, <2>1 DEF CollsAt, Settling
  <2>3. IsMap(A[n].colls) /\ IsMap(r.colls)
    BY <1>7, PartsAre
  <2> QED
    BY <2>2, <2>3 DEF Agree, IsMap
<1>9. ASSUME NEW i \in Live(r) PROVE A[n].list[i] = r.list[i]
  <2>1. \A a : SettledAlias(w, n, i, a)
    BY <1>0 DEF SettledAlias
  <2>2. \A a : a \in A[n].list[i] <=> a \in r.list[i]
    BY <1>6, <2>1 DEF ListsAt, Relisted
  <2>3. A[n].list[i] \subseteq Name /\ r.list[i] \subseteq Name
    BY <1>7, PartsAre
  <2> QED
    BY <2>2, <2>3
<1> QED
  BY <1>1, <1>8, <1>9 DEF Same

(* What LogTells is for: in the truncation window, replay over the new TOC  *)
(* rebuilds the registry.                                                   *)
LEMMA TellsImplies ==
    ASSUME Typed, OnDisk, LogTells, ~Pending({"rename"}), pc = "truncate", NEW r \in Recoveries
    PROVE  Same(r, reg)
<1>1. /\ toc = SealedToc /\ IsToc /\ reg \in Registries /\ wal \in Seq(LogEntry)
      /\ Tells(wal, reg) /\ \A k \in 1..Len(wal) : wal[k].op # "rename"
  BY DEF Typed, OnDisk, LogTells, Pending
<1>2. PICK x \in Loaded : r = ReplayAll(x, wal)
  BY DEF Recoveries
<1>3. x \in Registries /\ Same(x, reg)
  BY <1>1, LoadedIs, SealedSame
<1> QED
  BY <1>1, <1>2, <1>3, ReplayAgain

(* Every step keeps what the WAL tells.                                     *)
LEMMA NextTells ==
    ASSUME IInv, Typed, OnDisk, LogTells, [Next]_vars
    PROVE  LogTells'
<1> SUFFICES ASSUME ~Pending({"rename"})'
             PROVE  IF pc' = "down" THEN \A r \in Recoveries' : Tells(wal', r)
                                    ELSE Tells(wal', reg')
  BY DEF LogTells
<1>0. wal \in Seq(LogEntry) /\ reg \in Registries
  BY DEF Typed
<1>1. CASE Operation
  <2>1. Effect
    BY <1>1, OperationEffect
  <2>2. pc = "idle" /\ pc' = "idle"
    BY <2>1 DEF Effect
  <2>3. CASE Unlogged
    <3>1. wal' = wal /\ Same(reg', reg)
      BY <2>3 DEF Unlogged, Same
    <3>2. Tells(wal, reg)
      BY <2>2, <3>1 DEF LogTells, Pending
    <3> QED
      BY <1>0, <2>2, <3>1, <3>2, SameTells
  <2>4. ASSUME NEW e \in LogEntry, Logged(e)
        PROVE  Tells(wal', reg')
    <3>1. /\ wal' = Append(wal, e)
          /\ DOMAIN wal = 1..Len(wal) /\ DOMAIN wal' = 1..(Len(wal) + 1)
          /\ wal'[Len(wal) + 1] = e /\ \A k \in 1..Len(wal) : wal'[k] = wal[k]
          /\ Len(wal) \in Nat
      BY <1>0, <2>4 DEF Logged
    <3>2. e.op # "rename" /\ ~Pending({"rename"})
      BY <3>1 DEF Pending
    <3>3. Tells(wal, reg)
      BY <2>2, <3>2 DEF LogTells
    <3>4. e.id \in Live(reg) <=> e.op # "create"
      BY <2>2, <2>4, LiveBelow DEF Logged
    <3>5. ASSUME e.op = "create"
          PROVE  e.name \notin DOMAIN reg.colls /\ \A k \in 1..Len(wal) : wal[k].id # e.id
      <4>1. e.id = nextId /\ e.name \notin DOMAIN reg.colls
        BY <2>4, <3>5 DEF Logged
      <4>2. \A k \in 1..Len(wal) : wal[k].id < nextId /\ wal[k].id \in Nat
        <5>1. \A k \in 1..Len(wal) : wal[k].id \in IdsOnDisk
          BY <3>1 DEF IdsOnDisk
        <5> QED
          BY <2>2, <5>1, IdsOnDiskType, IdsAreNumbers DEF Typed
      <4>3. nextId \in Nat
        BY <2>2, LiveBelow
      <4> QED
        BY <4>1, <4>2, <4>3
    <3>6. e.op = "drop" => e.name = NameOf(reg, e.id)
      BY <2>4 DEF Logged
    <3> DEFINE t == Replay(reg, e)
    <3>7. Tells(wal', t)
      <4> HIDE DEF t
      <4> QED
        BY <1>0, <3>1, <3>2, <3>3, <3>4, <3>5, <3>6, TellsNext DEF t
    <3>8. Same(reg', t) /\ wal' \in Seq(LogEntry)
      BY <1>0, <2>4, <3>1 DEF Logged, Same
    <3> QED
      BY <3>7, <3>8, SameTells
  <2> QED
    BY <2>1, <2>2, <2>3, <2>4 DEF Effect
<1>2. CASE SwapToc
  <2>1. reg' = reg /\ wal' = wal /\ pc = "idle" /\ pc' = "truncate"
    BY <1>2 DEF SwapToc
  <2>2. Tells(wal, reg)
    BY <2>1 DEF LogTells, Pending
  <2> QED
    BY <2>1, <2>2
<1>3. CASE TruncateWal
  <2>1. wal' = <<>> /\ pc' = "idle"
    BY <1>3 DEF TruncateWal
  <2> QED
    BY <2>1 DEF Tells, InOrder, OneNameEach, LastSays, DroppedDead, ListedLast, ListedSince
<1>4. CASE Kill
  <2>1. pc # "down" /\ pc' = "down" /\ wal' = wal /\ toc' = toc
    BY <1>4 DEF Kill
  <2>2. ~Pending({"rename"}) /\ Recoveries' = Recoveries /\ Tells(wal, reg)
    BY <2>1, RecoveriesStay DEF LogTells, Pending
  <2>3. \A r \in Recoveries : Same(r, reg)
    BY <2>1, <2>2, TellsImplies DEF OnDisk, Typed
  <2> QED
    BY <1>0, <2>1, <2>2, <2>3, SameTells
<1>5. CASE Open
  <2>1. pc = "down" /\ pc' = "idle" /\ wal' = wal /\ reg' \in Recoveries
    BY <1>5 DEF Open
  <2>2. \A r \in Recoveries : Tells(wal, r)
    BY <2>1 DEF LogTells, Pending
  <2> QED
    BY <2>1, <2>2
<1>6. CASE Finished \/ UNCHANGED vars
  <2>1. reg' = reg /\ toc' = toc /\ wal' = wal /\ pc' = pc
    BY <1>6 DEF Finished, vars
  <2>2. Recoveries' = Recoveries
    BY <2>1, RecoveriesStay
  <2> QED
    BY <2>1, <2>2 DEF LogTells, Pending
<1> QED
  BY <1>1, <1>2, <1>3, <1>4, <1>5, <1>6 DEF Next, Operation

(* The empty database.                                                      *)
LEMMA InitTells == Init => LogTells
<1> SUFFICES ASSUME Init PROVE Tells(wal, reg) /\ pc # "down"
  BY DEF LogTells
<1>1. wal = <<>> /\ pc = "idle"
  BY DEF Init
<1> QED
  BY <1>1 DEF Tells, InOrder, OneNameEach, LastSays, DroppedDead, ListedLast, ListedSince

-----------------------------------------------------------------------------

(* Between the header swap and the truncation, replay over the TOC that has *)
(* the entries' effects already rebuilds every collection and alias list,   *)
(* when no rename is among the entries (WAL-042).                           *)
THEOREM ReplayIdempotent == Spec => []IdempotentWithoutRename
<1>1. Init => IInv /\ Typed /\ OnDisk /\ LogTells
  BY InitInv, InitTyped, InitTells
<1>2. IInv /\ Typed /\ OnDisk /\ LogTells /\ [Next]_vars
         => (IInv /\ Typed /\ OnDisk /\ LogTells)'
  BY NextInv, NextTyped, NextOnDisk, NextTells
<1>3. IInv /\ Typed /\ OnDisk /\ LogTells => IdempotentWithoutRename
  BY TellsImplies DEF IdempotentWithoutRename, ReplayIsIdempotent, Same, SameCollections
<1> QED
  BY <1>1, <1>2, <1>3, PTL DEF Spec

=============================================================================
