----------------------------- MODULE EmbedProof -----------------------------
(***************************************************************************)
(* What auto-embedding promises, proved for any threads, ids, texts,       *)
(* dimensions, providers, numbers of writes and of crashes.                *)
(***************************************************************************)
EXTENDS Embed, FoldLemmas

-----------------------------------------------------------------------------
(* Types.                                                                   *)

TermSeqs == {s \in Seq(Terms) : Len(s) <= Dim}
Vocabs == [terms : TermSeqs, df : [Terms -> Nat], n : Nat, fitted : SUBSET Text]

(* What the weights of a vector may come from.                              *)
Bases == {<<>>} \cup {<<x>> : x \in Text} \cup (Text \X SUBSET Text)
         \cup ([Terms -> Nat] \X Nat)
Vecs == [idx : (SUBSET (1..Dim)) \ {{}}, by : Bases]
Docs == [text : Text, vec : Vecs]
DocSets == UNION {[S -> Docs] : S \in SUBSET Id}
Corpora == UNION {[S -> Text] : S \in SUBSET Id}

Upserts == {e \in [op : {"upsert"}, docs : DocSets, order : Seq(Id)] :
               \A k \in 1..Len(e.order) : e.order[k] \in DOMAIN e.docs}
Deletes == [op : {"delete"}, id : Id]
Snapshots == [op : {"vocab"}, vocab : Vocabs]
Entries == Upserts \cup Deletes \cup Snapshots

(* A recovering collection.                                                 *)
Colls == [docs : DocSets, vocab : Vocabs, pending : SUBSET Vocabs, dirty : BOOLEAN]

AllProviders == {"bow", "bm25", "tfidf", "svd", "onnx"}

(* A set of documents, id by id.                                            *)
LEMMA DocSetIs ==
    ASSUME NEW d
    PROVE  d \in DocSets <=> /\ d = [i \in DOMAIN d |-> d[i]] /\ DOMAIN d \subseteq Id
                             /\ \A i \in DOMAIN d : d[i] \in Docs
  BY DEF DocSets

(* And a set of texts.                                                      *)
LEMMA CorpusIs ==
    ASSUME NEW d
    PROVE  d \in Corpora <=> /\ d = [i \in DOMAIN d |-> d[i]] /\ DOMAIN d \subseteq Id
                             /\ \A i \in DOMAIN d : d[i] \in Text
  BY DEF Corpora

(* Functions are equal where they have the same values.                     *)
LEMMA SameDocs ==
    ASSUME NEW d \in DocSets, NEW e \in DocSets, DOMAIN d = DOMAIN e,
           \A i \in DOMAIN d : d[i] = e[i]
    PROVE  d = e
  BY DocSetIs

(* Documents written over others, and some taken away.                      *)
LEMMA OverIs ==
    ASSUME NEW d \in DocSets, NEW e \in DocSets
    PROVE  /\ Over(d, e) \in DocSets /\ DOMAIN Over(d, e) = DOMAIN d \cup DOMAIN e
           /\ \A i \in DOMAIN d : Over(d, e)[i] = d[i]
           /\ \A i \in DOMAIN e : i \notin DOMAIN d => Over(d, e)[i] = e[i]
  BY DocSetIs DEF Over

LEMMA WithoutIs ==
    ASSUME NEW d \in DocSets, NEW S
    PROVE  /\ Without(d, S) \in DocSets /\ DOMAIN Without(d, S) = DOMAIN d \ S
           /\ \A i \in DOMAIN d \ S : Without(d, S)[i] = d[i]
  BY DocSetIs DEF Without

LEMMA TextsIs ==
    ASSUME NEW d \in DocSets
    PROVE  /\ Texts(d) \in Corpora /\ DOMAIN Texts(d) = DOMAIN d
           /\ \A i \in DOMAIN d : Texts(d)[i] = d[i].text
  BY DocSetIs, CorpusIs DEF Texts, Docs

LEMMA EmptyDocs == [i \in {} |-> 0] \in DocSets /\ DOMAIN [i \in {} |-> 0] = {}
  BY DocSetIs

-----------------------------------------------------------------------------
(* The vocabulary.                                                          *)

LEMMA UnfittedType == Unfitted \in Vocabs
<1>1. <<>> \in TermSeqs
  BY EmbedAssumption DEF TermSeqs
<1>2. [t \in Terms |-> 0] \in [Terms -> Nat]
  OBVIOUS
<1> QED
  BY <1>1, <1>2 DEF Unfitted, Vocabs

(* Old terms keep their places.                                             *)
Begins(s, z) == Len(s) <= Len(z) /\ \A k \in 1..Len(s) : z[k] = s[k]

(* No term of the text is missing that there was room for.                  *)
Absorbed(terms, text) == text \subseteq ToSet(terms) \/ Len(terms) = Dim

LEMMA BelowOrders ==
    ASSUME NEW S \in SUBSET Terms
    PROVE  IsOrder(S, Below)
<1>1. \A a \in S : a \in Nat /\ a \in Terms
  BY EmbedAssumption
<1>2. \A a, b \in S : <<a, b>> \in Below <=> a < b
  BY <1>1 DEF Below
<1> QED
  BY <1>1, <1>2 DEF IsOrder

(* What AddTerms appends.                                                   *)
LEMMA AddTermsIs ==
    ASSUME NEW terms \in TermSeqs, NEW text \in Text
    PROVE  /\ AddTerms(terms, text) \in TermSeqs
           /\ Begins(terms, AddTerms(terms, text))
           /\ Absorbed(AddTerms(terms, text), text)
           /\ Absorbed(terms, text) => AddTerms(terms, text) = terms
<1> DEFINE S == text \ ToSet(terms)
           new == Sorted(S, Below)
           n == Cardinality(S)
           room == Dim - Len(terms)
           m == IF Len(new) < room THEN Len(new) ELSE room
           more == SubSeq(new, 1, m)
<1>1. S \in SUBSET Terms /\ IsFiniteSet(S)
  <2>1. text \subseteq Terms /\ IsFiniteSet(text)
    BY EmbedAssumption DEF Terms
  <2>2. S \in SUBSET text
    OBVIOUS
  <2> QED
    BY <2>1, <2>2, FS_Subset
<1>2. /\ n \in Nat /\ new \in [1..n -> S]
      /\ {new[k] : k \in 1..n} = S
  <2> HIDE DEF S
  <2> QED
    BY <1>1, BelowOrders, SortedIs
<1>3. new \in Seq(Terms) /\ Len(new) = n
  <2> HIDE DEF S, new, n
  <2>1. new \in [1..n -> Terms]
    BY <1>1, <1>2
  <2> QED
    BY <1>2, <2>1
<1>4. room \in Nat /\ terms \in Seq(Terms) /\ Len(terms) \in Nat /\ Dim \in Nat
  BY EmbedAssumption DEF TermSeqs
<1>5. m \in 0..n /\ m <= room
  BY <1>2, <1>3, <1>4
<1>6. AddTerms(terms, text) = terms \o more
  BY DEF AddTerms
<1> HIDE DEF new, n, m, room
<1>7. /\ more \in Seq(Terms) /\ Len(more) = m
      /\ \A k \in 1..m : more[k] = new[k]
  BY <1>2, <1>3, <1>5
<1> HIDE DEF more
<1>8. /\ terms \o more \in Seq(Terms) /\ Len(terms \o more) = Len(terms) + m
      /\ \A k \in 1..Len(terms) : (terms \o more)[k] = terms[k]
      /\ \A k \in 1..m : (terms \o more)[Len(terms) + k] = more[k]
  BY <1>4, <1>5, <1>7
<1>9. terms \o more \in TermSeqs
  BY <1>4, <1>5, <1>8 DEF TermSeqs, room
<1>10. Begins(terms, terms \o more)
  BY <1>4, <1>5, <1>8 DEF Begins
<1>11. CASE m = room
  <2>1. Absorbed(terms \o more, text)
    BY <1>4, <1>8, <1>11 DEF Absorbed, room
  <2>2. ASSUME Absorbed(terms, text)
        PROVE  m = 0
    <3>1. CASE Len(terms) = Dim
      BY <3>1, <1>4, <1>11 DEF room
    <3>2. CASE text \subseteq ToSet(terms)
      <4>1. S = {}
        BY <3>2
      <4>2. n = 0
        BY <4>1, FS_EmptySet DEF n
      <4> QED
        BY <4>2, <1>5
    <3> QED
      BY <2>2, <3>1, <3>2 DEF Absorbed
  <2>3. m = 0 => terms \o more = terms
    BY <1>4, <1>7
  <2> QED
    BY <1>6, <1>9, <1>10, <2>1, <2>2, <2>3
<1>12. CASE m # room
  <2>1. m = n
    BY <1>3, <1>12 DEF m
  <2>2. ASSUME NEW x \in S PROVE x \in ToSet(terms \o more)
    <3>1. PICK k \in 1..n : x = new[k]
      BY <1>2
    <3>2. (terms \o more)[Len(terms) + k] = x
      BY <2>1, <3>1, <1>7, <1>8
    <3>3. Len(terms) + k \in 1..Len(terms \o more)
      BY <2>1, <1>2, <1>4, <1>8
    <3> QED
      BY <3>2, <3>3, <1>8 DEF ToSet
  <2>3. ASSUME NEW x \in ToSet(terms) PROVE x \in ToSet(terms \o more)
    <3>1. PICK k \in 1..Len(terms) : x = terms[k]
      BY <1>4 DEF ToSet
    <3>2. k \in 1..Len(terms \o more)
      BY <1>4, <1>5, <1>8
    <3> QED
      BY <3>1, <3>2, <1>8 DEF ToSet
  <2>4. Absorbed(terms \o more, text)
    BY <2>2, <2>3 DEF Absorbed
  <2>5. ASSUME Absorbed(terms, text)
        PROVE  m = 0
    <3>1. CASE Len(terms) = Dim
      BY <3>1, <1>4, <1>5 DEF room
    <3>2. CASE text \subseteq ToSet(terms)
      <4>1. S = {}
        BY <3>2
      <4>2. n = 0
        BY <4>1, FS_EmptySet DEF n
      <4> QED
        BY <4>2, <1>5
    <3> QED
      BY <2>5, <3>1, <3>2 DEF Absorbed
  <2>6. m = 0 => terms \o more = terms
    BY <1>4, <1>7
  <2> QED
    BY <1>6, <1>9, <1>10, <2>4, <2>5, <2>6
<1> QED
  BY <1>11, <1>12

(* add_document keeps old terms in place and gives new ones room.           *)
LEMMA AddDocumentIs ==
    ASSUME NEW prov \in AllProviders, NEW v \in Vocabs, NEW text \in Text
    PROVE  /\ AddDocument(prov, v, text) \in Vocabs
           /\ prov \in {"svd", "onnx"} => AddDocument(prov, v, text) = v
           /\ prov \notin {"svd", "onnx"} =>
                 AddDocument(prov, v, text).terms = AddTerms(v.terms, text)
           /\ AddDocument(prov, v, text).fitted = v.fitted
<1>1. /\ v.terms \in TermSeqs /\ v.df \in [Terms -> Nat] /\ v.n \in Nat
      /\ v.fitted \in SUBSET Text
      /\ v = [terms |-> v.terms, df |-> v.df, n |-> v.n, fitted |-> v.fitted]
  BY DEF Vocabs
<1> DEFINE terms == AddTerms(v.terms, text)
           bump == IF prov = "tfidf" THEN text ELSE text \cap ToSet(terms)
           df == [t \in Terms |-> IF t \in bump THEN v.df[t] + 1 ELSE v.df[t]]
<1>2. terms \in TermSeqs
  BY <1>1, AddTermsIs
<1>3. df \in [Terms -> Nat] /\ v.n + 1 \in Nat
  BY <1>1
<1> HIDE DEF df
<1>4. CASE prov \in {"svd", "onnx"}
  BY <1>4 DEF AddDocument
<1>5. CASE prov = "bow"
  <2>1. AddDocument(prov, v, text) = [v EXCEPT !.terms = terms]
    BY <1>5 DEF AddDocument
  <2> HIDE DEF terms
  <2>2. [v EXCEPT !.terms = terms] \in Vocabs
    BY <1>2 DEF Vocabs
  <2> QED
    BY <1>1, <1>5, <2>1, <2>2 DEF terms
<1>6. CASE prov \in {"bm25", "tfidf"}
  <2>1. AddDocument(prov, v, text) = [v EXCEPT !.terms = terms, !.n = @ + 1, !.df = df]
    BY <1>6 DEF AddDocument, df
  <2> HIDE DEF terms, bump
  <2>2. [v EXCEPT !.terms = terms, !.n = @ + 1, !.df = df] \in Vocabs
    BY <1>2, <1>3 DEF Vocabs
  <2> QED
    BY <1>1, <1>6, <2>1, <2>2 DEF terms
<1> QED
  BY <1>4, <1>5, <1>6 DEF AllProviders

(* Counting over a corpus stays within the number of ids.                   *)
LEMMA DocFreqIs ==
    ASSUME NEW corpus \in Corpora, NEW t
    PROVE  /\ IsFiniteSet(DOMAIN corpus)
           /\ Cardinality(DOMAIN corpus) \in 0..Cardinality(Id)
           /\ DocFreq(corpus, t) \in 0..Cardinality(Id)
<1>1. IsFiniteSet(Id) /\ Cardinality(Id) \in Nat
  BY EmbedAssumption, FS_CardinalityType
<1>2. DOMAIN corpus \subseteq Id
  BY CorpusIs
<1>3. ASSUME NEW S \in SUBSET Id
      PROVE  IsFiniteSet(S) /\ Cardinality(S) \in 0..Cardinality(Id)
  BY <1>1, FS_Subset, FS_CardinalityType
<1> QED
  BY <1>2, <1>3 DEF DocFreq

LEMMA UsedIs ==
    ASSUME NEW corpus \in Corpora
    PROVE  IsFiniteSet(Used(corpus)) /\ Used(corpus) \in SUBSET Terms
<1> DEFINE I == DOMAIN corpus
           T == {corpus[i] : i \in I}
<1>1. IsFiniteSet(I)
  BY DocFreqIs
<1>2. \A x \in T : x \in Text /\ IsFiniteSet(x)
  BY CorpusIs, EmbedAssumption
<1>3. IsFiniteSet(T)
  <2> DEFINE f == [i \in I |-> corpus[i]]
  <2>1. f \in Surjection(I, T)
    BY DEF Surjection
  <2> QED
    BY <1>1, <2>1, FS_Surjection
<1>4. IsFiniteSet(UNION T)
  <2> HIDE DEF T
  <2> QED
    BY <1>2, <1>3, FS_UNION
<1>5. UNION T \subseteq Terms
  BY <1>2 DEF Terms
<1> QED
  BY <1>4, <1>5 DEF Used

LEMMA ScoreIs ==
    ASSUME NEW corpus \in Corpora, NEW prov, NEW t
    PROVE  Score(prov, corpus, t) \in Nat
<1>1. DocFreq(corpus, t) \in Nat /\ LogWeight(DocFreq(corpus, t), Cardinality(DOMAIN corpus)) \in Nat
  BY DocFreqIs, EmbedAssumption
<1> QED
  BY <1>1 DEF Score

(* The order a fit sorts by is one.                                         *)
LEMMA HeavierOrders ==
    ASSUME NEW corpus \in Corpora, NEW prov
    PROVE  IsOrder(Used(corpus), Heavier(prov, corpus))
<1> DEFINE S == Used(corpus)
           h(a) == Score(prov, corpus, a)
<1>1. \A a \in S : a \in Nat
  BY UsedIs, EmbedAssumption
<1>2. \A a : h(a) \in Nat
  BY ScoreIs
<1>3. ASSUME NEW a \in S, NEW b \in S
      PROVE  <<a, b>> \in Heavier(prov, corpus) <=> h(a) > h(b) \/ (h(a) = h(b) /\ a < b)
  BY DEF Heavier
<1> HIDE DEF S, h
<1> QED
  BY <1>1, <1>2, <1>3 DEF IsOrder, S

(* fit makes a vocabulary.                                                  *)
LEMMA FitType ==
    ASSUME NEW prov \in AllProviders, NEW corpus \in Corpora
    PROVE  Fit(prov, corpus) \in Vocabs /\ (prov = "onnx" => Fit(prov, corpus) = Unfitted)
<1> DEFINE S == Used(corpus)
           order == Sorted(S, Heavier(prov, corpus))
           c == Cardinality(S)
           m == IF Len(order) < Dim THEN Len(order) ELSE Dim
           terms == SubSeq(order, 1, m)
           df == [t \in Terms |-> IF prov \in {"tfidf", "svd"} \/ (prov = "bm25" /\ t \in ToSet(terms))
                                  THEN DocFreq(corpus, t) ELSE 0]
           n == IF Counts(prov) THEN Cardinality(DOMAIN corpus) ELSE 0
<1>1. c \in Nat /\ order \in [1..c -> S] /\ S \subseteq Terms
  BY UsedIs, HeavierOrders, SortedIs
<1>2. order \in Seq(Terms) /\ Len(order) = c
  <2> HIDE DEF order, c, S
  <2>1. order \in [1..c -> Terms]
    BY <1>1
  <2> QED
    BY <1>1, <2>1
<1>3. m \in 0..c /\ m <= Dim
  <2> HIDE DEF order, c, S
  <2> QED
    BY <1>1, <1>2, EmbedAssumption
<1>4. terms \in TermSeqs
  <2> HIDE DEF order, c, S, m
  <2> QED
    BY <1>1, <1>2, <1>3, EmbedAssumption DEF TermSeqs
<1> HIDE DEF terms
<1>5. df \in [Terms -> Nat]
  <2>1. \A t \in Terms : DocFreq(corpus, t) \in Nat
    BY DocFreqIs
  <2> QED
    BY <2>1
<1>6. n \in Nat
  BY DocFreqIs
<1>7. FittedOn(prov, corpus) \in SUBSET Text
  BY CorpusIs DEF FittedOn
<1> HIDE DEF df, n
<1>8. prov # "onnx" => Fit(prov, corpus) = [terms |-> terms, df |-> df, n |-> n, fitted |-> FittedOn(prov, corpus)]
  BY DEF Fit, terms, df, n
<1>9. prov = "onnx" => Fit(prov, corpus) = Unfitted
  BY DEF Fit
<1> QED
  BY <1>4, <1>5, <1>6, <1>7, <1>8, <1>9, UnfittedType DEF Vocabs

(* embed_nonzero makes a vector that is not zero, of components that stand  *)
(* for terms of the text where they stand for terms at all.                 *)
LEMMA EmbedNonzeroIs ==
    ASSUME NEW prov \in AllProviders, NEW v \in Vocabs, NEW text \in Text
    PROVE  /\ EmbedNonzero(prov, v, text) \in Vecs
           /\ HasTerms(prov) => \/ EmbedNonzero(prov, v, text) = Placeholder
                                \/ EmbedNonzero(prov, v, text).idx \subseteq Known(v, text)
<1>1. /\ v.terms \in Seq(Terms) /\ Len(v.terms) \in Nat /\ Len(v.terms) <= Dim
      /\ v.df \in [Terms -> Nat] /\ v.n \in Nat /\ v.fitted \in SUBSET Text
      /\ Dim \in Nat \ {0}
  BY EmbedAssumption DEF Vocabs, TermSeqs
<1>2. Known(v, text) \subseteq 1..Dim
  <2>1. DOMAIN v.terms = 1..Len(v.terms)
    BY <1>1
  <2>2. 1..Len(v.terms) \subseteq 1..Dim
    BY <1>1
  <2> QED
    BY <2>1, <2>2 DEF Known
<1>3. Weighted(v, text) \subseteq Known(v, text)
  BY DEF Weighted
<1>4. Projected(v, text) \subseteq 1..Dim
  BY DEF Projected
<1> DEFINE E == Embed(prov, v, text)
<1>5. Placeholder \in Vecs
  <2>1. {1} \in (SUBSET (1..Dim)) \ {{}}
    BY <1>1
  <2> QED
    BY <2>1 DEF Placeholder, Vecs, Bases
<1>6. E \in [idx : SUBSET (1..Dim), by : Bases]
  <2>1. CASE prov = "onnx"
    <3>1. E = [idx |-> 1..Dim, by |-> <<text>>]
      BY <2>1 DEF Embed
    <3> QED
      BY <3>1 DEF Bases
  <2>2. CASE prov = "svd"
    <3>1. E = [idx |-> Projected(v, text), by |-> <<text, v.fitted>>]
      BY <2>2 DEF Embed
    <3> QED
      BY <1>1, <1>4, <3>1 DEF Bases
  <2>3. CASE prov = "tfidf"
    <3>1. E = [idx |-> Weighted(v, text), by |-> <<v.df, v.n>>]
      BY <2>3 DEF Embed
    <3> QED
      BY <1>1, <1>2, <1>3, <3>1 DEF Bases
  <2>4. CASE prov \in {"bow", "bm25"}
    <3>1. E = [idx |-> Known(v, text), by |-> <<v.df, v.n>>]
      BY <2>4 DEF Embed
    <3> QED
      BY <1>1, <1>2, <3>1 DEF Bases
  <2> QED
    BY <2>1, <2>2, <2>3, <2>4 DEF AllProviders
<1>7. HasTerms(prov) => E.idx \subseteq Known(v, text)
  BY <1>3 DEF HasTerms, Embed
<1> HIDE DEF E
<1>8. EmbedNonzero(prov, v, text) = IF E.idx = {} THEN Placeholder ELSE E
  BY DEF EmbedNonzero, E
<1>9. E.idx # {} => E \in Vecs
  BY <1>6 DEF Vecs
<1> QED
  BY <1>5, <1>7, <1>8, <1>9

LEMMA EmbeddedIs ==
    ASSUME NEW prov \in AllProviders, NEW v \in Vocabs, NEW texts \in Corpora
    PROVE  /\ Embedded(prov, v, texts) \in DocSets
           /\ DOMAIN Embedded(prov, v, texts) = DOMAIN texts
           /\ \A i \in DOMAIN texts :
                 Embedded(prov, v, texts)[i] =
                    [text |-> texts[i], vec |-> EmbedNonzero(prov, v, texts[i])]
<1>1. DOMAIN texts \subseteq Id /\ \A i \in DOMAIN texts : texts[i] \in Text
  BY CorpusIs
<1>2. \A i \in DOMAIN texts : EmbedNonzero(prov, v, texts[i]) \in Vecs
  BY <1>1, EmbedNonzeroIs
<1>3. \A i \in DOMAIN texts : [text |-> texts[i], vec |-> EmbedNonzero(prov, v, texts[i])] \in Docs
  BY <1>1, <1>2 DEF Docs
<1> QED
  BY <1>1, <1>3, DocSetIs DEF Embedded

-----------------------------------------------------------------------------
(* Folding texts in.                                                        *)

(* Vocabularies that give every term the same index; how often a term was   *)
(* counted may differ.                                                      *)
Same(v, w) == v.terms = w.terms /\ v.fitted = w.fitted

(* Adding the text changes no index.                                        *)
Holds(prov, terms, text) == prov \in {"svd", "onnx"} \/ Absorbed(terms, text)

LEMMA BeginsChain ==
    ASSUME NEW s \in TermSeqs, NEW w \in TermSeqs, NEW z \in TermSeqs
    PROVE  Begins(s, s) /\ (Begins(s, w) /\ Begins(w, z) => Begins(s, z))
<1>1. Len(s) \in Nat /\ Len(w) \in Nat /\ Len(z) \in Nat
  BY DEF TermSeqs
<1> QED
  BY <1>1 DEF Begins

(* What is absorbed stays so.                                               *)
LEMMA HoldsGrows ==
    ASSUME NEW prov, NEW s \in TermSeqs, NEW z \in TermSeqs, Begins(s, z), NEW text,
           Holds(prov, s, text)
    PROVE  Holds(prov, z, text)
<1>1. /\ Len(s) \in Nat /\ Len(z) \in Nat /\ Len(z) <= Dim /\ Dim \in Nat
      /\ DOMAIN s = 1..Len(s) /\ DOMAIN z = 1..Len(z)
  BY EmbedAssumption DEF TermSeqs
<1>2. Len(s) = Dim => Len(z) = Dim
  <2>1. Len(s) <= Len(z)
    BY DEF Begins
  <2> DEFINE a == Len(s)
             b == Len(z)
  <2>2. a \in Nat /\ b \in Nat /\ b <= Dim /\ a <= b /\ Dim \in Nat
    BY <1>1, <2>1
  <2> HIDE DEF a, b
  <2>3. a = Dim => b = Dim
    BY ONLY <2>2
  <2> QED
    BY <2>3 DEF a, b
<1>3. ToSet(s) \subseteq ToSet(z)
  BY <1>1 DEF Begins, ToSet
<1> QED
  BY <1>2, <1>3 DEF Holds, Absorbed

LEMMA AddDocumentHolds ==
    ASSUME NEW prov \in AllProviders, NEW v \in Vocabs, NEW text \in Text
    PROVE  /\ AddDocument(prov, v, text) \in Vocabs
           /\ Begins(v.terms, AddDocument(prov, v, text).terms)
           /\ Holds(prov, AddDocument(prov, v, text).terms, text)
           /\ Holds(prov, v.terms, text) => Same(AddDocument(prov, v, text), v)
           /\ prov = "onnx" => AddDocument(prov, v, text) = v
<1>1. v.terms \in TermSeqs
  BY DEF Vocabs
<1>2. /\ AddTerms(v.terms, text) \in TermSeqs
      /\ Begins(v.terms, AddTerms(v.terms, text))
      /\ Absorbed(AddTerms(v.terms, text), text)
      /\ Absorbed(v.terms, text) => AddTerms(v.terms, text) = v.terms
  BY <1>1, AddTermsIs
<1>3. Begins(v.terms, v.terms)
  BY <1>1, BeginsChain
<1> QED
  BY <1>2, <1>3, AddDocumentIs DEF Holds, Same

LEMMA AddDocumentSame ==
    ASSUME NEW prov \in AllProviders, NEW v \in Vocabs, NEW w \in Vocabs, Same(v, w),
           NEW text \in Text
    PROVE  Same(AddDocument(prov, v, text), AddDocument(prov, w, text))
  BY AddDocumentIs DEF Same

LEMMA Beginning ==
    ASSUME NEW N \in Nat, NEW k \in 1..N
    PROVE  1..k \in SUBSET (1..N) /\ 1..k # {}
<1>1. k \in 1..k
  OBVIOUS
<1>2. \A j \in 1..k : j \in 1..N
  OBVIOUS
<1> QED
  BY <1>1, <1>2

AddDocs(prov, v, texts) == FoldLeft(LAMBDA w, t : AddDocument(prov, w, t), v, texts)

(* The vocabularies it goes through.                                        *)
IsAdding(A, prov, v, texts) ==
    /\ A \in [0..Len(texts) -> Vocabs]
    /\ A[0] = v
    /\ \A k \in 1..Len(texts) : A[k] = AddDocument(prov, A[k - 1], texts[k])

LEMMA AddTrace ==
    ASSUME NEW prov \in AllProviders, NEW v \in Vocabs, NEW texts \in Seq(Text)
    PROVE  \E A : IsAdding(A, prov, v, texts) /\ A[Len(texts)] = AddDocs(prov, v, texts)
<1> DEFINE N == Len(texts)
           X == Vocabs
           G == [k \in 1..N |-> [x \in X |-> AddDocument(prov, x, texts[k])]]
           A == [m \in 0..N |-> Iterate(G, v, m)]
<1>0. N \in Nat /\ DOMAIN texts = 1..N /\ \A k \in 1..N : texts[k] \in Text
  OBVIOUS
<1>1. Steps(G, X, N)
  <2> SUFFICES ASSUME NEW k \in 1..N PROVE G[k] \in [X -> X]
    BY DEF Steps
  <2>1. ASSUME NEW x \in X PROVE AddDocument(prov, x, texts[k]) \in X
    BY <1>0, AddDocumentIs
  <2> QED
    BY <2>1
<1> HIDE DEF X
<1>2. /\ Iterate(G, v, 0) = v
      /\ \A m \in 0..N : Iterate(G, v, m) \in X
      /\ \A m \in 1..N : Iterate(G, v, m) = G[m][Iterate(G, v, m - 1)]
  <2>1. v \in X
    BY DEF X
  <2> HIDE DEF G, N, A
  <2>2. N \in Nat /\ Steps(G, X, N)
    BY <1>0, <1>1
  <2>3. Iterates(G, X, v, N)
    BY ONLY <2>1, <2>2, IterateSteps
  <2> QED
    BY ONLY <2>3 DEF Iterates
<1>3. IsAdding(A, prov, v, texts)
  <2>1. A \in [0..N -> X] /\ A[0] = v
    BY <1>0, <1>2
  <2>2. ASSUME NEW k \in 1..N
        PROVE  A[k] = AddDocument(prov, A[k - 1], texts[k])
    <3>1. k \in 0..N /\ k - 1 \in 0..N
      BY <1>0
    <3>2. A[k] = G[k][A[k - 1]] /\ A[k - 1] \in X
      BY <3>1, <1>2
    <3> QED
      BY <3>2
  <2> QED
    BY <2>1, <2>2 DEF IsAdding, X
<1>4. AddDocs(prov, v, texts) = Iterate(G, v, N)
  <2> DEFINE IsSol(g) == g = [S \in SUBSET (1..N) |-> IF S = {} THEN v
                                ELSE AddDocument(prov, g[S \ {Max(S)}], texts[Max(S)])]
             g0 == CHOOSE g : IsSol(g)
  <2>1. \E g : IsSol(g)
    <3>1. PICK f \in [SUBSET (1..N) -> X] : IsFold(f, G, v, N)
      <4>1. v \in X
        BY DEF X
      <4> HIDE DEF G, N
      <4> QED
        BY <1>0, <4>1, <1>1, FoldExists
    <3>2. ASSUME NEW S \in SUBSET (1..N), S # {}
          PROVE  f[S] = AddDocument(prov, f[S \ {Max(S)}], texts[Max(S)])
      <4>1. Max(S) \in S
        <5> HIDE DEF N
        <5> QED
          BY <3>2, <1>0, MaxExists
      <4>2. f[S \ {Max(S)}] \in X
        BY <3>1
      <4>3. f[S] = G[Max(S)][f[S \ {Max(S)}]]
        BY <3>1, <3>2 DEF IsFold
      <4> QED
        BY <4>1, <4>2, <4>3
    <3>3. f[{}] = v
      BY <3>1 DEF IsFold
    <3>4. IsSol(f)
      BY <3>1, <3>2, <3>3
    <3> QED
      BY <3>4
  <2>2. IsSol(g0)
    BY <2>1
  <2>3. AddDocs(prov, v, texts) = g0[1..N]
    BY <1>0 DEF AddDocs, FoldLeft, MapThenFoldSet
  <2>4. g0[{}] = v
    <3> HIDE DEF g0
    <3> QED
      BY <2>2
  <2>5. ASSUME NEW k \in 1..N, g0[1..(k - 1)] \in X
        PROVE  g0[1..k] = G[k][g0[1..(k - 1)]]
    <3>1. Max(1..k) = k /\ (1..k) \ {k} = 1..(k - 1)
      BY MaxOfInterval
    <3>2. 1..k \in SUBSET (1..N) /\ 1..k # {}
      <4> HIDE DEF N
      <4> QED
        BY ONLY <1>0, k \in 1..N, Beginning
    <3>3. g0[1..k] = AddDocument(prov, g0[1..(k - 1)], texts[k])
      <4> HIDE DEF g0
      <4> QED
        BY <2>2, <3>1, <3>2
    <3> QED
      BY <3>3, <2>5
  <2>6. g0[1..N] = Iterate(G, v, N)
    <3>1. v \in X
      BY DEF X
    <3> HIDE DEF g0, G, N
    <3> QED
      BY <1>0, <3>1, <1>1, <2>4, <2>5, FoldIsIterate
  <2> QED
    BY <2>3, <2>6
<1>5. A[N] = AddDocs(prov, v, texts)
  BY <1>0, <1>4
<1> QED
  BY <1>3, <1>5

(* Folding texts in keeps the old terms in place, takes in what there is    *)
(* room for, and changes nothing the second time.                           *)
LEMMA AddDocsIs ==
    ASSUME NEW prov \in AllProviders, NEW v \in Vocabs, NEW texts \in Seq(Text)
    PROVE  /\ AddDocs(prov, v, texts) \in Vocabs
           /\ Begins(v.terms, AddDocs(prov, v, texts).terms)
           /\ AddDocs(prov, v, texts).fitted = v.fitted
           /\ \A k \in 1..Len(texts) : Holds(prov, AddDocs(prov, v, texts).terms, texts[k])
           /\ (\A k \in 1..Len(texts) : Holds(prov, v.terms, texts[k])) =>
                 Same(AddDocs(prov, v, texts), v)
           /\ prov = "onnx" => AddDocs(prov, v, texts) = v
<1>1. PICK A : IsAdding(A, prov, v, texts) /\ A[Len(texts)] = AddDocs(prov, v, texts)
  BY AddTrace
<1> DEFINE N == Len(texts)
           ok(n) == /\ Begins(v.terms, A[n].terms)
                    /\ A[n].fitted = v.fitted
                    /\ \A k \in 1..n : Holds(prov, A[n].terms, texts[k])
                    /\ (\A k \in 1..N : Holds(prov, v.terms, texts[k])) => Same(A[n], v)
                    /\ prov = "onnx" => A[n] = v
           S == {n \in 0..N : ok(n)}
<1>2. /\ N \in Nat /\ \A k \in 1..N : texts[k] \in Text
      /\ \A n \in 0..N : A[n] \in Vocabs /\ A[n].terms \in TermSeqs
      /\ A[0] = v /\ v.terms \in TermSeqs
      /\ \A k \in 1..N : A[k] = AddDocument(prov, A[k - 1], texts[k])
  <2>1. \A w \in Vocabs : w.terms \in TermSeqs
    BY DEF Vocabs
  <2>2. N \in Nat /\ \A k \in 1..N : texts[k] \in Text
    OBVIOUS
  <2>3. A \in [0..N -> Vocabs] /\ A[0] = v
    BY <1>1 DEF IsAdding
  <2>4. \A k \in 1..N : A[k] = AddDocument(prov, A[k - 1], texts[k])
    BY <1>1 DEF IsAdding
  <2> HIDE DEF N
  <2> QED
    BY <2>1, <2>2, <2>3, <2>4
<1> HIDE DEF N
<1>3. 0 \in S
  BY <1>2, BeginsChain DEF Same
<1>4. ASSUME NEW n \in 0..N, n < N, n \in S
      PROVE  n + 1 \in S
  <2> DEFINE w == A[n]
             z == A[n + 1]
             x == texts[n + 1]
  <2>0. n + 1 \in 1..N /\ n + 1 \in 0..N /\ (n + 1) - 1 = n
    BY <1>2, <1>4
  <2>1. w \in Vocabs /\ w.terms \in TermSeqs /\ z \in Vocabs /\ z.terms \in TermSeqs /\ x \in Text
    BY <2>0, <1>2
  <2>2. z = AddDocument(prov, w, x)
    BY <2>0, <1>2
  <2>3. ok(n)
    BY <1>4
  <2> HIDE DEF w, z, x
  <2>4. /\ Begins(w.terms, z.terms) /\ Holds(prov, z.terms, x) /\ z.fitted = w.fitted
        /\ Holds(prov, w.terms, x) => Same(z, w)
        /\ prov = "onnx" => z = w
    BY <2>1, <2>2, AddDocumentHolds, AddDocumentIs
  <2>5. Begins(v.terms, z.terms)
    BY <2>1, <2>3, <2>4, <1>2, BeginsChain DEF w
  <2>6. ASSUME NEW k \in 1..(n + 1) PROVE Holds(prov, z.terms, texts[k])
    <3>1. CASE k = n + 1
      BY <3>1, <2>4 DEF x
    <3>2. CASE k # n + 1
      <4>1. k \in 1..n
        BY <3>2
      <4>2. Holds(prov, w.terms, texts[k])
        BY <4>1, <2>3 DEF w
      <4> QED
        BY <4>2, <2>1, <2>4, HoldsGrows
    <3> QED
      BY <3>1, <3>2
  <2>7. (\A k \in 1..N : Holds(prov, v.terms, texts[k])) => Same(z, v)
    <3> SUFFICES ASSUME \A k \in 1..N : Holds(prov, v.terms, texts[k]) PROVE Same(z, v)
      OBVIOUS
    <3>1. Same(w, v) /\ Holds(prov, v.terms, x)
      BY <2>0, <2>3 DEF w, x
    <3> QED
      BY <3>1, <2>4 DEF Same
  <2>8. prov = "onnx" => z = v
    BY <2>3, <2>4 DEF w
  <2>9. z.fitted = v.fitted
    BY <2>3, <2>4 DEF w
  <2>10. ok(n + 1)
    BY <2>5, <2>6, <2>7, <2>8, <2>9 DEF z
  <2> QED
    BY <2>0, <2>10
<1>5. N \in S
  <2> HIDE DEF S
  <2>1. \A n \in 0..N : n \in S
    BY <1>2, <1>3, <1>4, BoundedInduction
  <2> QED
    BY <2>1, <1>2
<1>6. ok(N)
  BY <1>5
<1> QED
  BY <1>1, <1>2, <1>6 DEF N

(* Only the indices it starts from decide the indices it ends with.         *)
LEMMA AddDocsSame ==
    ASSUME NEW prov \in AllProviders, NEW v \in Vocabs, NEW w \in Vocabs, Same(v, w),
           NEW texts \in Seq(Text)
    PROVE  Same(AddDocs(prov, v, texts), AddDocs(prov, w, texts))
<1>1. PICK A : IsAdding(A, prov, v, texts) /\ A[Len(texts)] = AddDocs(prov, v, texts)
  BY AddTrace
<1>2. PICK B : IsAdding(B, prov, w, texts) /\ B[Len(texts)] = AddDocs(prov, w, texts)
  BY AddTrace
<1> DEFINE N == Len(texts)
           S == {n \in 0..N : Same(A[n], B[n])}
<1>3. N \in Nat /\ \A k \in 1..N : texts[k] \in Text
  OBVIOUS
<1>4. 0 \in S
  BY <1>1, <1>2, <1>3 DEF IsAdding
<1>5. ASSUME NEW n \in 0..N, n < N, n \in S
      PROVE  n + 1 \in S
  <2>1. n + 1 \in 1..N /\ (n + 1) - 1 = n /\ n + 1 \in 0..N
    BY <1>3, <1>5
  <2>2. /\ A[n + 1] = AddDocument(prov, A[n], texts[n + 1]) /\ A[n] \in Vocabs
        /\ B[n + 1] = AddDocument(prov, B[n], texts[n + 1]) /\ B[n] \in Vocabs
    BY <2>1, <1>1, <1>2 DEF IsAdding
  <2> QED
    BY <2>1, <2>2, <1>3, <1>5, AddDocumentSame
<1>6. \A n \in 0..N : n \in S
  <2> HIDE DEF S, N
  <2> QED
    BY <1>3, <1>4, <1>5, BoundedInduction
<1> QED
  BY <1>1, <1>2, <1>3, <1>6

-----------------------------------------------------------------------------
(* Replay.                                                                  *)

(* The texts of a logged batch.                                             *)
Logged(e) == [k \in DOMAIN e.order |-> e.docs[e.order[k]].text]

LEMMA LoggedIs ==
    ASSUME NEW e \in Upserts
    PROVE  Logged(e) \in Seq(Text)
<1>1. e.order \in Seq(Id) /\ e.docs \in DocSets /\ \A k \in 1..Len(e.order) : e.order[k] \in DOMAIN e.docs
  BY DEF Upserts
<1>2. DOMAIN e.order = 1..Len(e.order) /\ Len(e.order) \in Nat
  BY <1>1
<1>3. \A i \in DOMAIN e.docs : e.docs[i].text \in Text
  BY <1>1, DocSetIs DEF Docs
<1>4. Logged(e) \in [1..Len(e.order) -> Text]
  BY <1>1, <1>2, <1>3 DEF Logged
<1> QED
  BY <1>2, <1>4

LEMMA CollIs ==
    ASSUME NEW c \in Colls
    PROVE  /\ c.docs \in DocSets /\ c.vocab \in Vocabs /\ c.pending \in SUBSET Vocabs
           /\ c.dirty \in BOOLEAN
           /\ \A d \in DocSets, v \in Vocabs : [c EXCEPT !.docs = d, !.vocab = v] \in Colls
  BY DEF Colls

(* What one entry does.                                                     *)
LEMMA UpsertIs ==
    ASSUME NEW prov \in AllProviders, NEW ready \in BOOLEAN, NEW c \in Colls, NEW e \in Upserts
    PROVE  /\ ApplyEntry(prov, ready, c, e) \in Colls
           /\ ApplyEntry(prov, ready, c, e).docs = Over(e.docs, c.docs)
           /\ ready => ApplyEntry(prov, ready, c, e).vocab = AddDocs(prov, c.vocab, Logged(e))
           /\ ~ready => ApplyEntry(prov, ready, c, e).vocab = c.vocab
           /\ ApplyEntry(prov, ready, c, e).pending = c.pending
<1> DEFINE d == Over(e.docs, c.docs)
           v == IF ready THEN AddDocs(prov, c.vocab, Logged(e)) ELSE c.vocab
<1>1. e.op = "upsert" /\ e.docs \in DocSets
  BY DEF Upserts
<1>2. d \in DocSets
  BY <1>1, CollIs, OverIs
<1>3. v \in Vocabs
  BY CollIs, LoggedIs, AddDocsIs
<1>4. ApplyEntry(prov, ready, c, e) = [c EXCEPT !.docs = d, !.vocab = v]
  BY <1>1 DEF ApplyEntry, ReplayUpsert, AddDocs, Logged
<1> HIDE DEF d, v
<1>5. [c EXCEPT !.docs = d, !.vocab = v] \in Colls
  BY <1>2, <1>3, CollIs
<1>6. /\ [c EXCEPT !.docs = d, !.vocab = v].docs = d
      /\ [c EXCEPT !.docs = d, !.vocab = v].vocab = v
      /\ [c EXCEPT !.docs = d, !.vocab = v].pending = c.pending
  BY DEF Colls
<1> QED
  BY <1>4, <1>5, <1>6 DEF d, v

LEMMA DeleteIs ==
    ASSUME NEW prov \in AllProviders, NEW ready \in BOOLEAN, NEW c \in Colls, NEW e \in Deletes
    PROVE  /\ ApplyEntry(prov, ready, c, e) \in Colls
           /\ ApplyEntry(prov, ready, c, e).docs = Without(c.docs, {e.id})
           /\ ApplyEntry(prov, ready, c, e).vocab = c.vocab
           /\ ApplyEntry(prov, ready, c, e).pending = c.pending
<1> DEFINE d == Without(c.docs, {e.id})
<1>1. e.op = "delete"
  BY DEF Deletes
<1>2. d \in DocSets
  BY CollIs, WithoutIs
<1>3. ApplyEntry(prov, ready, c, e) = [c EXCEPT !.docs = d]
  BY <1>1 DEF ApplyEntry
<1> HIDE DEF d
<1>4. /\ [c EXCEPT !.docs = d] \in Colls /\ [c EXCEPT !.docs = d].docs = d
      /\ [c EXCEPT !.docs = d].vocab = c.vocab /\ [c EXCEPT !.docs = d].pending = c.pending
  BY <1>2 DEF Colls
<1> QED
  BY <1>3, <1>4 DEF d

LEMMA DeleteKeeps ==
    ASSUME NEW prov \in AllProviders, NEW ready \in BOOLEAN, NEW c \in Colls, NEW e \in Deletes
    PROVE  /\ ApplyEntry(prov, ready, c, e).vocab = c.vocab
           /\ ApplyEntry(prov, ready, c, e).pending = c.pending
  BY DeleteIs

LEMMA SnapshotIs ==
    ASSUME NEW prov \in AllProviders, NEW ready \in BOOLEAN, NEW c \in Colls, NEW e \in Snapshots
    PROVE  /\ ApplyEntry(prov, ready, c, e) \in Colls
           /\ ApplyEntry(prov, ready, c, e).docs = c.docs
           /\ ready => /\ ApplyEntry(prov, ready, c, e).vocab = e.vocab
                       /\ ApplyEntry(prov, ready, c, e).pending = c.pending
           /\ ~ready => /\ ApplyEntry(prov, ready, c, e).vocab = c.vocab
                        /\ ApplyEntry(prov, ready, c, e).pending = {e.vocab}
<1>1. e.op = "vocab" /\ e.vocab \in Vocabs
  BY DEF Snapshots
<1>2. ApplyEntry(prov, ready, c, e) = IF ready THEN [c EXCEPT !.vocab = e.vocab, !.dirty = FALSE]
                                      ELSE [c EXCEPT !.pending = {e.vocab}]
  BY <1>1 DEF ApplyEntry, ReplayImportVocab
<1>3. CASE ready
  <2>1. /\ [c EXCEPT !.vocab = e.vocab, !.dirty = FALSE] \in Colls
        /\ [c EXCEPT !.vocab = e.vocab, !.dirty = FALSE].docs = c.docs
        /\ [c EXCEPT !.vocab = e.vocab, !.dirty = FALSE].vocab = e.vocab
        /\ [c EXCEPT !.vocab = e.vocab, !.dirty = FALSE].pending = c.pending
    BY <1>1 DEF Colls
  <2> QED
    BY <1>2, <1>3, <2>1
<1>4. CASE ~ready
  <2>1. {e.vocab} \in SUBSET Vocabs
    BY <1>1
  <2>2. /\ [c EXCEPT !.pending = {e.vocab}] \in Colls
        /\ [c EXCEPT !.pending = {e.vocab}].docs = c.docs
        /\ [c EXCEPT !.pending = {e.vocab}].vocab = c.vocab
        /\ [c EXCEPT !.pending = {e.vocab}].pending = {e.vocab}
    BY <2>1 DEF Colls
  <2> QED
    BY <1>2, <1>4, <2>2
<1> QED
  BY <1>3, <1>4

LEMMA EntryType ==
    ASSUME NEW prov \in AllProviders, NEW ready \in BOOLEAN, NEW c \in Colls, NEW e \in Entries
    PROVE  ApplyEntry(prov, ready, c, e) \in Colls
  BY UpsertIs, DeleteIs, SnapshotIs DEF Entries

(* The states it goes through.                                              *)
IsReplay(A, prov, ready, c, log) ==
    /\ A \in [0..Len(log) -> Colls]
    /\ A[0] = c
    /\ \A k \in 1..Len(log) : A[k] = ApplyEntry(prov, ready, A[k - 1], log[k])

LEMMA ReplayTrace ==
    ASSUME NEW prov \in AllProviders, NEW ready \in BOOLEAN, NEW c \in Colls,
           NEW log \in Seq(Entries)
    PROVE  \E A : IsReplay(A, prov, ready, c, log) /\ A[Len(log)] = Replay(prov, ready, c, log)
<1> DEFINE N == Len(log)
           X == Colls
           G == [k \in 1..N |-> [x \in X |-> ApplyEntry(prov, ready, x, log[k])]]
           A == [m \in 0..N |-> Iterate(G, c, m)]
<1>0. N \in Nat /\ DOMAIN log = 1..N /\ \A k \in 1..N : log[k] \in Entries
  OBVIOUS
<1>1. Steps(G, X, N)
  <2> SUFFICES ASSUME NEW k \in 1..N PROVE G[k] \in [X -> X]
    BY DEF Steps
  <2>1. ASSUME NEW x \in X PROVE ApplyEntry(prov, ready, x, log[k]) \in X
    BY <1>0, EntryType
  <2> QED
    BY <2>1
<1> HIDE DEF X
<1>2. /\ Iterate(G, c, 0) = c
      /\ \A m \in 0..N : Iterate(G, c, m) \in X
      /\ \A m \in 1..N : Iterate(G, c, m) = G[m][Iterate(G, c, m - 1)]
  <2>1. c \in X
    BY DEF X
  <2> HIDE DEF G, N, A
  <2>2. N \in Nat /\ Steps(G, X, N)
    BY <1>0, <1>1
  <2>3. Iterates(G, X, c, N)
    BY ONLY <2>1, <2>2, IterateSteps
  <2> QED
    BY ONLY <2>3 DEF Iterates
<1>3. IsReplay(A, prov, ready, c, log)
  <2>1. A \in [0..N -> X] /\ A[0] = c
    BY <1>0, <1>2
  <2>2. ASSUME NEW k \in 1..N
        PROVE  A[k] = ApplyEntry(prov, ready, A[k - 1], log[k])
    <3>1. k \in 0..N /\ k - 1 \in 0..N
      BY <1>0
    <3>2. A[k] = G[k][A[k - 1]] /\ A[k - 1] \in X
      BY <3>1, <1>2
    <3> QED
      BY <3>2
  <2> QED
    BY <2>1, <2>2 DEF IsReplay, X
<1>4. Replay(prov, ready, c, log) = Iterate(G, c, N)
  <2> DEFINE IsSol(g) == g = [S \in SUBSET (1..N) |-> IF S = {} THEN c
                                ELSE ApplyEntry(prov, ready, g[S \ {Max(S)}], log[Max(S)])]
             g0 == CHOOSE g : IsSol(g)
  <2>1. \E g : IsSol(g)
    <3>1. PICK f \in [SUBSET (1..N) -> X] : IsFold(f, G, c, N)
      <4>1. c \in X
        BY DEF X
      <4> HIDE DEF G, N
      <4> QED
        BY <1>0, <4>1, <1>1, FoldExists
    <3>2. ASSUME NEW S \in SUBSET (1..N), S # {}
          PROVE  f[S] = ApplyEntry(prov, ready, f[S \ {Max(S)}], log[Max(S)])
      <4>1. Max(S) \in S
        <5> HIDE DEF N
        <5> QED
          BY <3>2, <1>0, MaxExists
      <4>2. f[S \ {Max(S)}] \in X
        BY <3>1
      <4>3. f[S] = G[Max(S)][f[S \ {Max(S)}]]
        BY <3>1, <3>2 DEF IsFold
      <4> QED
        BY <4>1, <4>2, <4>3
    <3>3. f[{}] = c
      BY <3>1 DEF IsFold
    <3>4. IsSol(f)
      BY <3>1, <3>2, <3>3
    <3> QED
      BY <3>4
  <2>2. IsSol(g0)
    BY <2>1
  <2>3. Replay(prov, ready, c, log) = g0[1..N]
    BY <1>0 DEF Replay, FoldLeft, MapThenFoldSet
  <2>4. g0[{}] = c
    <3> HIDE DEF g0
    <3> QED
      BY <2>2
  <2>5. ASSUME NEW k \in 1..N, g0[1..(k - 1)] \in X
        PROVE  g0[1..k] = G[k][g0[1..(k - 1)]]
    <3>1. Max(1..k) = k /\ (1..k) \ {k} = 1..(k - 1)
      BY MaxOfInterval
    <3>2. 1..k \in SUBSET (1..N) /\ 1..k # {}
      <4> HIDE DEF N
      <4> QED
        BY ONLY <1>0, k \in 1..N, Beginning
    <3>3. g0[1..k] = ApplyEntry(prov, ready, g0[1..(k - 1)], log[k])
      <4> HIDE DEF g0
      <4> QED
        BY <2>2, <3>1, <3>2
    <3> QED
      BY <3>3, <2>5
  <2>6. g0[1..N] = Iterate(G, c, N)
    <3>1. c \in X
      BY DEF X
    <3> HIDE DEF g0, G, N
    <3> QED
      BY <1>0, <3>1, <1>1, <2>4, <2>5, FoldIsIterate
  <2> QED
    BY <2>3, <2>6
<1>5. A[N] = Replay(prov, ready, c, log)
  BY <1>0, <1>4
<1> QED
  BY <1>3, <1>5

LEMMA ReplayType ==
    ASSUME NEW prov \in AllProviders, NEW ready \in BOOLEAN, NEW c \in Colls,
           NEW log \in Seq(Entries)
    PROVE  Replay(prov, ready, c, log) \in Colls
<1>1. Len(log) \in 0..Len(log)
  OBVIOUS
<1> QED
  BY <1>1, ReplayTrace DEF IsReplay

LEMMA ReplayEmpty ==
    ASSUME NEW prov \in AllProviders, NEW ready \in BOOLEAN, NEW c \in Colls
    PROVE  Replay(prov, ready, c, <<>>) = c
<1> DEFINE log == <<>>
<1>1. log \in Seq(Entries) /\ Len(log) = 0
  OBVIOUS
<1> HIDE DEF log
<1>2. PICK A : IsReplay(A, prov, ready, c, log) /\ A[Len(log)] = Replay(prov, ready, c, log)
  BY <1>1, ReplayTrace
<1>3. A[0] = c
  BY <1>2 DEF IsReplay
<1>4. Replay(prov, ready, c, log) = c
  BY <1>1, <1>2, <1>3
<1> QED
  BY <1>4 DEF log

(* An entry appended to the log is applied last.                            *)
LEMMA ReplayAppend ==
    ASSUME NEW prov \in AllProviders, NEW ready \in BOOLEAN, NEW c \in Colls,
           NEW log \in Seq(Entries), NEW e \in Entries
    PROVE  /\ Append(log, e) \in Seq(Entries)
           /\ Replay(prov, ready, c, log) \in Colls
           /\ Replay(prov, ready, c, Append(log, e)) =
                 ApplyEntry(prov, ready, Replay(prov, ready, c, log), e)
<1> DEFINE more == Append(log, e)
           N == Len(log)
<1>1. /\ more \in Seq(Entries) /\ Len(more) = N + 1 /\ N \in Nat
      /\ more[N + 1] = e /\ \A k \in 1..N : more[k] = log[k]
  OBVIOUS
<1>2. PICK A : IsReplay(A, prov, ready, c, log) /\ A[N] = Replay(prov, ready, c, log)
  BY ReplayTrace
<1> HIDE DEF more
<1>3. PICK B : IsReplay(B, prov, ready, c, more) /\ B[N + 1] = Replay(prov, ready, c, more)
  BY <1>1, ReplayTrace
<1> HIDE DEF N
<1>4. /\ A[0] = c /\ \A k \in 1..N : A[k] = ApplyEntry(prov, ready, A[k - 1], log[k])
  BY <1>2 DEF IsReplay, N
<1>5. /\ B[0] = c /\ \A k \in 1..(N + 1) : B[k] = ApplyEntry(prov, ready, B[k - 1], more[k])
  BY <1>1, <1>3 DEF IsReplay
<1> DEFINE S == {n \in 0..N : A[n] = B[n]}
<1>6. 0 \in S
  BY <1>1, <1>4, <1>5
<1>7. ASSUME NEW n \in 0..N, n < N, n \in S
      PROVE  n + 1 \in S
  <2>1. n + 1 \in 1..N /\ n + 1 \in 1..(N + 1) /\ (n + 1) - 1 = n /\ n + 1 \in 0..N
    BY <1>1, <1>7
  <2>2. A[n + 1] = ApplyEntry(prov, ready, A[n], log[n + 1])
    BY <2>1, <1>4
  <2>3. B[n + 1] = ApplyEntry(prov, ready, B[n], log[n + 1])
    BY <2>1, <1>1, <1>5
  <2> QED
    BY <2>1, <2>2, <2>3, <1>7
<1>8. \A n \in 0..N : n \in S
  <2> HIDE DEF S
  <2> QED
    BY <1>1, <1>6, <1>7, BoundedInduction
<1>9. A[N] = B[N]
  BY <1>1, <1>8
<1>10. N + 1 \in 1..(N + 1) /\ (N + 1) - 1 = N
  BY <1>1
<1>11. B[N + 1] = ApplyEntry(prov, ready, B[N], e)
  BY <1>1, <1>5, <1>10
<1> QED
  BY <1>1, <1>2, <1>3, <1>9, <1>11, ReplayType DEF more

(* What an entry makes of the documents depends on nothing else.            *)
LEMMA EntryDocs ==
    ASSUME NEW prov \in AllProviders, NEW r1 \in BOOLEAN, NEW r2 \in BOOLEAN,
           NEW c1 \in Colls, NEW c2 \in Colls, c1.docs = c2.docs, NEW e \in Entries
    PROVE  ApplyEntry(prov, r1, c1, e).docs = ApplyEntry(prov, r2, c2, e).docs
<1>1. e \in Upserts \/ e \in Deletes \/ e \in Snapshots
  BY DEF Entries
<1>2. CASE e \in Upserts
  <2>1. ApplyEntry(prov, r1, c1, e).docs = Over(e.docs, c1.docs)
    BY <1>2, UpsertIs
  <2>2. ApplyEntry(prov, r2, c2, e).docs = Over(e.docs, c2.docs)
    BY <1>2, UpsertIs
  <2> QED
    BY <2>1, <2>2
<1>3. CASE e \in Deletes
  <2>1. ApplyEntry(prov, r1, c1, e).docs = Without(c1.docs, {e.id})
    BY <1>3, DeleteIs
  <2>2. ApplyEntry(prov, r2, c2, e).docs = Without(c2.docs, {e.id})
    BY <1>3, DeleteIs
  <2> QED
    BY <2>1, <2>2
<1>4. CASE e \in Snapshots
  <2>1. ApplyEntry(prov, r1, c1, e).docs = c1.docs
    BY <1>4, SnapshotIs
  <2>2. ApplyEntry(prov, r2, c2, e).docs = c2.docs
    BY <1>4, SnapshotIs
  <2> QED
    BY <2>1, <2>2
<1> QED
  BY <1>1, <1>2, <1>3, <1>4

(* So the documents recovered are the same with and without the provider.   *)
LEMMA ReplayDocs ==
    ASSUME NEW prov \in AllProviders, NEW r1 \in BOOLEAN, NEW r2 \in BOOLEAN,
           NEW c1 \in Colls, NEW c2 \in Colls, c1.docs = c2.docs, NEW log \in Seq(Entries)
    PROVE  Replay(prov, r1, c1, log).docs = Replay(prov, r2, c2, log).docs
<1> DEFINE N == Len(log)
<1>1. N \in Nat /\ \A k \in 1..N : log[k] \in Entries
  OBVIOUS
<1>2. PICK A : IsReplay(A, prov, r1, c1, log) /\ A[N] = Replay(prov, r1, c1, log)
  BY ReplayTrace
<1>3. PICK B : IsReplay(B, prov, r2, c2, log) /\ B[N] = Replay(prov, r2, c2, log)
  BY ReplayTrace
<1> DEFINE S == {n \in 0..N : A[n].docs = B[n].docs}
<1>4. 0 \in S
  BY <1>1, <1>2, <1>3 DEF IsReplay
<1>5. ASSUME NEW n \in 0..N, n < N, n \in S
      PROVE  n + 1 \in S
  <2>1. n + 1 \in 1..N /\ (n + 1) - 1 = n /\ n + 1 \in 0..N
    BY <1>1, <1>5
  <2>2. /\ A[n + 1] = ApplyEntry(prov, r1, A[n], log[n + 1]) /\ A[n] \in Colls
        /\ B[n + 1] = ApplyEntry(prov, r2, B[n], log[n + 1]) /\ B[n] \in Colls
    BY <2>1, <1>2, <1>3 DEF IsReplay
  <2> QED
    BY <2>1, <2>2, <1>1, <1>5, EntryDocs
<1>6. \A n \in 0..N : n \in S
  <2> HIDE DEF S, N
  <2> QED
    BY <1>1, <1>4, <1>5, BoundedInduction
<1> QED
  BY <1>1, <1>2, <1>3, <1>6

(* Two sets of documents agree on an id.                                    *)
AgreeAt(d, e, i) == (i \in DOMAIN d <=> i \in DOMAIN e) /\ (i \in DOMAIN d => d[i] = e[i])

LEMMA AgreeIs ==
    ASSUME NEW d \in DocSets, NEW e \in DocSets
    PROVE  d = e <=> \A i \in Id : AgreeAt(d, e, i)
<1>1. DOMAIN d \subseteq Id /\ DOMAIN e \subseteq Id
  BY DocSetIs
<1>2. ASSUME \A i \in Id : AgreeAt(d, e, i) PROVE d = e
  <2>1. DOMAIN d = DOMAIN e
    BY <1>1, <1>2 DEF AgreeAt
  <2>2. \A i \in DOMAIN d : d[i] = e[i]
    BY <1>1, <1>2 DEF AgreeAt
  <2> QED
    BY <2>1, <2>2, SameDocs
<1> QED
  BY <1>2 DEF AgreeAt

(* The ids an entry decides on.                                             *)
Decides(e, i) ==
    \/ e.op = "upsert" /\ i \in DOMAIN e.docs
    \/ e.op = "delete" /\ i = e.id

LEMMA EntryAt ==
    ASSUME NEW prov \in AllProviders, NEW ready \in BOOLEAN, NEW c1 \in Colls, NEW c2 \in Colls,
           NEW e \in Entries, NEW i \in Id
    PROVE  LET d1 == ApplyEntry(prov, ready, c1, e).docs
               d2 == ApplyEntry(prov, ready, c2, e).docs
           IN  /\ Decides(e, i) => AgreeAt(d1, d2, i)
               /\ ~Decides(e, i) => AgreeAt(d1, c1.docs, i) /\ AgreeAt(d2, c2.docs, i)
<1> DEFINE d1 == ApplyEntry(prov, ready, c1, e).docs
           d2 == ApplyEntry(prov, ready, c2, e).docs
<1>0. c1.docs \in DocSets /\ c2.docs \in DocSets
  BY CollIs
<1>1. CASE e \in Upserts
  <2>1. d1 = Over(e.docs, c1.docs) /\ d2 = Over(e.docs, c2.docs)
    BY <1>1, UpsertIs
  <2>2. e.op = "upsert" /\ e.docs \in DocSets
    BY <1>1 DEF Upserts
  <2> HIDE DEF d1, d2
  <2>3. /\ DOMAIN d1 = DOMAIN e.docs \cup DOMAIN c1.docs /\ DOMAIN d2 = DOMAIN e.docs \cup DOMAIN c2.docs
        /\ i \in DOMAIN e.docs => d1[i] = e.docs[i] /\ d2[i] = e.docs[i]
        /\ i \in DOMAIN c1.docs /\ i \notin DOMAIN e.docs => d1[i] = c1.docs[i]
        /\ i \in DOMAIN c2.docs /\ i \notin DOMAIN e.docs => d2[i] = c2.docs[i]
    BY <1>0, <2>1, <2>2, OverIs
  <2> QED
    BY <2>2, <2>3 DEF AgreeAt, Decides, d1, d2
<1>2. CASE e \in Deletes
  <2>1. d1 = Without(c1.docs, {e.id}) /\ d2 = Without(c2.docs, {e.id})
    BY <1>2, DeleteIs
  <2>2. e.op = "delete"
    BY <1>2 DEF Deletes
  <2> HIDE DEF d1, d2
  <2>3. /\ DOMAIN d1 = DOMAIN c1.docs \ {e.id} /\ DOMAIN d2 = DOMAIN c2.docs \ {e.id}
        /\ \A j \in DOMAIN c1.docs \ {e.id} : d1[j] = c1.docs[j]
        /\ \A j \in DOMAIN c2.docs \ {e.id} : d2[j] = c2.docs[j]
    <3>1. ASSUME NEW d \in DocSets
          PROVE  /\ DOMAIN Without(d, {e.id}) = DOMAIN d \ {e.id}
                 /\ \A j \in DOMAIN d \ {e.id} : Without(d, {e.id})[j] = d[j]
      BY DEF Without
    <3> QED
      BY <1>0, <2>1, <3>1
  <2> QED
    BY <2>2, <2>3 DEF AgreeAt, Decides, d1, d2
<1>3. CASE e \in Snapshots
  <2>1. d1 = c1.docs
    BY <1>3, SnapshotIs
  <2>3. d2 = c2.docs
    BY <1>3, SnapshotIs
  <2>2. e.op = "vocab"
    BY <1>3 DEF Snapshots
  <2> QED
    BY <2>1, <2>2, <2>3 DEF AgreeAt, Decides
<1> QED
  BY <1>1, <1>2, <1>3 DEF Entries

(* A log replayed over its own result leaves the documents as they are.     *)
LEMMA ReplayTwiceDocs ==
    ASSUME NEW prov \in AllProviders, NEW ready \in BOOLEAN, NEW c1 \in Colls, NEW c2 \in Colls,
           NEW log \in Seq(Entries), c2.docs = Replay(prov, ready, c1, log).docs
    PROVE  Replay(prov, ready, c2, log).docs = c2.docs
<1> DEFINE N == Len(log)
<1>1. N \in Nat /\ \A k \in 1..N : log[k] \in Entries
  OBVIOUS
<1>2. PICK A : IsReplay(A, prov, ready, c1, log) /\ A[N] = Replay(prov, ready, c1, log)
  BY ReplayTrace
<1>3. PICK B : IsReplay(B, prov, ready, c2, log) /\ B[N] = Replay(prov, ready, c2, log)
  BY ReplayTrace
<1> SUFFICES ASSUME NEW i \in Id PROVE AgreeAt(B[N].docs, c2.docs, i)
  <2>1. B[N].docs \in DocSets /\ c2.docs \in DocSets
    BY <1>3, ReplayType, CollIs
  <2> QED
    BY <2>1, <1>3, AgreeIs
<1> HIDE DEF N
<1>4. /\ \A n \in 0..N : A[n] \in Colls /\ B[n] \in Colls
      /\ A[0] = c1 /\ B[0] = c2
      /\ \A k \in 1..N : /\ A[k] = ApplyEntry(prov, ready, A[k - 1], log[k])
                         /\ B[k] = ApplyEntry(prov, ready, B[k - 1], log[k])
  BY <1>2, <1>3 DEF IsReplay, N
<1> DEFINE ok(n) == AgreeAt(B[n].docs, A[n].docs, i) \/ AgreeAt(B[n].docs, A[N].docs, i)
           S == {n \in 0..N : ok(n)}
<1>5. 0 \in S
  <2>1. B[0].docs = A[N].docs
    BY <1>2, <1>4
  <2> QED
    BY <1>1, <2>1 DEF AgreeAt
<1>6. ASSUME NEW n \in 0..N, n < N, n \in S
      PROVE  n + 1 \in S
  <2>1. n + 1 \in 1..N /\ (n + 1) - 1 = n /\ n + 1 \in 0..N
    BY <1>1, <1>6
  <2>2. /\ A[n + 1] = ApplyEntry(prov, ready, A[n], log[n + 1])
        /\ B[n + 1] = ApplyEntry(prov, ready, B[n], log[n + 1])
        /\ A[n] \in Colls /\ B[n] \in Colls /\ log[n + 1] \in Entries
    BY <2>1, <1>1, <1>4
  <2>3. /\ Decides(log[n + 1], i) => AgreeAt(B[n + 1].docs, A[n + 1].docs, i)
        /\ ~Decides(log[n + 1], i) => /\ AgreeAt(B[n + 1].docs, B[n].docs, i)
                                      /\ AgreeAt(A[n + 1].docs, A[n].docs, i)
    BY <2>2, EntryAt
  <2>4. ok(n)
    BY <1>6
  <2>5. ok(n + 1)
    BY <2>3, <2>4 DEF AgreeAt
  <2> QED
    BY <2>1, <2>5
<1>7. N \in S
  <2>1. \A n \in 0..N : n \in S
    <3> HIDE DEF S
    <3> QED
      BY <1>1, <1>5, <1>6, BoundedInduction
  <2> QED
    BY <2>1, <1>1
<1>8. AgreeAt(B[N].docs, A[N].docs, i)
  BY <1>7
<1> QED
  BY <1>2, <1>8

LEMMA EntryKind ==
    ASSUME NEW e \in Entries
    PROVE  /\ e.op \in {"upsert", "delete", "vocab"}
           /\ e.op = "upsert" => e \in Upserts
           /\ e.op = "delete" => e \in Deletes
           /\ e.op = "vocab" => e \in Snapshots
  BY DEF Entries, Upserts, Deletes, Snapshots

(* What an entry makes of the vocabulary.                                   *)
LEMMA EntryVocab ==
    ASSUME NEW prov \in AllProviders, NEW c \in Colls, NEW e \in Entries
    PROVE  /\ e.op = "upsert" => /\ Logged(e) \in Seq(Text)
                                 /\ ApplyEntry(prov, TRUE, c, e).vocab = AddDocs(prov, c.vocab, Logged(e))
           /\ e.op = "delete" => ApplyEntry(prov, TRUE, c, e).vocab = c.vocab
           /\ e.op = "vocab" => ApplyEntry(prov, TRUE, c, e).vocab = e.vocab
<1>1. ASSUME e.op = "upsert"
      PROVE  /\ Logged(e) \in Seq(Text)
             /\ ApplyEntry(prov, TRUE, c, e).vocab = AddDocs(prov, c.vocab, Logged(e))
  <2>1. e \in Upserts
    BY <1>1, EntryKind
  <2> QED
    BY <2>1, UpsertIs, LoggedIs
<1>2. ASSUME e.op = "delete" PROVE ApplyEntry(prov, TRUE, c, e).vocab = c.vocab
  <2>1. e \in Deletes
    BY <1>2, EntryKind
  <2> QED
    BY <2>1, DeleteIs
<1>3. ASSUME e.op = "vocab" PROVE ApplyEntry(prov, TRUE, c, e).vocab = e.vocab
  <2>1. ApplyEntry(prov, TRUE, c, e) = [c EXCEPT !.vocab = e.vocab, !.dirty = FALSE]
    BY <1>3 DEF ApplyEntry, ReplayImportVocab
  <2> QED
    BY <2>1 DEF Colls
<1> QED
  BY <1>1, <1>2, <1>3

(* Up to the next snapshot, terms keep their places.                        *)
LEMMA ReplayBegins ==
    ASSUME NEW prov \in AllProviders, NEW c \in Colls, NEW log \in Seq(Entries),
           NEW A, IsReplay(A, prov, TRUE, c, log),
           NEW m \in 0..Len(log), \A k \in (m + 1)..Len(log) : log[k].op # "vocab"
    PROVE  Begins(A[m].vocab.terms, A[Len(log)].vocab.terms)
<1> DEFINE N == Len(log)
           S == {n \in 0..N : n >= m => Begins(A[m].vocab.terms, A[n].vocab.terms)}
<1>1. N \in Nat /\ \A k \in 1..N : log[k] \in Entries
  OBVIOUS
<1>2. /\ \A n \in 0..N : A[n] \in Colls
      /\ \A k \in 1..N : A[k] = ApplyEntry(prov, TRUE, A[k - 1], log[k])
  BY DEF IsReplay
<1>3. \A n \in 0..N : A[n].vocab \in Vocabs /\ A[n].vocab.terms \in TermSeqs
  BY <1>2, CollIs DEF Vocabs
<1> HIDE DEF N
<1>4. m \in 0..N /\ \A k \in (m + 1)..N : log[k].op # "vocab"
  BY DEF N
<1>5. Begins(A[m].vocab.terms, A[m].vocab.terms)
  BY <1>3, <1>4, BeginsChain
<1>6. 0 \in S
  BY <1>1, <1>4, <1>5
<1>7. ASSUME NEW n \in 0..N, n < N, n \in S
      PROVE  n + 1 \in S
  <2>1. n + 1 \in 1..N /\ (n + 1) - 1 = n /\ n + 1 \in 0..N
    BY <1>1, <1>7
  <2>2. CASE n + 1 <= m
    <3>1. n + 1 >= m => n + 1 = m
      BY <1>4, <2>1, <2>2
    <3> QED
      BY <1>5, <2>1, <3>1
  <2>3. CASE m < n + 1
    <3>1. n >= m /\ n + 1 \in (m + 1)..N
      BY <1>1, <1>4, <1>7, <2>3
    <3>2. Begins(A[m].vocab.terms, A[n].vocab.terms)
      BY <1>7, <3>1
    <3> DEFINE e == log[n + 1]
               v == A[n].vocab
               w == A[n + 1].vocab
    <3>3. e \in Entries /\ e.op # "vocab" /\ e.op \in {"upsert", "delete", "vocab"}
      BY <1>1, <1>4, <2>1, <3>1, EntryKind
    <3>4. w = ApplyEntry(prov, TRUE, A[n], e).vocab /\ A[n] \in Colls
      BY <1>2, <1>7, <2>1
    <3>5. v \in Vocabs /\ w \in Vocabs /\ v.terms \in TermSeqs /\ w.terms \in TermSeqs
      BY <1>3, <2>1
    <3> HIDE DEF e
    <3>6. Begins(v.terms, w.terms)
      <4>1. CASE e.op = "upsert"
        <5>1. Logged(e) \in Seq(Text) /\ w = AddDocs(prov, v, Logged(e))
          BY <3>3, <3>4, <4>1, EntryVocab
        <5> HIDE DEF v, w
        <5> QED
          BY <3>5, <5>1, AddDocsIs
      <4>2. CASE e.op = "delete"
        <5>1. w = v
          BY <3>3, <3>4, <4>2, EntryVocab
        <5> QED
          BY <3>5, <5>1, BeginsChain
      <4> QED
        BY <3>3, <4>1, <4>2
    <3>7. A[m].vocab.terms \in TermSeqs
      BY <1>3, <1>4
    <3>8. Begins(A[m].vocab.terms, A[n + 1].vocab.terms)
      BY <3>2, <3>5, <3>6, <3>7, BeginsChain
    <3> QED
      BY <2>1, <3>8
  <2> QED
    BY <1>4, <2>1, <2>2, <2>3
<1>8. N \in S
  <2>1. \A n \in 0..N : n \in S
    <3> HIDE DEF S
    <3> QED
      BY <1>1, <1>6, <1>7, BoundedInduction
  <2> QED
    BY <2>1, <1>1
<1> QED
  BY <1>4, <1>8 DEF N

(* A log replayed over its own result, or over one that goes on from there, *)
(* leaves every term its index: either a snapshot sets it again, or no text *)
(* brings a term there is room for.                                         *)
LEMMA ReplayTwiceVocab ==
    ASSUME NEW prov \in AllProviders, NEW c1 \in Colls, NEW c2 \in Colls, NEW log \in Seq(Entries),
           Begins(Replay(prov, TRUE, c1, log).vocab.terms, c2.vocab.terms)
    PROVE  \/ Same(Replay(prov, TRUE, c2, log).vocab, c2.vocab)
           \/ Same(Replay(prov, TRUE, c2, log).vocab, Replay(prov, TRUE, c1, log).vocab)
<1> DEFINE N == Len(log)
<1>1. N \in Nat /\ \A k \in 1..N : log[k] \in Entries
  OBVIOUS
<1>2. PICK A : IsReplay(A, prov, TRUE, c1, log) /\ A[N] = Replay(prov, TRUE, c1, log)
  BY ReplayTrace
<1>3. PICK B : IsReplay(B, prov, TRUE, c2, log) /\ B[N] = Replay(prov, TRUE, c2, log)
  BY ReplayTrace
<1>4. /\ \A n \in 0..N : A[n] \in Colls /\ B[n] \in Colls
      /\ A[0] = c1 /\ B[0] = c2
      /\ \A k \in 1..N : /\ A[k] = ApplyEntry(prov, TRUE, A[k - 1], log[k])
                         /\ B[k] = ApplyEntry(prov, TRUE, B[k - 1], log[k])
  BY <1>2, <1>3 DEF IsReplay
<1>5. \A n \in 0..N : A[n].vocab \in Vocabs /\ B[n].vocab \in Vocabs
  BY <1>4, CollIs
<1> DEFINE snap(n) == \E k \in (n + 1)..N : log[k].op = "vocab"
           ok(n) == Same(B[n].vocab, A[n].vocab) \/ Same(B[n].vocab, c2.vocab) \/ snap(n)
           S == {n \in 0..N : ok(n)}
<1>a. \A m \in 0..N : ~snap(m) => Begins(A[m].vocab.terms, A[N].vocab.terms)
  BY <1>2, ReplayBegins
<1> HIDE DEF N
<1>6. 0 \in S
  <2>1. Same(B[0].vocab, c2.vocab)
    BY <1>4 DEF Same
  <2> QED
    BY <1>1, <2>1
<1>7. ASSUME NEW n \in 0..N, n < N, n \in S
      PROVE  n + 1 \in S
  <2>1. n + 1 \in 1..N /\ (n + 1) - 1 = n /\ n + 1 \in 0..N /\ N \in 0..N
    BY <1>1, <1>7
  <2> DEFINE e == log[n + 1]
             v == A[n].vocab
             w == B[n].vocab
             z == c2.vocab
  <2>2. e \in Entries /\ e.op \in {"upsert", "delete", "vocab"}
    BY <1>1, <2>1, EntryKind
  <2>3. /\ A[n + 1].vocab = ApplyEntry(prov, TRUE, A[n], e).vocab
        /\ B[n + 1].vocab = ApplyEntry(prov, TRUE, B[n], e).vocab
        /\ A[n] \in Colls /\ B[n] \in Colls
    BY <1>4, <2>1
  <2>4. v \in Vocabs /\ w \in Vocabs /\ z \in Vocabs
    BY <1>5, <2>1, CollIs
  <2>5. Same(w, v) \/ Same(w, z) \/ snap(n)
    BY <1>7
  <2>6. e.op # "vocab" /\ snap(n) => snap(n + 1)
    <3> SUFFICES ASSUME e.op # "vocab", NEW k \in (n + 1)..N, log[k].op = "vocab"
                 PROVE  k \in ((n + 1) + 1)..N
      OBVIOUS
    <3> QED
      BY <1>1, <1>7
  <2> HIDE DEF e, snap
  <2>7. CASE e.op = "vocab"
    <3>1. A[n + 1].vocab = e.vocab /\ B[n + 1].vocab = e.vocab
      BY <2>2, <2>3, <2>7, EntryVocab
    <3> QED
      BY <2>1, <3>1 DEF Same
  <2>8. CASE e.op = "delete"
    <3>1. A[n + 1].vocab = v /\ B[n + 1].vocab = w
      BY <2>2, <2>3, <2>8, EntryVocab
    <3> QED
      BY <2>1, <2>5, <2>6, <2>8, <3>1
  <2>9. CASE e.op = "upsert"
    <3> DEFINE texts == Logged(e)
    <3>1. texts \in Seq(Text) /\ A[n + 1].vocab = AddDocs(prov, v, texts)
          /\ B[n + 1].vocab = AddDocs(prov, w, texts)
      BY <2>2, <2>3, <2>9, EntryVocab
    <3> HIDE DEF texts, v, w, z
    <3>2. CASE Same(w, v)
      <4>1. Same(B[n + 1].vocab, A[n + 1].vocab)
        BY <2>4, <3>1, <3>2, AddDocsSame
      <4> QED
        BY <2>1, <4>1
    <3>3. CASE Same(w, z) /\ ~snap(n + 1)
      <4>1. \A k \in 1..Len(texts) : Holds(prov, A[n + 1].vocab.terms, texts[k])
        BY <2>4, <3>1, AddDocsIs
      <4>2. Begins(A[n + 1].vocab.terms, z.terms) /\ A[n + 1].vocab.terms \in TermSeqs
            /\ z.terms \in TermSeqs
        <5>1. Begins(A[n + 1].vocab.terms, A[N].vocab.terms) /\ Begins(A[N].vocab.terms, z.terms)
          BY <1>a, <1>2, <2>1, <3>3 DEF z
        <5>2. A[n + 1].vocab.terms \in TermSeqs /\ A[N].vocab.terms \in TermSeqs /\ z.terms \in TermSeqs
          BY <1>5, <2>1, <2>4 DEF Vocabs
        <5> QED
          BY <5>1, <5>2, BeginsChain
      <4>3. \A k \in 1..Len(texts) : Holds(prov, z.terms, texts[k])
        BY <4>1, <4>2, HoldsGrows
      <4>4. \A k \in 1..Len(texts) : Holds(prov, w.terms, texts[k])
        BY <3>3, <4>3 DEF Same
      <4>5. Same(AddDocs(prov, w, texts), w)
        BY <2>4, <3>1, <4>4, AddDocsIs
      <4>6. Same(B[n + 1].vocab, c2.vocab)
        BY <3>1, <3>3, <4>5 DEF Same, z
      <4> QED
        BY <2>1, <4>6
    <3>4. CASE snap(n + 1)
      BY <2>1, <3>4
    <3> QED
      BY <2>5, <2>6, <2>9, <3>2, <3>3, <3>4
  <2> QED
    BY <2>2, <2>7, <2>8, <2>9
<1>8. N \in S
  <2>1. \A n \in 0..N : n \in S
    <3> HIDE DEF S
    <3> QED
      BY <1>1, <1>6, <1>7, BoundedInduction
  <2> QED
    BY <2>1, <1>1
<1>9. Same(B[N].vocab, A[N].vocab) \/ Same(B[N].vocab, c2.vocab)
  BY <1>1, <1>8
<1> QED
  BY <1>2, <1>3, <1>9 DEF Same

(* The fixed model of a stateless provider is never touched.                *)
LEMMA ReplayStateless ==
    ASSUME NEW c \in Colls, NEW log \in Seq(Entries),
           \A k \in 1..Len(log) : log[k].op # "vocab"
    PROVE  Replay("onnx", TRUE, c, log).vocab = c.vocab
<1> DEFINE N == Len(log)
           prov == "onnx"
<1>1. N \in Nat /\ prov \in AllProviders /\ \A k \in 1..N : log[k] \in Entries
  BY DEF AllProviders
<1>2. PICK A : IsReplay(A, prov, TRUE, c, log) /\ A[N] = Replay(prov, TRUE, c, log)
  BY <1>1, ReplayTrace
<1> DEFINE S == {n \in 0..N : A[n].vocab = c.vocab}
<1>3. 0 \in S
  BY <1>1, <1>2 DEF IsReplay
<1>4. ASSUME NEW n \in 0..N, n < N, n \in S
      PROVE  n + 1 \in S
  <2>1. n + 1 \in 1..N /\ (n + 1) - 1 = n /\ n + 1 \in 0..N
    BY <1>1, <1>4
  <2>2. /\ A[n + 1].vocab = ApplyEntry(prov, TRUE, A[n], log[n + 1]).vocab /\ A[n] \in Colls
        /\ log[n + 1] \in Entries /\ log[n + 1].op \in {"upsert", "delete"} /\ A[n].vocab = c.vocab
    BY <2>1, <1>1, <1>2, <1>4, EntryKind DEF IsReplay
  <2>3. A[n].vocab \in Vocabs
    BY <2>2, CollIs
  <2> DEFINE e == log[n + 1]
             v == A[n].vocab
  <2> HIDE DEF e
  <2>4. CASE e.op = "upsert"
    <3>1. Logged(e) \in Seq(Text) /\ A[n + 1].vocab = AddDocs(prov, v, Logged(e))
      BY <1>1, <2>2, <2>4, EntryVocab DEF e
    <3> HIDE DEF v
    <3>2. AddDocs(prov, v, Logged(e)) = v
      BY <1>1, <2>3, <3>1, AddDocsIs DEF v
    <3> QED
      BY <2>1, <2>2, <3>1, <3>2 DEF v
  <2>5. CASE e.op = "delete"
    <3>1. A[n + 1].vocab = v
      BY <1>1, <2>2, <2>5, EntryVocab DEF e
    <3> QED
      BY <2>1, <2>2, <3>1
  <2> QED
    BY <2>2, <2>4, <2>5 DEF e
<1>5. N \in S
  <2> HIDE DEF S, N
  <2>1. \A n \in 0..N : n \in S
    BY <1>1, <1>3, <1>4, BoundedInduction
  <2> QED
    BY <1>1, <2>1
<1> QED
  BY <1>2, <1>5

(* What is kept for a missing provider is what it would have had.           *)
LEMMA ReplayLate ==
    ASSUME NEW prov \in AllProviders, NEW c1 \in Colls, NEW c2 \in Colls,
           NEW log \in Seq(Entries), \A k \in 1..Len(log) : log[k].op # "upsert",
           StateIn(c2.pending) = c1.vocab
    PROVE  StateIn(Replay(prov, FALSE, c2, log).pending) = Replay(prov, TRUE, c1, log).vocab
<1> DEFINE N == Len(log)
<1>1. N \in Nat /\ \A k \in 1..N : log[k] \in Entries
  OBVIOUS
<1>2. PICK A : IsReplay(A, prov, TRUE, c1, log) /\ A[N] = Replay(prov, TRUE, c1, log)
  BY ReplayTrace
<1>3. PICK B : IsReplay(B, prov, FALSE, c2, log) /\ B[N] = Replay(prov, FALSE, c2, log)
  BY ReplayTrace
<1> DEFINE S == {n \in 0..N : StateIn(B[n].pending) = A[n].vocab}
<1>4. 0 \in S
  BY <1>1, <1>2, <1>3 DEF IsReplay
<1>5. ASSUME NEW n \in 0..N, n < N, n \in S
      PROVE  n + 1 \in S
  <2>1. n + 1 \in 1..N /\ (n + 1) - 1 = n /\ n + 1 \in 0..N
    BY <1>1, <1>5
  <2> DEFINE e == log[n + 1]
  <2>2. /\ A[n + 1] = ApplyEntry(prov, TRUE, A[n], e) /\ A[n] \in Colls
        /\ B[n + 1] = ApplyEntry(prov, FALSE, B[n], e) /\ B[n] \in Colls
        /\ e \in Entries /\ e.op \in {"delete", "vocab"}
        /\ StateIn(B[n].pending) = A[n].vocab
    BY <2>1, <1>1, <1>2, <1>3, <1>5, EntryKind DEF IsReplay
  <2> HIDE DEF e
  <2>3. CASE e.op = "vocab"
    <3>1. A[n + 1].vocab = e.vocab
      <4>1. ApplyEntry(prov, TRUE, A[n], e).vocab = e.vocab
        BY <2>2, <2>3, EntryVocab
      <4> QED
        BY <2>2, <4>1
    <3>2. B[n + 1] = [B[n] EXCEPT !.pending = {e.vocab}]
      BY <2>2, <2>3 DEF ApplyEntry, ReplayImportVocab
    <3>3. B[n + 1].pending = {e.vocab}
      BY <2>2, <3>2 DEF Colls
    <3>4. StateIn({e.vocab}) = e.vocab
      BY DEF StateIn
    <3> QED
      BY <2>1, <3>1, <3>3, <3>4
  <2>4. CASE e.op = "delete"
    <3>1. e \in Deletes
      BY <2>2, <2>4, EntryKind
    <3>2. A[n + 1].vocab = A[n].vocab
      <4>1. ApplyEntry(prov, TRUE, A[n], e).vocab = A[n].vocab
        BY <2>2, <2>4, EntryVocab
      <4> QED
        BY <2>2, <4>1
    <3>3. B[n + 1].pending = B[n].pending
      <4>1. ApplyEntry(prov, FALSE, B[n], e) = [B[n] EXCEPT !.docs = Without(@, {e.id})]
        BY <2>4 DEF ApplyEntry
      <4> QED
        BY <2>2, <4>1 DEF Colls
    <3> QED
      BY <2>1, <2>2, <3>2, <3>3
  <2> QED
    BY <2>2, <2>3, <2>4
<1>6. N \in S
  <2> HIDE DEF S, N
  <2>1. \A n \in 0..N : n \in S
    BY <1>1, <1>4, <1>5, BoundedInduction
  <2> QED
    BY <1>1, <2>1
<1> QED
  BY <1>2, <1>3, <1>6

(* What is kept when the provider is there, and when there is no snapshot.  *)
LEMMA ReplayPending ==
    ASSUME NEW prov \in AllProviders, NEW ready \in BOOLEAN, NEW c \in Colls,
           NEW log \in Seq(Entries),
           ready \/ \A k \in 1..Len(log) : log[k].op # "vocab"
    PROVE  Replay(prov, ready, c, log).pending = c.pending
<1> DEFINE N == Len(log)
<1>1. N \in Nat /\ \A k \in 1..N : log[k] \in Entries
  OBVIOUS
<1>2. PICK A : IsReplay(A, prov, ready, c, log) /\ A[N] = Replay(prov, ready, c, log)
  BY ReplayTrace
<1> DEFINE S == {n \in 0..N : A[n].pending = c.pending}
<1>3. 0 \in S
  BY <1>1, <1>2 DEF IsReplay
<1>4. ASSUME NEW n \in 0..N, n < N, n \in S
      PROVE  n + 1 \in S
  <2>1. n + 1 \in 1..N /\ (n + 1) - 1 = n /\ n + 1 \in 0..N
    BY <1>1, <1>4
  <2> DEFINE e == log[n + 1]
  <2>2. /\ A[n + 1] = ApplyEntry(prov, ready, A[n], e) /\ A[n] \in Colls
        /\ e \in Entries /\ A[n].pending = c.pending
        /\ ready \/ e.op # "vocab"
    BY <2>1, <1>1, <1>2, <1>4 DEF IsReplay
  <2>3. e.op \in {"upsert", "delete", "vocab"}
    BY <2>2, EntryKind
  <2> HIDE DEF e
  <2>4. CASE e.op = "vocab"
    <3>1. A[n + 1] = [A[n] EXCEPT !.vocab = e.vocab, !.dirty = FALSE]
      BY <2>2, <2>4 DEF ApplyEntry, ReplayImportVocab
    <3>2. A[n + 1].pending = A[n].pending
      BY <2>2, <3>1 DEF Colls
    <3> QED
      BY <2>1, <2>2, <3>2
  <2>5. CASE e.op = "delete"
    <3>1. e \in Deletes
      BY <2>2, <2>5, EntryKind
    <3>2. A[n + 1].pending = A[n].pending
      BY <2>2, <3>1, DeleteKeeps
    <3> QED
      BY <2>1, <2>2, <3>2
  <2>6. CASE e.op = "upsert"
    <3>1. e \in Upserts
      BY <2>2, <2>6, EntryKind
    <3>2. A[n + 1].pending = A[n].pending
      BY <2>2, <3>1, UpsertIs
    <3> QED
      BY <2>1, <2>2, <3>2
  <2> QED
    BY <2>3, <2>4, <2>5, <2>6
<1>5. N \in S
  <2> HIDE DEF S, N
  <2>1. \A n \in 0..N : n \in S
    BY <1>1, <1>3, <1>4, BoundedInduction
  <2> QED
    BY <1>1, <2>1
<1> QED
  BY <1>2, <1>5

-----------------------------------------------------------------------------
(* The invariants.                                                          *)

Thens == {"idle", "query"}

(* What a thread remembers in the calls it can be in.                       *)
Calls ==
    [pc : {"idle", "query", "mark"}]
    \cup {r \in [pc : {"write"}, docs : DocSets, order : Seq(Id)] :
             Len(r.order) = 1 /\ r.order[1] \in DOMAIN r.docs}
    \cup [pc : {"gather", "journal", "clear"}, then : Thens]
    \cup [pc : {"fit"}, then : Thens, live : Corpora]
    \cup [pc : {"rewrite"}, then : Thens, docs : DocSets]

Files == [docs : DocSets, vocab : SUBSET Vocabs]

Typed ==
    /\ provider \in AllProviders /\ slot \in {"Ready", "Missing"}
    /\ up \in BOOLEAN /\ dirty \in BOOLEAN /\ swapped \in BOOLEAN /\ touched \in BOOLEAN
    /\ vocab \in Vocabs /\ pending \in SUBSET Vocabs /\ docs \in DocSets
    /\ thr \in [Thread -> Calls]
    /\ wal \in Seq(Entries) /\ file \in Files

(* A call under way needs the process and the provider.                     *)
Bound ==
    /\ slot = "Ready" => pending = {}
    /\ ~up \/ slot = "Missing" => Quiet

(* A crash now recovers the documents, and so does the file a checkpoint    *)
(* has swapped in, without the WAL it has not truncated.                    *)
DocsSurvive ==
    /\ up => Recovered(TRUE).docs = docs
    /\ swapped => file.docs = Recovered(TRUE).docs

(* A stateless provider has no state anywhere.                              *)
Stateless ==
    provider = "onnx" => /\ slot = "Ready" => vocab = Unfitted
                         /\ pending = {} /\ file.vocab = {}
                         /\ \A k \in 1..Len(wal) : wal[k].op # "vocab"

EmbedInv == Typed /\ Bound /\ DocsSurvive /\ Stateless

(* Text calls are kept apart.                                               *)
Alone == \A t, u \in Thread : t = u \/ thr[t].pc = "idle" \/ thr[u].pc = "idle"

(* What a refit gathered is what the collection has.                        *)
RefitsAll ==
    \A t \in Thread : /\ thr[t].pc = "fit" => thr[t].live = Texts(docs)
                      /\ thr[t].pc = "rewrite" => DOMAIN thr[t].docs = DOMAIN docs

ApartInv == Alone /\ RefitsAll

(* What documents, texts of refits and the last writes agree on.            *)
Stands(d, i) == (i \in DOMAIN d <=> i \in DOMAIN last) /\ (i \in DOMAIN d => d[i].text = last[i])
Keeps(r) ==
    \A i \in Id \ exposed :
       /\ r.pc = "fit" /\ i \in DOMAIN r.live => i \in DOMAIN last /\ r.live[i] = last[i]
       /\ r.pc = "rewrite" /\ i \in DOMAIN r.docs => i \in DOMAIN last /\ r.docs[i].text = last[i]

LastInv ==
    /\ \A i \in Id \ exposed : Stands(Recovered(TRUE).docs, i)
    /\ \A t \in Thread : Keeps(thr[t])

(* Every document is embedded with the vocabulary there is now.             *)
Fresh == \A i \in DOMAIN docs : docs[i].vec = EmbedNonzero(provider, vocab, docs[i].text)

FreshInv ==
    /\ touched => up /\ slot = "Ready"
    /\ touched /\ Quiet => dirty \/ Fresh
    /\ \A t \in Thread :
          /\ thr[t].pc \in {"journal", "clear"} => Fresh
          /\ thr[t].pc = "query" /\ touched => Fresh
          /\ thr[t].pc = "rewrite" => thr[t].docs = Embedded(provider, vocab, Texts(docs))

(* The text a thread is about to log.                                       *)
Written(t) == thr[t].docs[thr[t].order[1]].text

(* Recovery finds every term at its index.                                  *)
VocabSurvives ==
    /\ up /\ slot = "Ready" /\ (\A t \in Thread : thr[t].pc \notin {"write", "rewrite", "journal"})
          => Same(Recovered(TRUE).vocab, vocab)
    /\ \A t \in Thread : thr[t].pc = "write" =>
          Same(AddDocument(provider, Recovered(TRUE).vocab, Written(t)), vocab)
    /\ up /\ slot = "Missing" => /\ \A k \in 1..Len(wal) : wal[k].op # "upsert"
                                 /\ Same(StateIn(pending), Recovered(TRUE).vocab)
    /\ up /\ swapped /\ (\A t \in Thread : thr[t].pc # "journal") =>
          \/ Same(StateIn(file.vocab), Recovered(TRUE).vocab)
          \/ file.vocab = {vocab} /\ \E t \in Thread : thr[t].pc \in {"write", "rewrite"}

(* A stored component stands for a term of its document.                    *)
ComparableInv ==
    HasTerms(provider) =>
       /\ ~HalfRefit =>
             Comparable(Recovered(TRUE).docs, Recovered(TRUE).vocab.terms)
       /\ \A t \in Thread :
             /\ thr[t].pc = "journal" => Comparable(docs, vocab.terms)
             /\ thr[t].pc \in {"write", "rewrite"} => Comparable(thr[t].docs, vocab.terms)

-----------------------------------------------------------------------------
(* What the steps are made of.                                              *)

LEMMA InstalledIs ==
    ASSUME NEW f \in Files, NEW ready \in BOOLEAN
    PROVE  /\ Installed(f, ready) \in Colls
           /\ Installed(f, ready).docs = f.docs
           /\ ready => Installed(f, ready).vocab = StateIn(f.vocab) /\ Installed(f, ready).pending = {}
           /\ ~ready => Installed(f, ready).pending = f.vocab
<1>1. f.docs \in DocSets /\ f.vocab \in SUBSET Vocabs
  BY DEF Files
<1>2. StateIn(f.vocab) \in Vocabs
  BY <1>1, UnfittedType DEF StateIn
<1>3. (f.vocab = {} /\ DOMAIN f.docs # {}) \in BOOLEAN
  OBVIOUS
<1>4. CASE ready
  BY <1>1, <1>2, <1>3, <1>4 DEF Installed, Colls
<1>5. CASE ~ready
  BY <1>1, UnfittedType, <1>3, <1>5 DEF Installed, Colls
<1> QED
  BY <1>4, <1>5

LEMMA RecoveredType ==
    ASSUME Typed
    PROVE  \A ready \in BOOLEAN : Recovered(ready) \in Colls
<1>1. provider \in AllProviders /\ wal \in Seq(Entries) /\ file \in Files
  BY DEF Typed
<1> QED
  BY <1>1, InstalledIs, ReplayType DEF Recovered

(* What recovery finds changes with the WAL and the file only.              *)
LEMMA RecoveredStays ==
    ASSUME UNCHANGED <<provider, wal, file>>
    PROVE  \A ready : Recovered(ready)' = Recovered(ready)
  BY DEF Recovered

LEMMA RecoveredLogs ==
    ASSUME Typed, NEW e \in Entries, Log(e), UNCHANGED <<provider, file>>
    PROVE  /\ ~swapped /\ wal' \in Seq(Entries) /\ Recovered(TRUE) \in Colls
           /\ wal' = Append(wal, e)
           /\ Recovered(TRUE)' = ApplyEntry(provider, TRUE, Recovered(TRUE), e)
           /\ \A k \in 1..Len(wal') : wal'[k] = e \/ (k \in 1..Len(wal) /\ wal'[k] = wal[k])
<1>1. provider \in AllProviders /\ wal \in Seq(Entries) /\ file \in Files
  BY DEF Typed
<1>2. ~swapped /\ wal' = Append(wal, e)
  BY DEF Log
<1> DEFINE c == Installed(file, TRUE)
<1>3. c \in Colls
  BY <1>1, InstalledIs
<1>4. Recovered(TRUE) = Replay(provider, TRUE, c, wal)
      /\ Recovered(TRUE)' = Replay(provider, TRUE, c, Append(wal, e))
  BY <1>2 DEF Recovered
<1> HIDE DEF c
<1>5. \A k \in 1..Len(wal') : wal'[k] = e \/ (k \in 1..Len(wal) /\ wal'[k] = wal[k])
  BY <1>1, <1>2
<1>6. /\ Append(wal, e) \in Seq(Entries)
      /\ Replay(provider, TRUE, c, wal) \in Colls
      /\ Replay(provider, TRUE, c, Append(wal, e)) =
            ApplyEntry(provider, TRUE, Replay(provider, TRUE, c, wal), e)
  BY <1>1, <1>3, ReplayAppend
<1> QED
  BY <1>2, <1>4, <1>5, <1>6

LEMMA CallIs ==
    ASSUME NEW r \in Calls
    PROVE  /\ r.pc \in {"idle", "query", "mark", "write", "gather", "journal", "clear", "fit", "rewrite"}
           /\ r.pc = "write" => /\ r.docs \in DocSets /\ r.order \in Seq(Id)
                                /\ Len(r.order) = 1 /\ r.order[1] \in DOMAIN r.docs
           /\ r.pc \in {"gather", "journal", "clear", "fit", "rewrite"} => r.then \in Thens
           /\ r.pc = "fit" => r.live \in Corpora
           /\ r.pc = "rewrite" => r.docs \in DocSets
<1>1. CASE r \in [pc : {"idle", "query", "mark"}]
  BY <1>1
<1>2. CASE r \in {q \in [pc : {"write"}, docs : DocSets, order : Seq(Id)] :
                     Len(q.order) = 1 /\ q.order[1] \in DOMAIN q.docs}
  BY <1>2
<1>3. CASE r \in [pc : {"gather", "journal", "clear"}, then : Thens]
  BY <1>3
<1>4. CASE r \in [pc : {"fit"}, then : Thens, live : Corpora]
  BY <1>4
<1>5. CASE r \in [pc : {"rewrite"}, then : Thens, docs : DocSets]
  BY <1>5
<1> QED
  BY <1>1, <1>2, <1>3, <1>4, <1>5 DEF Calls

LEMMA BecomeIs ==
    ASSUME Typed, NEW t \in Thread, NEW r \in Calls, Become(t, r)
    PROVE  thr' \in [Thread -> Calls] /\ thr'[t] = r
           /\ \A x \in Thread : x # t => thr'[x] = thr[x]
  BY DEF Typed, Become

(* One document is folded in.                                               *)
FoldStep(prov, acc, d) ==
    LET v == AddDocument(prov, acc.vocab, d[2])
    IN  [vocab |-> v, docs |-> Over([i \in {d[1]} |->
            [text |-> d[2], vec |-> EmbedNonzero(prov, v, d[2])]], acc.docs)]

LEMMA FoldOne ==
    ASSUME NEW prov, NEW base, NEW d
    PROVE  FoldLeft(LAMBDA acc, x : FoldStep(prov, acc, x), base, <<d>>) = FoldStep(prov, base, d)
<1> DEFINE IsSol(g) == g = [S \in SUBSET {1} |-> IF S = {} THEN base
                              ELSE FoldStep(prov, g[S \ {Max(S)}], <<d>>[Max(S)])]
           g0 == CHOOSE g : IsSol(g)
           f == [S \in SUBSET {1} |-> IF S = {} THEN base ELSE FoldStep(prov, base, d)]
<1>1. /\ \A S \in SUBSET {1} : S = {} \/ S = {1}
      /\ {1} \ {1} = {} /\ {1} # {} /\ {} \in SUBSET {1} /\ {1} \in SUBSET {1}
  OBVIOUS
<1>2. Max({1}) = 1
  BY DEF Max
<1>3. IsSol(f)
  <2>1. f[{}] = base
    OBVIOUS
  <2>2. \A S \in SUBSET {1} : S # {} =>
           FoldStep(prov, base, d) = FoldStep(prov, f[S \ {Max(S)}], <<d>>[Max(S)])
    <3> SUFFICES ASSUME NEW S \in SUBSET {1}, S # {}
                 PROVE  f[S \ {Max(S)}] = base /\ <<d>>[Max(S)] = d
      OBVIOUS
    <3>1. S = {1}
      BY <1>1
    <3>2. Max(S) = 1 /\ S \ {Max(S)} = {}
      BY <1>1, <1>2, <3>1
    <3>3. <<d>>[1] = d
      OBVIOUS
    <3>4. f[S \ {Max(S)}] = base
      BY <2>1, <3>2
    <3>5. <<d>>[Max(S)] = d
      BY <3>2, <3>3
    <3> QED
      BY <3>4, <3>5
  <2> DEFINE h == [S \in SUBSET {1} |-> IF S = {} THEN base
                     ELSE FoldStep(prov, f[S \ {Max(S)}], <<d>>[Max(S)])]
  <2>3. \A S \in SUBSET {1} : f[S] = h[S]
    BY <2>2
  <2> QED
    BY <2>3
<1>4. IsSol(g0)
  BY <1>3
<1>5. FoldLeft(LAMBDA acc, x : FoldStep(prov, acc, x), base, <<d>>) = g0[{1}]
  <2>1. DOMAIN <<d>> = {1}
    OBVIOUS
  <2> QED
    BY <2>1 DEF FoldLeft, MapThenFoldSet
<1> HIDE DEF g0
<1>6. g0[{}] = base
  BY <1>1, <1>4
<1>7. g0[{1}] = FoldStep(prov, g0[{1} \ {Max({1})}], <<d>>[Max({1})])
  <2> DEFINE T == {1}
  <2>1. T \in SUBSET {1} /\ T # {}
    BY <1>1
  <2> HIDE DEF T
  <2>2. g0[T] = FoldStep(prov, g0[T \ {Max(T)}], <<d>>[Max(T)])
    BY <1>4, <2>1
  <2> QED
    BY <2>2 DEF T
<1>8. {1} \ {Max({1})} = {} /\ <<d>>[Max({1})] = d
  BY <1>2
<1> QED
  BY <1>5, <1>6, <1>7, <1>8

(* upsert_text_batch folds in and embeds.                                   *)
LEMMA FoldInIs ==
    ASSUME Typed, NEW t \in Thread, NEW b \in Batches, FoldIn(t, b)
    PROVE  \E i \in Id, x \in Text, r \in Calls :
              /\ Become(t, r) /\ r.pc = "write" /\ r.order[1] = i
              /\ DOMAIN r.docs = {i}
              /\ r.docs[i] = [text |-> x, vec |-> EmbedNonzero(provider, vocab', x)]
              /\ vocab' = AddDocument(provider, vocab, x)
<1>1. PICK d \in Id \X Text : b = <<d>>
  BY DEF Batches
<1>2. PICK i \in Id, x \in Text : d[1] = i /\ d[2] = x
  OBVIOUS
<1> DEFINE base == [vocab |-> vocab, docs |-> [j \in {} |-> 0]]
           all == FoldStep(provider, base, d)
           order == [k \in DOMAIN b |-> b[k][1]]
           r == [pc |-> "write", docs |-> all.docs, order |-> order]
           one == [j \in {d[1]} |-> [text |-> d[2], vec |-> EmbedNonzero(provider, vocab', d[2])]]
<1>3. FoldLeft(LAMBDA acc, y : FoldStep(provider, acc, y), base, b) = all
  BY <1>1, FoldOne
<1>4. vocab' = all.vocab /\ Become(t, r)
  BY <1>3 DEF FoldIn, FoldStep
<1>5. /\ provider \in AllProviders /\ vocab \in Vocabs
  BY DEF Typed
<1>6. vocab' = AddDocument(provider, vocab, x) /\ vocab' \in Vocabs
  BY <1>2, <1>4, <1>5, AddDocumentIs DEF FoldStep
<1>7. all.docs = Over(one, [j \in {} |-> 0])
  BY <1>2, <1>6 DEF FoldStep
<1>8. one \in DocSets /\ DOMAIN one = {i}
      /\ one[i] = [text |-> x, vec |-> EmbedNonzero(provider, vocab', x)]
  <2>1. EmbedNonzero(provider, vocab', x) \in Vecs
    BY <1>5, <1>6, EmbedNonzeroIs
  <2>2. [text |-> x, vec |-> EmbedNonzero(provider, vocab', x)] \in Docs
    BY <2>1 DEF Docs
  <2> QED
    BY <1>2, <2>2, DocSetIs
<1>9. order \in Seq(Id) /\ Len(order) = 1 /\ order[1] = i
  <2> DEFINE n == 1
  <2>1. DOMAIN b = 1..n /\ b[1] = d
    BY <1>1
  <2>2. order \in [1..n -> Id] /\ order[1] = i /\ n \in Nat
    BY <1>2, <2>1
  <2> HIDE DEF order, n
  <2>3. order \in Seq(Id) /\ Len(order) = n
    BY <2>2
  <2> QED
    BY <2>2, <2>3 DEF n
<1> HIDE DEF one, order, all
<1>10. all.docs \in DocSets /\ DOMAIN all.docs = {i} /\ all.docs[i] = one[i]
  <2> DEFINE none == [j \in {} |-> 0]
  <2>1. none \in DocSets /\ DOMAIN none = {}
    BY EmptyDocs
  <2> HIDE DEF none
  <2>2. all.docs = Over(one, none)
    BY <1>7 DEF none
  <2>3. /\ all.docs \in DocSets /\ DOMAIN all.docs = DOMAIN one \cup DOMAIN none
        /\ \A j \in DOMAIN one : all.docs[j] = one[j]
    <3>1. /\ Over(one, none) \in DocSets /\ DOMAIN Over(one, none) = DOMAIN one \cup DOMAIN none
          /\ \A j \in DOMAIN one : Over(one, none)[j] = one[j]
      BY ONLY <1>8, <2>1, OverIs
    <3> QED
      BY <2>2, <3>1
  <2> QED
    BY <1>8, <2>1, <2>3
<1>11. r \in Calls /\ r.pc = "write" /\ r.order[1] = i /\ r.docs = all.docs
  BY <1>9, <1>10 DEF Calls
<1> HIDE DEF r
<1> QED
  BY <1>4, <1>6, <1>8, <1>10, <1>11

LEMMA SetToSeqIs ==
    ASSUME NEW S, IsFiniteSet(S)
    PROVE  /\ SetToSeq(S) \in Seq(S)
           /\ \A k \in 1..Len(SetToSeq(S)) : SetToSeq(S)[k] \in S
<1> DEFINE n == Cardinality(S)
           f == SetToSeq(S)
<1>1. n \in Nat
  BY FS_CardinalityType
<1>2. \E g \in [1..n -> S] : IsInjective(g)
  <2>1. ExistsBijection(1..n, S)
    BY FS_CardinalityType
  <2>2. PICK g : g \in Bijection(1..n, S)
    BY <2>1 DEF ExistsBijection
  <2> QED
    BY <2>2 DEF Bijection, Injection
<1>3. f \in [1..n -> S]
  BY <1>2 DEF SetToSeq
<1> HIDE DEF n, f
<1>4. f \in Seq(S) /\ Len(f) = n
  BY <1>1, <1>3
<1> QED
  BY <1>1, <1>3, <1>4 DEF f

(* Entries made of a thread's documents.                                    *)
LEMMA UpsertMade ==
    ASSUME NEW d \in DocSets, NEW order \in Seq(Id), \A k \in 1..Len(order) : order[k] \in DOMAIN d
    PROVE  [op |-> "upsert", docs |-> d, order |-> order] \in Upserts
  BY DEF Upserts

LEMMA UpsertAll ==
    ASSUME NEW d \in DocSets
    PROVE  [op |-> "upsert", docs |-> d, order |-> SetToSeq(DOMAIN d)] \in Upserts
<1> DEFINE S == DOMAIN d
           order == SetToSeq(S)
<1>1. S \subseteq Id /\ IsFiniteSet(S)
  BY DocSetIs, EmbedAssumption, FS_Subset
<1>2. order \in Seq(S) /\ \A k \in 1..Len(order) : order[k] \in S
  <2> HIDE DEF S
  <2> QED
    BY <1>1, SetToSeqIs
<1> HIDE DEF order
<1>3. order \in Seq(Id)
  <2> HIDE DEF S
  <2> QED
    BY <1>1, <1>2
<1>4. [op |-> "upsert", docs |-> d, order |-> order] \in Upserts
  BY <1>2, <1>3, UpsertMade
<1> QED
  BY <1>4 DEF order

(* What a logged batch of one text does to the vocabulary.                  *)
LEMMA AddDocsOne ==
    ASSUME NEW prov \in AllProviders, NEW v \in Vocabs, NEW texts \in Seq(Text), Len(texts) = 1
    PROVE  AddDocs(prov, v, texts) = AddDocument(prov, v, texts[1])
<1>1. PICK A : IsAdding(A, prov, v, texts) /\ A[Len(texts)] = AddDocs(prov, v, texts)
  BY AddTrace
<1>2. A[0] = v /\ \A k \in 1..1 : A[k] = AddDocument(prov, A[k - 1], texts[k])
  BY <1>1 DEF IsAdding
<1>3. 1 \in 1..1 /\ 1 - 1 = 0
  OBVIOUS
<1>4. A[1] = AddDocument(prov, A[0], texts[1])
  BY <1>2, <1>3
<1> QED
  BY <1>1, <1>2, <1>4

-----------------------------------------------------------------------------
(* Types, durability and the stateless provider, whatever may happen.       *)

(* A call in memory.                                                        *)
LEMMA InMemory ==
    ASSUME EmbedInv, up, slot = "Ready",
           UNCHANGED <<provider, up, slot, pending, docs, wal, file, swapped>>,
           vocab' \in Vocabs, provider = "onnx" => vocab' = vocab,
           dirty' \in BOOLEAN, touched' \in BOOLEAN, thr' \in [Thread -> Calls]
    PROVE  EmbedInv'
<1>1. Typed'
  BY DEF EmbedInv, Typed
<1>2. Bound'
  BY DEF EmbedInv, Bound
<1>3. DocsSurvive'
  <2>1. Recovered(TRUE)' = Recovered(TRUE)
    BY RecoveredStays
  <2> QED
    BY <2>1 DEF EmbedInv, DocsSurvive
<1>4. Stateless'
  BY DEF EmbedInv, Stateless
<1> QED
  BY <1>1, <1>2, <1>3, <1>4 DEF EmbedInv

(* A call that is logged and applied.                                       *)
LEMMA InLog ==
    ASSUME EmbedInv, up, NEW e \in Entries, Log(e), e.op = "vocab" => provider # "onnx",
           UNCHANGED <<provider, up, slot, vocab, pending, dirty, file, swapped, touched>>,
           docs' = ApplyEntry(provider, TRUE, Recovered(TRUE), e).docs,
           thr' \in [Thread -> Calls], slot = "Ready" \/ UNCHANGED thr
    PROVE  /\ EmbedInv' /\ Recovered(TRUE) \in Colls /\ ~swapped
           /\ Recovered(TRUE)' = ApplyEntry(provider, TRUE, Recovered(TRUE), e)
<1>0. Typed /\ provider \in AllProviders
  BY DEF EmbedInv, Typed
<1>1. /\ ~swapped /\ wal' \in Seq(Entries) /\ Recovered(TRUE) \in Colls
      /\ Recovered(TRUE)' = ApplyEntry(provider, TRUE, Recovered(TRUE), e)
      /\ \A k \in 1..Len(wal') : wal'[k] = e \/ (k \in 1..Len(wal) /\ wal'[k] = wal[k])
  BY <1>0, RecoveredLogs
<1>2. ApplyEntry(provider, TRUE, Recovered(TRUE), e) \in Colls
  BY <1>0, <1>1, EntryType
<1>3. docs' \in DocSets
  BY <1>2 DEF Colls
<1>4. Typed'
  BY <1>0, <1>1, <1>3 DEF Typed
<1>5. Bound'
  BY DEF EmbedInv, Bound, Quiet
<1>6. DocsSurvive'
  BY <1>1 DEF DocsSurvive
<1>7. Stateless'
  BY <1>1 DEF EmbedInv, Stateless
<1> QED
  BY <1>1, <1>4, <1>5, <1>6, <1>7 DEF EmbedInv

(* A thread in a call has the process and the provider.                     *)
LEMMA CallHas ==
    ASSUME EmbedInv, NEW t \in Thread, thr[t].pc # "idle"
    PROVE  up /\ slot = "Ready" /\ pending = {}
  BY DEF EmbedInv, Bound, Quiet, Typed

LEMMA FoldInKeeps ==
    ASSUME EmbedInv, NEW t \in Thread, NEW b \in Batches, FoldIn(t, b)
    PROVE  EmbedInv'
<1>1. Typed /\ provider \in AllProviders /\ vocab \in Vocabs /\ up /\ slot = "Ready"
  BY DEF EmbedInv, Typed, FoldIn, At
<1>2. PICK i \in Id, x \in Text, r \in Calls : Become(t, r) /\ vocab' = AddDocument(provider, vocab, x)
  BY <1>1, FoldInIs
<1>3. vocab' \in Vocabs /\ (provider = "onnx" => vocab' = vocab)
  BY <1>1, <1>2, AddDocumentIs
<1>4. thr' \in [Thread -> Calls]
  BY <1>1, <1>2, BecomeIs
<1>5. UNCHANGED <<provider, up, slot, pending, docs, wal, file, swapped>>
      /\ dirty' \in BOOLEAN /\ touched' \in BOOLEAN
  BY <1>1 DEF FoldIn, Typed
<1> QED
  BY <1>1, <1>3, <1>4, <1>5, InMemory

LEMMA RejectBatchKeeps ==
    ASSUME EmbedInv, NEW t \in Thread, NEW x \in Text, RejectBatch(t, x)
    PROVE  EmbedInv'
<1>1. Typed /\ provider \in AllProviders /\ vocab \in Vocabs /\ up /\ slot = "Ready"
  BY DEF EmbedInv, Typed, RejectBatch, At
<1>2. vocab' = AddDocument(provider, vocab, x)
  BY DEF RejectBatch
<1>3. vocab' \in Vocabs /\ (provider = "onnx" => vocab' = vocab)
  BY <1>1, <1>2, AddDocumentIs
<1>4. UNCHANGED <<provider, up, slot, pending, docs, wal, file, swapped>>
      /\ dirty' \in BOOLEAN /\ touched' \in BOOLEAN /\ thr' \in [Thread -> Calls]
  BY <1>1 DEF RejectBatch, Typed
<1> QED
  BY <1>1, <1>3, <1>4, InMemory

(* The calls that change a thread's place and a mark.                       *)
LEMMA PlaceKeeps ==
    ASSUME EmbedInv, up, slot = "Ready", NEW t \in Thread, NEW r \in Calls, Become(t, r),
           UNCHANGED <<provider, up, slot, vocab, pending, docs, wal, file, swapped>>,
           dirty' \in BOOLEAN, touched' \in BOOLEAN
    PROVE  EmbedInv'
<1>1. thr' \in [Thread -> Calls] /\ vocab' \in Vocabs
  BY BecomeIs DEF EmbedInv, Typed
<1> QED
  BY <1>1, InMemory

LEMMA MarkDirtyKeeps ==
    ASSUME EmbedInv, NEW t \in Thread, MarkDirty(t)
    PROVE  EmbedInv'
<1>1. up /\ slot = "Ready"
  BY CallHas DEF MarkDirty, At
<1>2. Idle \in Calls
  BY DEF Idle, Calls
<1> QED
  BY <1>1, <1>2, PlaceKeeps DEF MarkDirty

LEMMA StartRefitKeeps ==
    ASSUME EmbedInv, NEW t \in Thread, StartRefit(t)
    PROVE  EmbedInv'
<1>1. up /\ slot = "Ready"
  BY DEF StartRefit, At
<1>2. [pc |-> "gather", then |-> "idle"] \in Calls
  BY DEF Calls, Thens
<1> QED
  BY <1>1, <1>2, PlaceKeeps DEF StartRefit, EmbedInv, Typed

LEMMA StartSearchKeeps ==
    ASSUME EmbedInv, NEW t \in Thread, StartSearch(t)
    PROVE  EmbedInv'
<1> DEFINE r == IF dirty THEN [pc |-> "gather", then |-> "query"] ELSE [pc |-> "query"]
<1>1. up /\ slot = "Ready"
  BY DEF StartSearch, At
<1>2. r \in Calls
  BY DEF Calls, Thens
<1>3. /\ Become(t, r) /\ dirty' = FALSE
      /\ UNCHANGED <<provider, up, slot, vocab, pending, docs, wal, file, swapped, touched>>
  BY DEF StartSearch
<1> HIDE DEF r
<1>4. dirty' \in BOOLEAN /\ touched' \in BOOLEAN
  BY <1>3 DEF EmbedInv, Typed
<1> QED
  BY <1>1, <1>2, <1>3, <1>4, PlaceKeeps

LEMMA GatherKeeps ==
    ASSUME EmbedInv, NEW t \in Thread, Gather(t)
    PROVE  EmbedInv'
<1> DEFINE r == IF DOMAIN docs = {} THEN [pc |-> thr[t].then]
                ELSE [pc |-> "fit", then |-> thr[t].then, live |-> Texts(docs)]
<1>1. up /\ slot = "Ready"
  BY CallHas DEF Gather, At
<1>2. thr[t] \in Calls /\ docs \in DocSets /\ thr[t].pc = "gather"
  BY DEF EmbedInv, Typed, Gather, At
<1>3. thr[t].then \in Thens /\ Texts(docs) \in Corpora
  BY <1>2, CallIs, TextsIs
<1>4. r \in Calls
  BY <1>3 DEF Calls, Thens
<1>5. /\ Become(t, r)
      /\ UNCHANGED <<provider, up, slot, vocab, pending, dirty, docs, wal, file, swapped, touched>>
  BY DEF Gather
<1> HIDE DEF r
<1>6. dirty' \in BOOLEAN /\ touched' \in BOOLEAN
  BY <1>5 DEF EmbedInv, Typed
<1> QED
  BY <1>1, <1>4, <1>5, <1>6, PlaceKeeps

(* Fitting, and what is then to be logged.                                  *)
LEMMA FitAndEmbedIs ==
    ASSUME EmbedInv, NEW t \in Thread, FitAndEmbed(t)
    PROVE  /\ EmbedInv' /\ vocab' = Fit(provider, thr[t].live) /\ vocab' \in Vocabs
           /\ thr[t].live \in Corpora /\ thr[t].then \in Thens
           /\ thr' \in [Thread -> Calls]
           /\ thr'[t] = [pc |-> "rewrite", then |-> thr[t].then,
                         docs |-> Embedded(provider, vocab', thr[t].live)]
           /\ \A x \in Thread : x # t => thr'[x] = thr[x]
<1> DEFINE r == [pc |-> "rewrite", then |-> thr[t].then,
                 docs |-> Embedded(provider, vocab', thr[t].live)]
<1>1. Typed /\ provider \in AllProviders /\ thr[t] \in Calls /\ thr[t].pc = "fit"
  BY DEF EmbedInv, Typed, FitAndEmbed, At
<1>2. up /\ slot = "Ready"
  BY <1>1, CallHas
<1>3. thr[t].then \in Thens /\ thr[t].live \in Corpora
  BY <1>1, CallIs
<1>4. vocab' = Fit(provider, thr[t].live)
  BY DEF FitAndEmbed
<1>5. vocab' \in Vocabs /\ (provider = "onnx" => vocab' = Unfitted)
  BY <1>1, <1>3, <1>4, FitType
<1>6. provider = "onnx" => vocab' = vocab
  BY <1>2, <1>5 DEF EmbedInv, Stateless
<1>7. Embedded(provider, vocab', thr[t].live) \in DocSets
  BY <1>1, <1>3, <1>5, EmbeddedIs
<1>8. r \in Calls /\ Become(t, r)
  BY <1>3, <1>7 DEF Calls, FitAndEmbed
<1> HIDE DEF r
<1>9. thr' \in [Thread -> Calls] /\ thr'[t] = r /\ \A x \in Thread : x # t => thr'[x] = thr[x]
  BY <1>1, <1>8, BecomeIs
<1>10. UNCHANGED <<provider, up, slot, pending, docs, wal, file, swapped>>
      /\ dirty' \in BOOLEAN /\ touched' \in BOOLEAN
  BY <1>1 DEF FitAndEmbed, Typed
<1>11. EmbedInv'
  BY <1>2, <1>5, <1>6, <1>9, <1>10, InMemory
<1> QED
  BY <1>3, <1>4, <1>5, <1>9, <1>11 DEF r

LEMMA RewriteFailsKeeps ==
    ASSUME EmbedInv, NEW t \in Thread, RewriteFails(t)
    PROVE  EmbedInv'
<1>1. up /\ slot = "Ready"
  BY CallHas DEF RewriteFails, At
<1>2. Idle \in Calls
  BY DEF Idle, Calls
<1> QED
  BY <1>1, <1>2, PlaceKeeps DEF RewriteFails, EmbedInv, Typed

LEMMA ClearDirtyKeeps ==
    ASSUME EmbedInv, NEW t \in Thread, ClearDirty(t)
    PROVE  EmbedInv'
<1>1. up /\ slot = "Ready"
  BY CallHas DEF ClearDirty, At
<1>2. thr[t] \in Calls /\ thr[t].pc = "clear"
  BY DEF EmbedInv, Typed, ClearDirty, At
<1>3. [pc |-> thr[t].then] \in Calls
  BY <1>2, CallIs DEF Calls, Thens
<1> QED
  BY <1>1, <1>3, PlaceKeeps DEF ClearDirty, EmbedInv, Typed

LEMMA QueryKeeps ==
    ASSUME EmbedInv, NEW t \in Thread, Query(t)
    PROVE  EmbedInv'
<1>1. up /\ slot = "Ready"
  BY CallHas DEF Query, At
<1>2. Idle \in Calls
  BY DEF Idle, Calls
<1> QED
  BY <1>1, <1>2, PlaceKeeps DEF Query, EmbedInv, Typed

(* The calls that are logged.                                               *)
LEMMA WriteBatchIs ==
    ASSUME EmbedInv, NEW t \in Thread, WriteBatch(t)
    PROVE  /\ EmbedInv' /\ Recovered(TRUE) \in Colls /\ ~swapped
           /\ thr[t].docs \in DocSets /\ Written(t) \in Text
           /\ docs' = Over(thr[t].docs, docs)
           /\ Recovered(TRUE)'.docs = Over(thr[t].docs, Recovered(TRUE).docs)
           /\ Recovered(TRUE)'.vocab = AddDocument(provider, Recovered(TRUE).vocab, Written(t))
           /\ thr'[t] = [pc |-> "mark"] /\ \A x \in Thread : x # t => thr'[x] = thr[x]
<1> DEFINE d == thr[t].docs
           order == thr[t].order
           e == [op |-> "upsert", docs |-> d, order |-> order]
<1>1. Typed /\ provider \in AllProviders /\ thr[t] \in Calls /\ thr[t].pc = "write"
  BY DEF EmbedInv, Typed, WriteBatch, At
<1>2. up /\ slot = "Ready"
  BY <1>1, CallHas
<1>3. d \in DocSets /\ order \in Seq(Id) /\ Len(order) = 1 /\ order[1] \in DOMAIN d
  BY <1>1, CallIs
<1> HIDE DEF d, order
<1>4. e \in Upserts /\ e \in Entries /\ e.op = "upsert" /\ e.docs = d /\ e.order = order
  <2>1. \A k \in 1..Len(order) : order[k] \in DOMAIN d
    BY <1>3
  <2> QED
    BY <1>3, <2>1, UpsertMade DEF Entries
<1>5. Logged(e) \in Seq(Text) /\ Len(Logged(e)) = 1 /\ Logged(e)[1] = Written(t)
  <2>1. Logged(e) \in Seq(Text)
    BY <1>4, LoggedIs
  <2>2. DOMAIN order = 1..1
    BY <1>3
  <2>3. Logged(e) = [k \in 1..1 |-> d[order[k]].text]
    BY <1>4, <2>2 DEF Logged
  <2> HIDE DEF e
  <2>4. Len(Logged(e)) = 1
    BY <2>1, <2>3
  <2>5. Logged(e)[1] = d[order[1]].text
    BY <2>3
  <2> QED
    BY <2>1, <2>4, <2>5 DEF Written, d, order
<1>6. /\ Log(e) /\ Become(t, [pc |-> "mark"]) /\ docs' = Over(d, docs)
      /\ UNCHANGED <<provider, up, slot, vocab, pending, dirty, file, swapped, touched>>
  BY DEF WriteBatch, d, order
<1> HIDE DEF e
<1>7. [pc |-> "mark"] \in Calls
  BY DEF Calls
<1>8. /\ thr' \in [Thread -> Calls] /\ thr'[t] = [pc |-> "mark"]
      /\ \A x \in Thread : x # t => thr'[x] = thr[x]
  BY <1>1, <1>6, <1>7, BecomeIs
<1>9. Recovered(TRUE) \in Colls
  BY <1>1, RecoveredType
<1> DEFINE R == Recovered(TRUE)
<1>10. /\ ApplyEntry(provider, TRUE, R, e).docs = Over(d, R.docs)
       /\ ApplyEntry(provider, TRUE, R, e).vocab = AddDocument(provider, R.vocab, Written(t))
  <2>1. R.vocab \in Vocabs
    BY <1>9, CollIs
  <2>2. ApplyEntry(provider, TRUE, R, e).vocab = AddDocs(provider, R.vocab, Logged(e))
    BY <1>1, <1>4, <1>9, EntryVocab
  <2>3. AddDocs(provider, R.vocab, Logged(e)) = AddDocument(provider, R.vocab, Written(t))
    BY <1>1, <1>5, <2>1, AddDocsOne
  <2>4. ApplyEntry(provider, TRUE, R, e).docs = Over(d, R.docs)
    BY <1>1, <1>4, <1>9, UpsertIs
  <2> QED
    BY <2>2, <2>3, <2>4
<1>11. R.docs = docs
  BY <1>2 DEF EmbedInv, DocsSurvive
<1>12. docs' = ApplyEntry(provider, TRUE, Recovered(TRUE), e).docs
  BY <1>6, <1>10, <1>11
<1>13. /\ EmbedInv' /\ Recovered(TRUE) \in Colls /\ ~swapped
       /\ Recovered(TRUE)' = ApplyEntry(provider, TRUE, Recovered(TRUE), e)
  BY <1>2, <1>4, <1>6, <1>8, <1>12, InLog
<1>14. Written(t) \in Text
  <2>1. Logged(e)[1] \in Text
    BY <1>5
  <2> QED
    BY <1>5, <2>1
<1> QED
  BY <1>3, <1>6, <1>8, <1>10, <1>13, <1>14 DEF d

LEMMA DeleteDoes ==
    ASSUME EmbedInv, NEW t \in Thread, NEW i \in Id, Delete(t, i)
    PROVE  /\ EmbedInv' /\ Recovered(TRUE) \in Colls /\ ~swapped
           /\ docs' = Without(docs, {i}) /\ UNCHANGED thr
           /\ Recovered(TRUE)'.docs = Without(Recovered(TRUE).docs, {i})
           /\ Recovered(TRUE)'.vocab = Recovered(TRUE).vocab
           /\ \A k \in 1..Len(wal') : wal'[k].op = "delete" \/ (k \in 1..Len(wal) /\ wal'[k] = wal[k])
<1> DEFINE e == [op |-> "delete", id |-> i]
           R == Recovered(TRUE)
<1>1. Typed /\ provider \in AllProviders /\ up /\ thr \in [Thread -> Calls]
  BY DEF EmbedInv, Typed, Delete, At
<1>2. e \in Deletes /\ e \in Entries /\ e.op = "delete" /\ e.id = i
  BY DEF Deletes, Entries
<1>3. /\ Log(e) /\ docs' = Without(docs, {i}) /\ UNCHANGED thr
      /\ UNCHANGED <<provider, up, slot, vocab, pending, dirty, file, swapped, touched>>
  BY DEF Delete
<1> HIDE DEF e
<1>4. R \in Colls
  BY <1>1, RecoveredType
<1>5. /\ ApplyEntry(provider, TRUE, R, e).docs = Without(R.docs, {i})
      /\ ApplyEntry(provider, TRUE, R, e).vocab = R.vocab
  <2>1. ApplyEntry(provider, TRUE, R, e).docs = Without(R.docs, {e.id})
    BY <1>1, <1>2, <1>4, DeleteIs
  <2>2. ApplyEntry(provider, TRUE, R, e).vocab = R.vocab
    BY <1>1, <1>2, <1>4, EntryVocab
  <2> QED
    BY <1>2, <2>1, <2>2
<1>6. R.docs = docs
  BY <1>1 DEF EmbedInv, DocsSurvive
<1>7. docs' = ApplyEntry(provider, TRUE, Recovered(TRUE), e).docs
  BY <1>3, <1>5, <1>6
<1>8. /\ EmbedInv' /\ Recovered(TRUE) \in Colls /\ ~swapped
      /\ Recovered(TRUE)' = ApplyEntry(provider, TRUE, Recovered(TRUE), e)
  BY <1>1, <1>2, <1>3, <1>7, InLog
<1>9. \A k \in 1..Len(wal') : wal'[k] = e \/ (k \in 1..Len(wal) /\ wal'[k] = wal[k])
  BY <1>1, <1>2, <1>3, RecoveredLogs
<1> QED
  BY <1>2, <1>3, <1>5, <1>8, <1>9

LEMMA RewriteIs ==
    ASSUME EmbedInv, NEW t \in Thread, Rewrite(t)
    PROVE  /\ EmbedInv' /\ Recovered(TRUE) \in Colls /\ ~swapped
           /\ thr[t].docs \in DocSets
           /\ docs' = Over(thr[t].docs, docs)
           /\ Recovered(TRUE)'.docs = Over(thr[t].docs, Recovered(TRUE).docs)
           /\ thr'[t] = [pc |-> "journal", then |-> thr[t].then]
           /\ \A x \in Thread : x # t => thr'[x] = thr[x]
<1> DEFINE d == thr[t].docs
           e == [op |-> "upsert", docs |-> d, order |-> SetToSeq(DOMAIN d)]
           r == [pc |-> "journal", then |-> thr[t].then]
           R == Recovered(TRUE)
<1>1. Typed /\ provider \in AllProviders /\ thr[t] \in Calls /\ thr[t].pc = "rewrite"
  BY DEF EmbedInv, Typed, Rewrite, At
<1>2. up /\ slot = "Ready"
  BY <1>1, CallHas
<1>3. d \in DocSets /\ thr[t].then \in Thens
  BY <1>1, CallIs
<1>4. /\ Log(e) /\ Become(t, r) /\ docs' = Over(d, docs)
      /\ UNCHANGED <<provider, up, slot, vocab, pending, dirty, file, swapped, touched>>
  BY DEF Rewrite
<1>5. r \in Calls
  BY <1>3 DEF Calls
<1> HIDE DEF d, r
<1>6. e \in Upserts /\ e \in Entries /\ e.op = "upsert" /\ e.docs = d
  BY <1>3, UpsertAll DEF Entries
<1> HIDE DEF e
<1>7. thr' \in [Thread -> Calls] /\ thr'[t] = r /\ \A x \in Thread : x # t => thr'[x] = thr[x]
  BY <1>1, <1>4, <1>5, BecomeIs
<1>8. R \in Colls
  BY <1>1, RecoveredType
<1>9. ApplyEntry(provider, TRUE, R, e).docs = Over(d, R.docs)
  BY <1>1, <1>6, <1>8, UpsertIs
<1>10. R.docs = docs
  BY <1>2 DEF EmbedInv, DocsSurvive
<1>11. docs' = ApplyEntry(provider, TRUE, Recovered(TRUE), e).docs
  BY <1>4, <1>9, <1>10
<1>12. /\ EmbedInv' /\ Recovered(TRUE) \in Colls /\ ~swapped
       /\ Recovered(TRUE)' = ApplyEntry(provider, TRUE, Recovered(TRUE), e)
  BY <1>2, <1>4, <1>6, <1>7, <1>11, InLog
<1> QED
  BY <1>3, <1>4, <1>7, <1>9, <1>12 DEF d, r

LEMMA JournalIs ==
    ASSUME EmbedInv, NEW t \in Thread, Journal(t)
    PROVE  /\ EmbedInv' /\ UNCHANGED docs
           /\ thr'[t] = [pc |-> "clear", then |-> thr[t].then]
           /\ \A x \in Thread : x # t => thr'[x] = thr[x]
           /\ provider = "onnx" => Recovered(TRUE)' = Recovered(TRUE)
           /\ provider # "onnx" => /\ Recovered(TRUE)'.docs = Recovered(TRUE).docs
                                   /\ Recovered(TRUE)'.vocab = vocab /\ ~swapped
<1> DEFINE e == [op |-> "vocab", vocab |-> vocab]
           r == [pc |-> "clear", then |-> thr[t].then]
           R == Recovered(TRUE)
<1>1. Typed /\ provider \in AllProviders /\ thr[t] \in Calls /\ thr[t].pc = "journal" /\ vocab \in Vocabs
  BY DEF EmbedInv, Typed, Journal, At
<1>2. up /\ slot = "Ready"
  BY <1>1, CallHas
<1>3. r \in Calls
  BY <1>1, CallIs DEF Calls
<1>4. /\ Become(t, r) /\ UNCHANGED docs
      /\ UNCHANGED <<provider, up, slot, vocab, pending, dirty, file, swapped, touched>>
      /\ provider = "onnx" => UNCHANGED wal
      /\ provider # "onnx" => Log(e)
  BY DEF Journal, Export
<1> HIDE DEF r
<1>5. thr' \in [Thread -> Calls] /\ thr'[t] = r /\ \A x \in Thread : x # t => thr'[x] = thr[x]
  BY <1>1, <1>3, <1>4, BecomeIs
<1>6. CASE provider = "onnx"
  <2>1. UNCHANGED <<provider, wal, file>>
    BY <1>4, <1>6
  <2>2. Recovered(TRUE)' = Recovered(TRUE)
    BY <2>1, RecoveredStays
  <2>3. vocab' \in Vocabs /\ vocab' = vocab /\ dirty' \in BOOLEAN /\ touched' \in BOOLEAN
    BY <1>1, <1>4 DEF Typed
  <2>4. EmbedInv'
    BY <1>2, <1>4, <1>5, <2>1, <2>3, InMemory
  <2> QED
    BY <1>4, <1>5, <1>6, <2>2, <2>4 DEF r
<1>7. CASE provider # "onnx"
  <2>1. e \in Snapshots /\ e \in Entries /\ e.op = "vocab" /\ e.vocab = vocab
    BY <1>1 DEF Snapshots, Entries
  <2> HIDE DEF e
  <2>2. R \in Colls
    BY <1>1, RecoveredType
  <2>3. ApplyEntry(provider, TRUE, R, e).vocab = vocab
    BY <1>1, <2>1, <2>2, EntryVocab
  <2>4. ApplyEntry(provider, TRUE, R, e).docs = R.docs
    BY <1>1, <2>1, <2>2, SnapshotIs
  <2>5. R.docs = docs
    BY <1>2 DEF EmbedInv, DocsSurvive
  <2>6. docs' = ApplyEntry(provider, TRUE, Recovered(TRUE), e).docs
    BY <1>4, <2>4, <2>5
  <2>7. /\ EmbedInv' /\ ~swapped
        /\ Recovered(TRUE)' = ApplyEntry(provider, TRUE, Recovered(TRUE), e)
    BY <1>2, <1>4, <1>5, <1>7, <2>1, <2>6, InLog
  <2> QED
    BY <1>4, <1>5, <1>7, <2>3, <2>4, <2>7 DEF r
<1> QED
  BY <1>6, <1>7

LEMMA StatelessRecovers ==
    ASSUME EmbedInv, provider = "onnx"
    PROVE  /\ Recovered(TRUE).vocab = Unfitted
           /\ \A ready \in BOOLEAN : Recovered(ready).pending = {}
<1>1. /\ provider \in AllProviders /\ wal \in Seq(Entries) /\ file \in Files /\ file.vocab = {}
      /\ \A k \in 1..Len(wal) : wal[k].op # "vocab"
  BY DEF EmbedInv, Typed, Stateless
<1>2. StateIn(file.vocab) = Unfitted
  BY <1>1 DEF StateIn
<1>3. \A ready \in BOOLEAN : /\ Installed(file, ready) \in Colls
                             /\ Installed(file, ready).pending = {}
  BY <1>1, InstalledIs
<1>4. Installed(file, TRUE).vocab = Unfitted
  <2>1. Installed(file, TRUE).vocab = StateIn(file.vocab)
    BY <1>1 DEF Installed
  <2> QED
    BY <1>2, <2>1
<1>5. Recovered(TRUE).vocab = Unfitted
  <2> DEFINE c == Installed(file, TRUE)
  <2>1. c \in Colls /\ c.vocab = Unfitted
    BY <1>3, <1>4
  <2> HIDE DEF c
  <2>2. Replay("onnx", TRUE, c, wal).vocab = Unfitted
    BY <1>1, <2>1, ReplayStateless
  <2> QED
    BY <2>2 DEF Recovered, c
<1>6. ASSUME NEW ready \in BOOLEAN PROVE Recovered(ready).pending = {}
  <2>1. Replay(provider, ready, Installed(file, ready), wal).pending = Installed(file, ready).pending
    BY <1>1, <1>3, ReplayPending
  <2> QED
    BY <1>3, <2>1 DEF Recovered
<1> QED
  BY <1>5, <1>6

LEMMA RecoveredParts ==
    ASSUME Typed
    PROVE  /\ Recovered(FALSE).docs = Recovered(TRUE).docs
           /\ Recovered(TRUE).pending = {}
<1>1. provider \in AllProviders /\ wal \in Seq(Entries) /\ file \in Files
  BY DEF Typed
<1> DEFINE c1 == Installed(file, TRUE)
           c2 == Installed(file, FALSE)
<1>2. c1 \in Colls /\ c2 \in Colls /\ c1.docs = file.docs /\ c2.docs = file.docs
  BY <1>1, InstalledIs
<1>3. c1.pending = {}
  BY DEF Installed
<1>4. Recovered(TRUE) = Replay(provider, TRUE, c1, wal) /\ Recovered(FALSE) = Replay(provider, FALSE, c2, wal)
  BY DEF Recovered
<1> HIDE DEF c1, c2
<1>5. \A r1, r2 \in BOOLEAN : Replay(provider, r2, c2, wal).docs = Replay(provider, r1, c1, wal).docs
  BY <1>1, <1>2, ReplayDocs
<1>6. Replay(provider, TRUE, c1, wal).pending = {}
  BY <1>1, <1>2, <1>3, ReplayPending
<1> QED
  BY <1>4, <1>5, <1>6

(* A checkpoint's file and the WAL it has the effects of.                   *)
LEMMA CheckpointIs ==
    ASSUME EmbedInv, Checkpoint
    PROVE  /\ EmbedInv' /\ Recovered(TRUE)'.docs = Recovered(TRUE).docs
           /\ file' \in Files
           /\ file'.vocab = IF slot = "Ready" THEN Export(provider, vocab) ELSE pending
           /\ Recovered(TRUE) = Replay(provider, TRUE, Installed(file, TRUE), wal)
           /\ Recovered(TRUE)' = Replay(provider, TRUE, Installed(file', TRUE), wal)
<1> DEFINE c1 == Installed(file, TRUE)
           c2 == Installed(file', TRUE)
<1>1. /\ Typed /\ Bound /\ Stateless
      /\ provider \in AllProviders /\ wal \in Seq(Entries) /\ file \in Files
      /\ docs \in DocSets /\ vocab \in Vocabs /\ pending \in SUBSET Vocabs
  BY DEF EmbedInv, Typed
<1>2. /\ up /\ ~swapped /\ swapped' = TRUE
      /\ file' = [docs |-> docs, vocab |-> IF slot = "Ready" THEN Export(provider, vocab) ELSE pending]
      /\ UNCHANGED <<provider, up, slot, vocab, pending, dirty, docs, thr, wal, touched>>
  BY DEF Checkpoint
<1>3. file' \in Files /\ file'.docs = docs
      /\ file'.vocab = IF slot = "Ready" THEN Export(provider, vocab) ELSE pending
  <2>1. Export(provider, vocab) \in SUBSET Vocabs
    BY <1>1 DEF Export
  <2> QED
    BY <1>1, <1>2, <2>1 DEF Files
<1>4. Recovered(TRUE).docs = docs
  BY <1>2 DEF EmbedInv, DocsSurvive
<1>5. c1 \in Colls /\ c2 \in Colls /\ c2.docs = docs
  BY <1>1, <1>3, InstalledIs
<1>6. Recovered(TRUE) = Replay(provider, TRUE, c1, wal) /\ Recovered(TRUE)' = Replay(provider, TRUE, c2, wal)
  BY <1>2 DEF Recovered
<1>7. Recovered(TRUE)'.docs = docs
  <2> HIDE DEF c1, c2
  <2>1. c2.docs = Replay(provider, TRUE, c1, wal).docs
    BY <1>4, <1>5, <1>6
  <2>2. Replay(provider, TRUE, c2, wal).docs = c2.docs
    BY <1>1, <1>5, <2>1, ReplayTwiceDocs
  <2> QED
    BY <1>5, <1>6, <2>2
<1>8. Typed'
  BY <1>1, <1>2, <1>3 DEF Typed
<1>9. Bound'
  BY <1>1, <1>2 DEF Bound, Quiet
<1>10. DocsSurvive'
  BY <1>2, <1>3, <1>7 DEF DocsSurvive
<1>11. Stateless'
  BY <1>1, <1>2, <1>3 DEF Stateless, Export
<1> QED
  BY <1>3, <1>4, <1>6, <1>7, <1>8, <1>9, <1>10, <1>11 DEF EmbedInv

LEMMA TruncateIs ==
    ASSUME EmbedInv, Truncate
    PROVE  /\ EmbedInv' /\ Recovered(TRUE)'.docs = Recovered(TRUE).docs
           /\ Recovered(TRUE)'.vocab = StateIn(file.vocab)
<1>1. /\ Typed /\ provider \in AllProviders /\ file \in Files
  BY DEF EmbedInv, Typed
<1>2. /\ swapped' = FALSE /\ wal' = <<>> /\ swapped /\ up
      /\ UNCHANGED <<provider, up, slot, vocab, pending, dirty, docs, thr, file, touched>>
  BY DEF Truncate
<1>3. Installed(file, TRUE) \in Colls /\ Installed(file, TRUE).docs = file.docs
      /\ Installed(file, TRUE).vocab = StateIn(file.vocab)
  <2>1. Installed(file, TRUE) \in Colls /\ Installed(file, TRUE).docs = file.docs
    BY <1>1, InstalledIs
  <2> QED
    BY <2>1 DEF Installed
<1>4. Recovered(TRUE)' = Installed(file, TRUE)
  <2>1. Recovered(TRUE)' = Replay(provider, TRUE, Installed(file, TRUE), <<>>)
    BY <1>2 DEF Recovered
  <2> QED
    BY <1>1, <1>3, <2>1, ReplayEmpty
<1>5. file.docs = Recovered(TRUE).docs /\ Recovered(TRUE).docs = docs
  BY <1>2 DEF EmbedInv, DocsSurvive
<1>6. wal' \in Seq(Entries) /\ Len(wal') = 0
  BY <1>2
<1>7. Typed'
  BY <1>1, <1>2, <1>6 DEF Typed
<1>8. Bound'
  BY <1>2 DEF EmbedInv, Bound, Quiet
<1>9. DocsSurvive'
  BY <1>2, <1>3, <1>4, <1>5 DEF DocsSurvive
<1>10. Stateless'
  BY <1>2, <1>6 DEF EmbedInv, Stateless
<1> QED
  BY <1>3, <1>4, <1>5, <1>7, <1>8, <1>9, <1>10 DEF EmbedInv

LEMMA CrashKeeps ==
    ASSUME EmbedInv, Crash
    PROVE  EmbedInv' /\ Recovered(TRUE)' = Recovered(TRUE) /\ ~up' /\ Quiet'
<1>1. /\ up' = FALSE /\ thr' = [t \in Thread |-> Idle]
      /\ vocab' = Unfitted /\ pending' = {} /\ dirty' = FALSE /\ touched' = FALSE
      /\ docs' = [i \in {} |-> 0]
      /\ UNCHANGED <<provider, slot, wal, file, swapped>>
  BY DEF Crash
<1>2. Recovered(TRUE)' = Recovered(TRUE)
  BY <1>1, RecoveredStays
<1>3. docs' \in DocSets
  BY <1>1, EmptyDocs
<1>4. Idle \in Calls /\ Idle.pc = "idle"
  BY DEF Idle, Calls
<1>5. thr' \in [Thread -> Calls] /\ Quiet'
  BY <1>1, <1>4 DEF Quiet
<1>6. Typed'
  BY <1>1, <1>3, <1>5, UnfittedType DEF EmbedInv, Typed
<1>7. Bound'
  BY <1>1, <1>5 DEF Bound
<1>8. DocsSurvive'
  BY <1>1, <1>2 DEF EmbedInv, DocsSurvive
<1>9. Stateless'
  BY <1>1 DEF EmbedInv, Stateless
<1> QED
  BY <1>1, <1>2, <1>5, <1>6, <1>7, <1>8, <1>9 DEF EmbedInv

LEMMA OpenIs ==
    ASSUME EmbedInv, Open
    PROVE  /\ EmbedInv' /\ Recovered(TRUE)' = Recovered(TRUE) /\ Quiet /\ UNCHANGED thr
           /\ \/ slot' = "Ready" /\ vocab' = Recovered(TRUE).vocab
              \/ /\ slot' = "Missing" /\ pending' = Recovered(FALSE).pending
                 /\ "late" \in mishaps' \/ \A k \in 1..Len(wal) : wal[k].op # "upsert"
<1>1. PICK ready \in BOOLEAN :
          /\ ready \/ "late" \in mishaps' \/ \A k \in DOMAIN wal : wal[k].op # "upsert"
          /\ docs' = Recovered(ready).docs /\ vocab' = Recovered(ready).vocab
          /\ pending' = Recovered(ready).pending /\ dirty' = Recovered(ready).dirty
          /\ slot' = IF ready THEN "Ready" ELSE "Missing"
  BY DEF Open, Note
<1>2. ~up /\ up' = TRUE /\ swapped' = FALSE /\ UNCHANGED <<provider, thr, wal, file, touched>>
  BY DEF Open
<1>3. Typed /\ Quiet /\ wal \in Seq(Entries)
  BY <1>2 DEF EmbedInv, Bound, Typed
<1>4. Recovered(TRUE)' = Recovered(TRUE)
  BY <1>2, RecoveredStays
<1>5. /\ Recovered(ready) \in Colls /\ Recovered(ready).docs = Recovered(TRUE).docs
      /\ ready => pending' = {}
  BY <1>1, <1>3, RecoveredType, RecoveredParts
<1>6. /\ docs' \in DocSets /\ vocab' \in Vocabs /\ pending' \in SUBSET Vocabs /\ dirty' \in BOOLEAN
  BY <1>1, <1>5, CollIs
<1>7. Typed'
  BY <1>1, <1>2, <1>3, <1>6 DEF Typed
<1>8. Bound'
  BY <1>1, <1>2, <1>3, <1>5 DEF Bound, Quiet
<1>9. DocsSurvive'
  BY <1>1, <1>2, <1>4, <1>5 DEF DocsSurvive
<1>10. Stateless'
  <2> SUFFICES ASSUME provider = "onnx"
               PROVE  (slot' = "Ready" => vocab' = Unfitted) /\ pending' = {}
    BY <1>2 DEF EmbedInv, Stateless
  <2>1. Recovered(TRUE).vocab = Unfitted /\ Recovered(ready).pending = {}
    BY StatelessRecovers
  <2> QED
    BY <1>1, <2>1
<1>11. DOMAIN wal = 1..Len(wal)
  BY <1>3
<1> QED
  BY <1>1, <1>2, <1>3, <1>4, <1>7, <1>8, <1>9, <1>10, <1>11 DEF EmbedInv

LEMMA BindEmbedderIs ==
    ASSUME EmbedInv, BindEmbedder
    PROVE  EmbedInv' /\ Recovered(TRUE)' = Recovered(TRUE) /\ Quiet
<1>1. /\ up /\ slot = "Missing" /\ slot' = "Ready" /\ pending' = {} /\ vocab' = StateIn(pending)
      /\ UNCHANGED <<provider, up, dirty, docs, thr, wal, file, swapped, touched>>
  BY DEF BindEmbedder
<1>2. Typed /\ Quiet /\ pending \in SUBSET Vocabs
  BY <1>1 DEF EmbedInv, Bound, Typed
<1>3. vocab' \in Vocabs
  BY <1>1, <1>2, UnfittedType DEF StateIn
<1>4. Recovered(TRUE)' = Recovered(TRUE)
  BY <1>1, RecoveredStays
<1>5. Typed'
  BY <1>1, <1>2, <1>3 DEF Typed
<1>6. Bound'
  BY <1>1, <1>2 DEF Bound, Quiet
<1>7. DocsSurvive'
  BY <1>1, <1>4 DEF EmbedInv, DocsSurvive
<1>8. Stateless'
  BY <1>1 DEF EmbedInv, Stateless, StateIn
<1> QED
  BY <1>2, <1>4, <1>5, <1>6, <1>7, <1>8 DEF EmbedInv

LEMMA StutterKeeps ==
    ASSUME EmbedInv, UNCHANGED vars
    PROVE  EmbedInv' /\ Recovered(TRUE)' = Recovered(TRUE)
<1>1. Recovered(TRUE)' = Recovered(TRUE)
  BY RecoveredStays DEF vars
<1>2. Typed' /\ Bound' /\ Stateless'
  BY DEF vars, EmbedInv, Typed, Bound, Stateless, Quiet
<1>3. DocsSurvive'
  BY <1>1 DEF vars, EmbedInv, DocsSurvive
<1> QED
  BY <1>1, <1>2, <1>3 DEF EmbedInv

LEMMA EmbedStarts ==
    ASSUME Init
    PROVE  EmbedInv /\ Recovered(TRUE).docs = docs /\ Recovered(TRUE).vocab = vocab
<1>1. /\ provider \in Providers /\ up = TRUE /\ slot = "Ready" /\ vocab = Unfitted /\ pending = {}
      /\ dirty = FALSE /\ docs = [i \in {} |-> 0] /\ thr = [t \in Thread |-> Idle]
      /\ wal = <<>> /\ file = [docs |-> [i \in {} |-> 0], vocab |-> {}] /\ swapped = FALSE
      /\ touched = FALSE
  BY DEF Init
<1>2. provider \in AllProviders
  BY <1>1, EmbedAssumption DEF AllProviders
<1>3. docs \in DocSets /\ file \in Files /\ file.docs = docs /\ file.vocab = {}
  BY <1>1, EmptyDocs DEF Files
<1>4. Idle \in Calls
  BY DEF Idle, Calls
<1>5. wal \in Seq(Entries) /\ Len(wal) = 0
  BY <1>1
<1>6. Typed
  BY <1>1, <1>2, <1>3, <1>4, <1>5, UnfittedType DEF Typed
<1>7. Bound
  BY <1>1 DEF Bound
<1>8. Recovered(TRUE) = Installed(file, TRUE) /\ Installed(file, TRUE).docs = docs
  <2>1. Installed(file, TRUE) \in Colls /\ Installed(file, TRUE).docs = docs
    BY <1>3, InstalledIs
  <2>2. Replay(provider, TRUE, Installed(file, TRUE), <<>>) = Installed(file, TRUE)
    BY <1>2, <2>1, ReplayEmpty
  <2> QED
    BY <1>1, <2>1, <2>2 DEF Recovered
<1>9. DocsSurvive
  BY <1>1, <1>8 DEF DocsSurvive
<1>10. Stateless
  BY <1>1, <1>3, <1>5 DEF Stateless
<1>11. Installed(file, TRUE).vocab = vocab
  BY <1>1, <1>3 DEF Installed, StateIn
<1> QED
  BY <1>6, <1>7, <1>8, <1>9, <1>10, <1>11 DEF EmbedInv

(* Every variable has its type, what recovers is what there is, and a       *)
(* stateless provider stays so, whatever happens.                           *)
LEMMA EmbedInvKept ==
    ASSUME EmbedInv, [Next]_vars
    PROVE  EmbedInv'
<1>1. ASSUME NEW t \in Thread, NEW b \in Batches, FoldIn(t, b) PROVE EmbedInv'
  BY <1>1, FoldInKeeps
<1>2. ASSUME NEW t \in Thread, NEW x \in Text, RejectBatch(t, x) PROVE EmbedInv'
  BY <1>2, RejectBatchKeeps
<1>3. ASSUME NEW t \in Thread, NEW i \in Id, Delete(t, i) PROVE EmbedInv'
  BY <1>3, DeleteDoes
<1>4. ASSUME NEW t \in Thread, WriteBatch(t) PROVE EmbedInv'
  BY <1>4, WriteBatchIs
<1>5. ASSUME NEW t \in Thread, MarkDirty(t) PROVE EmbedInv'
  BY <1>5, MarkDirtyKeeps
<1>6. ASSUME NEW t \in Thread, StartRefit(t) PROVE EmbedInv'
  BY <1>6, StartRefitKeeps
<1>7. ASSUME NEW t \in Thread, StartSearch(t) PROVE EmbedInv'
  BY <1>7, StartSearchKeeps
<1>8. ASSUME NEW t \in Thread, RefitStep(t) PROVE EmbedInv'
  <2>1. CASE Gather(t)
    BY <2>1, GatherKeeps
  <2>2. CASE FitAndEmbed(t)
    BY <2>2, FitAndEmbedIs
  <2>3. CASE Rewrite(t)
    BY <2>3, RewriteIs
  <2>4. CASE RewriteFails(t)
    BY <2>4, RewriteFailsKeeps
  <2>5. CASE Journal(t)
    BY <2>5, JournalIs
  <2>6. CASE ClearDirty(t)
    BY <2>6, ClearDirtyKeeps
  <2> QED
    BY <1>8, <2>1, <2>2, <2>3, <2>4, <2>5, <2>6 DEF RefitStep
<1>9. ASSUME NEW t \in Thread, Query(t) PROVE EmbedInv'
  BY <1>9, QueryKeeps
<1>10. CASE Checkpoint
  BY <1>10, CheckpointIs
<1>11. CASE Truncate
  BY <1>11, TruncateIs
<1>12. CASE Crash
  BY <1>12, CrashKeeps
<1>13. CASE Open
  BY <1>13, OpenIs
<1>14. CASE BindEmbedder
  BY <1>14, BindEmbedderIs
<1>15. CASE UNCHANGED vars
  BY <1>15, StutterKeeps
<1> QED
  BY <1>1, <1>2, <1>3, <1>4, <1>5, <1>6, <1>7, <1>8, <1>9, <1>10, <1>11, <1>12, <1>13,
     <1>14, <1>15 DEF Next

LEMMA EmbedInvTypes ==
    ASSUME EmbedInv
    PROVE  TypeOK
<1>1. vocab.terms \in Seq(Terms) /\ Len(vocab.terms) <= Dim
  BY DEF EmbedInv, Typed, Vocabs, TermSeqs
<1>2. ToSet(vocab.terms) \subseteq Terms
  BY <1>1 DEF ToSet
<1>3. \A i \in DOMAIN docs : docs[i].vec.idx \in (SUBSET (1..Dim)) \ {{}}
  BY DocSetIs DEF EmbedInv, Typed, Docs, Vecs
<1> QED
  BY <1>1, <1>2, <1>3 DEF TypeOK, EmbedInv, Typed, Bound

(* Whatever may happen, a vocabulary never outgrows the dimension (the room *)
(* add_document leaves, the cut a fit makes), and no document is stored     *)
(* with a zero vector (embed_nonzero's placeholder).                        *)
THEOREM EmbedTypes == Spec => []TypeOK
<1>1. Init => EmbedInv
  BY EmbedStarts
<1>2. EmbedInv /\ [Next]_vars => EmbedInv'
  BY EmbedInvKept
<1>3. EmbedInv => TypeOK
  BY EmbedInvTypes
<1> QED
  BY <1>1, <1>2, <1>3, PTL DEF Spec

-----------------------------------------------------------------------------
(* What mishaps say of a step.                                              *)

(* What has happened has happened.                                          *)
LEMMA MishapsGrow ==
    ASSUME [Next]_vars
    PROVE  mishaps \subseteq mishaps'
<1>1. ASSUME NEW m, NEW when, Note(m, when) PROVE mishaps \subseteq mishaps'
  BY <1>1 DEF Note
<1>2. ASSUME NEW t \in Thread, NEW b \in Batches, FoldIn(t, b) PROVE mishaps \subseteq mishaps'
  <2>1. Note("overlap", Overlapping(t))
    BY <1>2 DEF FoldIn
  <2> QED
    BY <2>1, <1>1
<1>3. ASSUME NEW t \in Thread, NEW x \in Text, RejectBatch(t, x) PROVE mishaps \subseteq mishaps'
  BY <1>3 DEF RejectBatch
<1>4. ASSUME NEW t \in Thread, NEW i \in Id, Delete(t, i) PROVE mishaps \subseteq mishaps'
  BY <1>4, <1>1 DEF Delete
<1>5. ASSUME NEW t \in Thread,
             WriteBatch(t) \/ MarkDirty(t) \/ StartRefit(t) \/ StartSearch(t) \/ RefitStep(t) \/ Query(t)
      PROVE  mishaps \subseteq mishaps'
  BY <1>5, <1>1 DEF WriteBatch, MarkDirty, StartRefit, StartSearch, RefitStep, Query, Gather,
     FitAndEmbed, Rewrite, RewriteFails, Journal, ClearDirty
<1>6. CASE Checkpoint \/ Truncate \/ BindEmbedder \/ UNCHANGED vars
  BY <1>6 DEF Checkpoint, Truncate, BindEmbedder, vars
<1>7. CASE Crash
  BY <1>7, <1>1 DEF Crash
<1>8. CASE Open
  <2>1. PICK ready \in BOOLEAN : Note("late", ~ready /\ \E k \in DOMAIN wal : wal[k].op = "upsert")
    BY <1>8 DEF Open
  <2> QED
    BY <2>1, <1>1
<1> QED
  BY <1>2, <1>3, <1>4, <1>5, <1>6, <1>7, <1>8 DEF Next

(* A call that overlaps no other is alone.                                  *)
LEMMA StartsAlone ==
    ASSUME "overlap" \notin mishaps', NEW t \in Thread,
           \/ \E b \in Batches : FoldIn(t, b)
           \/ \E x \in Text : RejectBatch(t, x)
           \/ StartRefit(t) \/ StartSearch(t)
    PROVE  \A x \in Thread : x # t => thr[x].pc = "idle"
<1>1. ASSUME Note("overlap", Overlapping(t))
      PROVE  \A x \in Thread : x # t => thr[x].pc = "idle"
  BY <1>1 DEF Note, Overlapping
<1>2. ASSUME NEW b \in Batches, FoldIn(t, b) PROVE Note("overlap", Overlapping(t))
  BY <1>2 DEF FoldIn
<1>3. ASSUME NEW x \in Text, RejectBatch(t, x)
      PROVE  \A y \in Thread : y # t => thr[y].pc = "idle"
  <2>1. ~Overlapping(t)
    BY <1>3 DEF RejectBatch
  <2> QED
    BY <2>1 DEF Overlapping
<1>4. StartRefit(t) \/ StartSearch(t) => Note("overlap", Overlapping(t))
  BY DEF StartRefit, StartSearch
<1> QED
  BY <1>1, <1>2, <1>3, <1>4

-----------------------------------------------------------------------------
(* Text calls that are kept apart.                                          *)

(* A step of one thread, the others left where they are.                    *)
LEMMA AloneKept ==
    ASSUME Alone, NEW t \in Thread,
           thr[t].pc # "idle" \/ (\A x \in Thread : x # t => thr[x].pc = "idle"),
           \A x \in Thread : x # t => thr'[x] = thr[x]
    PROVE  Alone' /\ \A x \in Thread : x # t => thr'[x].pc = "idle" /\ thr[x].pc = "idle"
<1>1. \A x \in Thread : x # t => thr[x].pc = "idle"
  BY DEF Alone
<1>2. \A x \in Thread : x # t => thr'[x].pc = "idle"
  BY <1>1
<1> QED
  BY <1>1, <1>2 DEF Alone

(* A step after which no refit has gathered documents it has to log.        *)
LEMMA NotInRefit ==
    ASSUME EmbedInv, ApartInv, NEW t \in Thread,
           thr[t].pc # "idle" \/ (\A x \in Thread : x # t => thr[x].pc = "idle"),
           \A x \in Thread : x # t => thr'[x] = thr[x],
           thr'[t].pc \notin {"fit", "rewrite"}
    PROVE  ApartInv'
<1>1. Alone' /\ \A x \in Thread : x # t => thr'[x].pc = "idle"
  BY AloneKept DEF ApartInv
<1>2. \A x \in Thread : thr'[x].pc \notin {"fit", "rewrite"}
  BY <1>1
<1> QED
  BY <1>1, <1>2 DEF ApartInv, RefitsAll

LEMMA ApartThread ==
    ASSUME EmbedInv, ApartInv, "overlap" \notin mishaps', NEW t \in Thread,
           \/ \E b \in Batches : FoldIn(t, b)
           \/ \E x \in Text : RejectBatch(t, x)
           \/ WriteBatch(t) \/ MarkDirty(t) \/ StartRefit(t) \/ StartSearch(t)
           \/ RefitStep(t) \/ Query(t)
    PROVE  ApartInv'
<1>0. Typed /\ thr \in [Thread -> Calls] /\ docs \in DocSets /\ Alone /\ RefitsAll
  BY DEF EmbedInv, Typed, ApartInv
<1>1. ASSUME NEW r, Become(t, r)
      PROVE  thr'[t] = r /\ \A x \in Thread : x # t => thr'[x] = thr[x]
  BY <1>0, <1>1 DEF Become
<1>3. ASSUME NEW b \in Batches, FoldIn(t, b) PROVE ApartInv'
  <2>1. PICK r \in Calls : Become(t, r) /\ r.pc = "write"
    BY <1>0, <1>3, FoldInIs
  <2>2. \A x \in Thread : x # t => thr[x].pc = "idle"
    BY <1>3, StartsAlone
  <2> QED
    BY <1>1, <2>1, <2>2, NotInRefit
<1>4. ASSUME NEW y \in Text, RejectBatch(t, y) PROVE ApartInv'
  <2>1. \A x \in Thread : x # t => thr[x].pc = "idle"
    BY <1>4, StartsAlone
  <2>2. thr' = thr /\ thr[t].pc = "idle"
    BY <1>4 DEF RejectBatch, At
  <2> QED
    BY <2>1, <2>2, NotInRefit
<1>5. ASSUME WriteBatch(t) PROVE ApartInv'
  <2>1. /\ thr'[t] = [pc |-> "mark"] /\ \A x \in Thread : x # t => thr'[x] = thr[x]
        /\ thr[t].pc = "write"
    BY <1>5, WriteBatchIs DEF WriteBatch, At
  <2> QED
    BY <2>1, NotInRefit
<1>6. ASSUME MarkDirty(t) \/ Query(t) \/ RewriteFails(t) PROVE ApartInv'
  <2>1. thr'[t] = Idle /\ Idle.pc = "idle" /\ thr[t].pc # "idle"
        /\ \A x \in Thread : x # t => thr'[x] = thr[x]
    BY <1>1, <1>6 DEF MarkDirty, Query, RewriteFails, Idle, At
  <2> QED
    BY <2>1, NotInRefit
<1>7. ASSUME StartRefit(t) \/ StartSearch(t) PROVE ApartInv'
  <2>1. \A x \in Thread : x # t => thr[x].pc = "idle"
    BY <1>7, StartsAlone
  <2>2. thr'[t].pc \in {"gather", "query"} /\ \A x \in Thread : x # t => thr'[x] = thr[x]
    BY <1>1, <1>7 DEF StartRefit, StartSearch
  <2> QED
    BY <2>1, <2>2, NotInRefit
<1>9. ASSUME Gather(t) PROVE ApartInv'
  <2>1. /\ thr[t].pc = "gather" /\ UNCHANGED docs
        /\ Become(t, IF DOMAIN docs = {} THEN [pc |-> thr[t].then]
                     ELSE [pc |-> "fit", then |-> thr[t].then, live |-> Texts(docs)])
    BY <1>9 DEF Gather, At
  <2>2. \A x \in Thread : x # t => thr'[x] = thr[x]
    BY <1>1, <2>1
  <2>4. CASE DOMAIN docs = {}
    <3>1. thr[t].then \in Thens
      BY <1>0, <2>1, CallIs
    <3>2. thr'[t].pc = thr[t].then
      BY <1>1, <2>1, <2>4
    <3>3. thr'[t].pc \notin {"fit", "rewrite"}
      BY <3>1, <3>2 DEF Thens
    <3> QED
      BY <2>1, <2>2, <3>3, NotInRefit
  <2>5. CASE DOMAIN docs # {}
    <3>1. thr'[t] = [pc |-> "fit", then |-> thr[t].then, live |-> Texts(docs)]
      BY <1>1, <2>1, <2>5
    <3>2. Alone' /\ \A x \in Thread : x # t => thr'[x].pc = "idle"
      BY <1>0, <2>1, <2>2, AloneKept
    <3>3. RefitsAll'
      BY <2>1, <3>1, <3>2 DEF RefitsAll
    <3> QED
      BY <3>2, <3>3 DEF ApartInv
  <2> QED
    BY <2>4, <2>5
<1>10. ASSUME FitAndEmbed(t) PROVE ApartInv'
  <2>1. /\ vocab' \in Vocabs /\ thr[t].live \in Corpora
        /\ thr'[t] = [pc |-> "rewrite", then |-> thr[t].then,
                      docs |-> Embedded(provider, vocab', thr[t].live)]
        /\ \A x \in Thread : x # t => thr'[x] = thr[x]
    BY <1>10, FitAndEmbedIs
  <2>2. thr[t].pc = "fit" /\ UNCHANGED <<provider, docs>>
    BY <1>10 DEF FitAndEmbed, At
  <2>3. thr[t].live = Texts(docs) /\ DOMAIN thr[t].live = DOMAIN docs
    BY <1>0, <2>2, TextsIs DEF RefitsAll
  <2>4. provider \in AllProviders
    BY <1>0 DEF Typed
  <2>5. DOMAIN Embedded(provider, vocab', thr[t].live) = DOMAIN docs
    BY <2>1, <2>3, <2>4, EmbeddedIs
  <2>6. Alone' /\ \A x \in Thread : x # t => thr'[x].pc = "idle"
    BY <1>0, <2>1, <2>2, AloneKept
  <2>7. RefitsAll'
    BY <2>1, <2>2, <2>5, <2>6 DEF RefitsAll
  <2> QED
    BY <2>6, <2>7 DEF ApartInv
<1>11. ASSUME Rewrite(t) PROVE ApartInv'
  <2>1. /\ thr'[t] = [pc |-> "journal", then |-> thr[t].then]
        /\ \A x \in Thread : x # t => thr'[x] = thr[x]
        /\ thr[t].pc = "rewrite"
    BY <1>11, RewriteIs DEF Rewrite, At
  <2> QED
    BY <2>1, NotInRefit
<1>13. ASSUME Journal(t) PROVE ApartInv'
  <2>1. /\ thr'[t] = [pc |-> "clear", then |-> thr[t].then]
        /\ \A x \in Thread : x # t => thr'[x] = thr[x]
        /\ thr[t].pc = "journal"
    BY <1>13, JournalIs DEF Journal, At
  <2> QED
    BY <2>1, NotInRefit
<1>14. ASSUME ClearDirty(t) PROVE ApartInv'
  <2>1. thr[t].pc = "clear" /\ Become(t, [pc |-> thr[t].then])
    BY <1>14 DEF ClearDirty, At
  <2>2. thr[t].then \in Thens
    BY <1>0, <2>1, CallIs
  <2>3. thr'[t].pc \in Thens /\ \A x \in Thread : x # t => thr'[x] = thr[x]
    BY <1>1, <2>1, <2>2
  <2> QED
    BY <2>1, <2>3, NotInRefit DEF Thens
<1> QED
  BY <1>3, <1>4, <1>5, <1>6, <1>7, <1>9, <1>10, <1>11, <1>13, <1>14 DEF RefitStep

LEMMA ApartInvKept ==
    ASSUME EmbedInv, ApartInv, "overlap" \notin mishaps', [Next]_vars
    PROVE  ApartInv'
<1>0. Typed /\ docs \in DocSets /\ Alone /\ RefitsAll
  BY DEF EmbedInv, Typed, ApartInv
<1>1. ASSUME NEW t \in Thread, NEW i \in Id, Delete(t, i) PROVE ApartInv'
  <2>1. UNCHANGED thr
    BY <1>1, DeleteDoes
  <2>2. \A x \in Thread : thr[x].pc \notin Refitting
    BY <1>1 DEF Delete, Note, InRefit
  <2> QED
    BY <1>0, <2>1, <2>2 DEF ApartInv, Alone, RefitsAll, Refitting
<1>2. ASSUME UNCHANGED <<thr, docs>> PROVE ApartInv'
  BY <1>0, <1>2 DEF ApartInv, Alone, RefitsAll
<1>3. CASE Checkpoint \/ Truncate \/ BindEmbedder \/ UNCHANGED vars
  BY <1>2, <1>3 DEF Checkpoint, Truncate, BindEmbedder, vars
<1>5. ASSUME Quiet' PROVE ApartInv'
  BY <1>5 DEF ApartInv, Alone, RefitsAll, Quiet
<1>6. CASE Crash
  BY <1>5, <1>6, CrashKeeps
<1>7. CASE Open
  <2>1. Quiet'
    BY <1>7, OpenIs DEF Quiet
  <2> QED
    BY <1>5, <2>1
<1> QED
  BY <1>1, <1>3, <1>6, <1>7, ApartThread DEF Next

LEMMA ApartStarts ==
    ASSUME Init
    PROVE  ApartInv
<1>1. thr = [t \in Thread |-> Idle] /\ Idle.pc = "idle"
  BY DEF Init, Idle
<1> QED
  BY <1>1 DEF ApartInv, Alone, RefitsAll

-----------------------------------------------------------------------------
(* What callers wrote last.                                                 *)

(* A step of one thread that neither logs nor gathers.                      *)
LEMMA LastPlace ==
    ASSUME LastInv, NEW t \in Thread, UNCHANGED <<provider, wal, file, last, exposed>>,
           \A x \in Thread : x # t => thr'[x] = thr[x],
           thr'[t].pc \notin {"fit", "rewrite"}
    PROVE  LastInv'
<1>1. Recovered(TRUE)' = Recovered(TRUE)
  BY RecoveredStays
<1>2. ASSUME NEW i \in Id \ exposed' PROVE Stands(Recovered(TRUE).docs, i)'
  BY <1>1, <1>2 DEF LastInv, Stands
<1>3. ASSUME NEW x \in Thread PROVE Keeps(thr[x])'
  <2>1. CASE x = t
    BY <2>1 DEF Keeps
  <2>2. CASE x # t
    BY <2>2 DEF LastInv, Keeps
  <2> QED
    BY <2>1, <2>2
<1> QED
  BY <1>2, <1>3 DEF LastInv

(* What a thread is going to write back it has gathered.                    *)
LEMMA GatheredIs ==
    ASSUME NEW t \in Thread
    PROVE  /\ thr[t].pc = "fit" => DOMAIN thr[t].live \subseteq Gathered
           /\ thr[t].pc = "rewrite" => DOMAIN thr[t].docs \subseteq Gathered
  BY DEF Gathered

LEMMA LastWrites ==
    ASSUME EmbedInv, LastInv, NEW t \in Thread, WriteBatch(t)
    PROVE  LastInv'
<1> DEFINE D == thr[t].docs
           R == Recovered(TRUE)
<1>1. /\ R \in Colls /\ D \in DocSets /\ R'.docs = Over(D, R.docs)
      /\ thr'[t] = [pc |-> "mark"] /\ \A x \in Thread : x # t => thr'[x] = thr[x]
  BY WriteBatchIs
<1>2. /\ last' = [i \in DOMAIN last \cup DOMAIN D |-> IF i \in DOMAIN D THEN D[i].text ELSE last[i]]
      /\ exposed' = (exposed \ DOMAIN D) \cup (DOMAIN D \cap Gathered)
  BY DEF WriteBatch
<1>3. R.docs \in DocSets
  BY <1>1, CollIs
<1> HIDE DEF D, R
<1>4. /\ DOMAIN R'.docs = DOMAIN D \cup DOMAIN R.docs
      /\ \A i \in DOMAIN D : R'.docs[i] = D[i]
      /\ \A i \in DOMAIN R.docs : i \notin DOMAIN D => R'.docs[i] = R.docs[i]
  BY <1>1, <1>3, OverIs
<1>5. /\ DOMAIN last' = DOMAIN last \cup DOMAIN D
      /\ \A i \in DOMAIN D : last'[i] = D[i].text
      /\ \A i \in DOMAIN last \ DOMAIN D : last'[i] = last[i]
  BY <1>2
<1>6. ASSUME NEW i \in Id \ exposed'
      PROVE  i \in DOMAIN D \/ Stands(R.docs, i)
  BY <1>2, <1>6 DEF LastInv, R
<1>7. ASSUME NEW i \in Id \ exposed'
      PROVE  Stands(R.docs, i)'
  <2>1. CASE i \in DOMAIN D
    BY <2>1, <1>4, <1>5 DEF Stands
  <2>2. CASE i \notin DOMAIN D
    BY <2>2, <1>4, <1>5, <1>6 DEF Stands
  <2> QED
    BY <2>1, <2>2
<1>8. ASSUME NEW x \in Thread, NEW i \in Id \ exposed'
      PROVE  /\ thr'[x].pc = "fit" /\ i \in DOMAIN thr'[x].live => i \in DOMAIN last' /\ thr'[x].live[i] = last'[i]
             /\ thr'[x].pc = "rewrite" /\ i \in DOMAIN thr'[x].docs => i \in DOMAIN last' /\ thr'[x].docs[i].text = last'[i]
  <2>1. CASE x = t
    BY <1>1, <2>1
  <2>2. CASE x # t /\ i \notin DOMAIN D
    <3>1. i \notin exposed /\ Keeps(thr[x]) /\ thr'[x] = thr[x]
      BY <1>1, <1>2, <1>8, <2>2 DEF LastInv
    <3> QED
      BY <1>5, <2>2, <3>1 DEF Keeps
  <2>3. CASE x # t /\ i \in DOMAIN D
    <3>1. i \notin Gathered /\ thr'[x] = thr[x]
      BY <1>1, <1>2, <2>3
    <3> QED
      BY <3>1, GatheredIs
  <2> QED
    BY <2>1, <2>2, <2>3
<1> QED
  BY <1>7, <1>8 DEF LastInv, Keeps, R

LEMMA LastDeletes ==
    ASSUME EmbedInv, LastInv, NEW t \in Thread, NEW j \in Id, Delete(t, j)
    PROVE  LastInv'
<1> DEFINE R == Recovered(TRUE)
<1>1. R \in Colls /\ UNCHANGED thr /\ R'.docs = Without(R.docs, {j})
  BY DeleteDoes
<1>2. /\ last' = [k \in DOMAIN last \ {j} |-> last[k]]
      /\ exposed' = IF j \in Gathered THEN exposed \cup {j} ELSE exposed \ {j}
  BY DEF Delete
<1>3. R.docs \in DocSets
  BY <1>1, CollIs
<1> HIDE DEF R
<1>4. DOMAIN R'.docs = DOMAIN R.docs \ {j} /\ \A i \in DOMAIN R'.docs : R'.docs[i] = R.docs[i]
  <2> DEFINE d == R.docs
             w == Without(d, {j})
  <2>1. DOMAIN w = DOMAIN d \ {j} /\ \A i \in DOMAIN d \ {j} : w[i] = d[i]
    BY <1>3, WithoutIs
  <2>2. R'.docs = w
    BY <1>1 DEF R
  <2> HIDE DEF w
  <2> QED
    BY <2>1, <2>2
<1>5. DOMAIN last' = DOMAIN last \ {j} /\ \A i \in DOMAIN last' : last'[i] = last[i]
  BY <1>2
<1>6. ASSUME NEW i \in Id \ exposed'
      PROVE  i = j \/ Stands(R.docs, i)
  BY <1>2, <1>6 DEF LastInv, R
<1>7. ASSUME NEW i \in Id \ exposed'
      PROVE  Stands(R.docs, i)'
  BY <1>4, <1>5, <1>6, <1>7 DEF Stands
<1>8. ASSUME NEW x \in Thread, NEW i \in Id \ exposed'
      PROVE  /\ thr'[x].pc = "fit" /\ i \in DOMAIN thr'[x].live => i \in DOMAIN last' /\ thr'[x].live[i] = last'[i]
             /\ thr'[x].pc = "rewrite" /\ i \in DOMAIN thr'[x].docs => i \in DOMAIN last' /\ thr'[x].docs[i].text = last'[i]
  <2>1. CASE i # j
    <3>1. i \notin exposed /\ Keeps(thr[x]) /\ thr'[x] = thr[x]
      BY <1>1, <1>2, <1>8, <2>1 DEF LastInv
    <3> QED
      BY <1>5, <2>1, <3>1 DEF Keeps
  <2>2. CASE i = j
    <3>1. i \notin Gathered /\ thr'[x] = thr[x]
      BY <1>1, <1>2, <2>2
    <3> QED
      BY <3>1, GatheredIs
  <2> QED
    BY <2>1, <2>2
<1> QED
  BY <1>7, <1>8 DEF LastInv, Keeps, R

(* A refit takes up what there is, and writes back what it took up.         *)
LEMMA LastGathers ==
    ASSUME EmbedInv, LastInv, NEW t \in Thread, Gather(t)
    PROVE  LastInv'
<1>1. /\ thr[t].pc = "gather" /\ UNCHANGED <<provider, wal, file, docs, last, exposed>>
      /\ Become(t, IF DOMAIN docs = {} THEN [pc |-> thr[t].then]
                   ELSE [pc |-> "fit", then |-> thr[t].then, live |-> Texts(docs)])
  BY DEF Gather, At
<1>2. /\ thr[t] \in Calls /\ docs \in DocSets /\ Recovered(TRUE).docs = docs
      /\ thr \in [Thread -> Calls]
  BY <1>1, CallHas DEF EmbedInv, Typed, DocsSurvive
<1>3. \A x \in Thread : x # t => thr'[x] = thr[x]
  BY <1>1, <1>2 DEF Become
<1>4. CASE DOMAIN docs = {}
  <2>1. thr'[t].pc = thr[t].then /\ thr[t].then \in Thens
    BY <1>1, <1>2, <1>4, CallIs DEF Become
  <2> QED
    BY <1>1, <1>3, <2>1, LastPlace DEF Thens
<1>5. CASE DOMAIN docs # {}
  <2>1. thr'[t] = [pc |-> "fit", then |-> thr[t].then, live |-> Texts(docs)]
    BY <1>1, <1>2, <1>5 DEF Become
  <2>2. DOMAIN Texts(docs) = DOMAIN docs /\ \A i \in DOMAIN docs : Texts(docs)[i] = docs[i].text
    BY <1>2, TextsIs
  <2>3. Recovered(TRUE)' = Recovered(TRUE)
    BY <1>1, RecoveredStays
  <2>4. ASSUME NEW i \in Id \ exposed' PROVE Stands(Recovered(TRUE).docs, i)'
    BY <1>1, <2>3, <2>4 DEF LastInv, Stands
  <2>5. ASSUME NEW x \in Thread PROVE Keeps(thr[x])'
    <3>1. CASE x = t
      <4>1. ASSUME NEW i \in Id \ exposed, i \in DOMAIN docs
            PROVE  i \in DOMAIN last /\ Texts(docs)[i] = last[i]
        BY <1>2, <2>2, <4>1 DEF LastInv, Stands
      <4>2. thr'[x].pc = "fit" /\ thr'[x].live = Texts(docs)
        BY <2>1, <3>1
      <4> QED
        BY <1>1, <2>2, <4>1, <4>2 DEF Keeps
    <3>2. CASE x # t
      BY <1>1, <1>3, <3>2 DEF LastInv, Keeps
    <3> QED
      BY <3>1, <3>2
  <2> QED
    BY <2>4, <2>5 DEF LastInv
<1> QED
  BY <1>4, <1>5

LEMMA LastFits ==
    ASSUME EmbedInv, LastInv, NEW t \in Thread, FitAndEmbed(t)
    PROVE  LastInv'
<1>1. /\ vocab' \in Vocabs /\ thr[t].live \in Corpora
      /\ thr'[t] = [pc |-> "rewrite", then |-> thr[t].then,
                    docs |-> Embedded(provider, vocab', thr[t].live)]
      /\ \A x \in Thread : x # t => thr'[x] = thr[x]
  BY FitAndEmbedIs
<1>2. thr[t].pc = "fit" /\ UNCHANGED <<provider, wal, file, last, exposed>>
  BY DEF FitAndEmbed, At
<1>3. provider \in AllProviders
  BY DEF EmbedInv, Typed
<1> DEFINE E == Embedded(provider, vocab', thr[t].live)
<1>4. DOMAIN E = DOMAIN thr[t].live /\ \A i \in DOMAIN E : E[i].text = thr[t].live[i]
  <2> DEFINE L == thr[t].live
  <2>1. L \in Corpora
    BY <1>1
  <2> HIDE DEF L
  <2>2. /\ DOMAIN Embedded(provider, vocab', L) = DOMAIN L
        /\ \A i \in DOMAIN L : Embedded(provider, vocab', L)[i] =
              [text |-> L[i], vec |-> EmbedNonzero(provider, vocab', L[i])]
    BY <1>1, <1>3, <2>1, EmbeddedIs
  <2>3. \A i \in DOMAIN L : Embedded(provider, vocab', L)[i].text = L[i]
    BY <2>2
  <2> QED
    BY <2>2, <2>3 DEF L
<1> HIDE DEF E
<1>5. Recovered(TRUE)' = Recovered(TRUE)
  BY <1>2, RecoveredStays
<1>6. ASSUME NEW i \in Id \ exposed' PROVE Stands(Recovered(TRUE).docs, i)'
  BY <1>2, <1>5, <1>6 DEF LastInv, Stands
<1>7. ASSUME NEW x \in Thread PROVE Keeps(thr[x])'
  <2>1. CASE x = t
    <3>1. thr'[t].pc = "rewrite" /\ thr'[t].docs = E
      BY <1>1 DEF E
    <3> QED
      BY <1>2, <1>4, <2>1, <3>1 DEF LastInv, Keeps
  <2>2. CASE x # t
    BY <1>1, <1>2, <2>2 DEF LastInv, Keeps
  <2> QED
    BY <2>1, <2>2
<1> QED
  BY <1>6, <1>7 DEF LastInv

LEMMA LastRewrites ==
    ASSUME EmbedInv, LastInv, NEW t \in Thread, Rewrite(t)
    PROVE  LastInv'
<1> DEFINE D == thr[t].docs
           R == Recovered(TRUE)
<1>1. /\ R \in Colls /\ D \in DocSets /\ R'.docs = Over(D, R.docs)
      /\ thr'[t] = [pc |-> "journal", then |-> thr[t].then]
      /\ \A x \in Thread : x # t => thr'[x] = thr[x]
  BY RewriteIs
<1>2. thr[t].pc = "rewrite" /\ UNCHANGED <<last, exposed>>
  BY DEF Rewrite, At
<1>3. R.docs \in DocSets
  BY <1>1, CollIs
<1> HIDE DEF D, R
<1>4. /\ DOMAIN R'.docs = DOMAIN D \cup DOMAIN R.docs
      /\ \A i \in DOMAIN D : R'.docs[i] = D[i]
      /\ \A i \in DOMAIN R.docs : i \notin DOMAIN D => R'.docs[i] = R.docs[i]
  <2> DEFINE w == Over(D, R.docs)
  <2>1. /\ DOMAIN w = DOMAIN D \cup DOMAIN R.docs /\ \A i \in DOMAIN D : w[i] = D[i]
        /\ \A i \in DOMAIN R.docs : i \notin DOMAIN D => w[i] = R.docs[i]
    BY <1>1, <1>3, OverIs DEF D
  <2>2. R'.docs = w
    BY <1>1 DEF R, D
  <2> HIDE DEF w
  <2> QED
    BY <2>1, <2>2
<1>5. ASSUME NEW i \in Id \ exposed'
      PROVE  Stands(R.docs, i)'
  <2>1. Stands(R.docs, i) /\ (i \in DOMAIN D => i \in DOMAIN last /\ D[i].text = last[i])
    BY <1>2, <1>5 DEF LastInv, Keeps, D, R
  <2> QED
    BY <1>2, <1>4, <2>1 DEF Stands
<1>6. ASSUME NEW x \in Thread PROVE Keeps(thr[x])'
  BY <1>1, <1>2 DEF LastInv, Keeps
<1> QED
  BY <1>5, <1>6 DEF LastInv, R

LEMMA LastInvKept ==
    ASSUME EmbedInv, LastInv, [Next]_vars
    PROVE  LastInv'
<1>0. Typed /\ thr \in [Thread -> Calls]
  BY DEF EmbedInv, Typed
<1>1. ASSUME NEW t \in Thread, NEW r, Become(t, r)
      PROVE  thr'[t] = r /\ \A x \in Thread : x # t => thr'[x] = thr[x]
  BY <1>0, <1>1 DEF Become
<1>2. ASSUME NEW t \in Thread, NEW b \in Batches, FoldIn(t, b) PROVE LastInv'
  <2>1. PICK r \in Calls : Become(t, r) /\ r.pc = "write"
    BY <1>0, <1>2, FoldInIs
  <2> QED
    BY <1>1, <1>2, <2>1, LastPlace DEF FoldIn
<1>3. ASSUME UNCHANGED <<thr, last, exposed>>, Recovered(TRUE)'.docs = Recovered(TRUE).docs
      PROVE  LastInv'
  BY <1>3 DEF LastInv, Keeps, Stands
<1>4. ASSUME NEW t \in Thread, NEW x \in Text, RejectBatch(t, x) PROVE LastInv'
  <2>1. Recovered(TRUE)' = Recovered(TRUE)
    BY <1>4, RecoveredStays DEF RejectBatch
  <2> QED
    BY <1>3, <1>4, <2>1 DEF RejectBatch
<1>5. ASSUME NEW t \in Thread, MarkDirty(t) \/ Query(t) \/ RewriteFails(t) PROVE LastInv'
  <2>1. /\ thr'[t] = Idle /\ Idle.pc = "idle" /\ \A x \in Thread : x # t => thr'[x] = thr[x]
        /\ UNCHANGED <<provider, wal, file, last, exposed>>
    BY <1>1, <1>5 DEF MarkDirty, Query, RewriteFails, Idle
  <2> QED
    BY <2>1, LastPlace
<1>6. ASSUME NEW t \in Thread, StartRefit(t) \/ StartSearch(t) PROVE LastInv'
  <2>1. /\ thr'[t].pc \in {"gather", "query"} /\ \A x \in Thread : x # t => thr'[x] = thr[x]
        /\ UNCHANGED <<provider, wal, file, last, exposed>>
    BY <1>1, <1>6 DEF StartRefit, StartSearch
  <2> QED
    BY <2>1, LastPlace
<1>7. ASSUME NEW t \in Thread, Journal(t) PROVE LastInv'
  <2>1. /\ thr'[t] = [pc |-> "clear", then |-> thr[t].then]
        /\ \A x \in Thread : x # t => thr'[x] = thr[x]
        /\ Recovered(TRUE)'.docs = Recovered(TRUE).docs
    BY <1>7, JournalIs
  <2>2. UNCHANGED <<last, exposed>>
    BY <1>7 DEF Journal
  <2>3. \A x \in Thread : Keeps(thr[x])'
    BY <2>1, <2>2 DEF LastInv, Keeps
  <2>4. \A i \in Id \ exposed' : Stands(Recovered(TRUE).docs, i)'
    BY <2>1, <2>2 DEF LastInv, Stands
  <2> QED
    BY <2>3, <2>4 DEF LastInv
<1>8. ASSUME NEW t \in Thread, ClearDirty(t) PROVE LastInv'
  <2>1. /\ thr[t].pc = "clear" /\ Become(t, [pc |-> thr[t].then])
        /\ UNCHANGED <<provider, wal, file, last, exposed>>
    BY <1>8 DEF ClearDirty, At
  <2>2. thr[t].then \in Thens
    BY <1>0, <2>1, CallIs
  <2>3. thr'[t].pc \in Thens /\ \A x \in Thread : x # t => thr'[x] = thr[x]
    BY <1>1, <2>1, <2>2
  <2> QED
    BY <2>1, <2>3, LastPlace DEF Thens
<1>9. CASE Checkpoint \/ Truncate
  BY <1>3, <1>9, CheckpointIs, TruncateIs DEF Checkpoint, Truncate
<1>10. CASE BindEmbedder \/ UNCHANGED vars
  <2>1. Recovered(TRUE)' = Recovered(TRUE)
    BY <1>10, BindEmbedderIs, StutterKeeps
  <2> QED
    BY <1>3, <1>10, <2>1 DEF BindEmbedder, vars
<1>11. CASE Crash \/ Open
  <2>1. Quiet' /\ Recovered(TRUE)' = Recovered(TRUE)
    BY <1>11, CrashKeeps, OpenIs DEF Quiet
  <2>2. UNCHANGED <<last, exposed>>
    BY <1>11 DEF Crash, Open
  <2> QED
    BY <2>1, <2>2 DEF LastInv, Keeps, Stands, Quiet
<1> QED
  BY <1>2, <1>4, <1>5, <1>6, <1>7, <1>8, <1>9, <1>10, <1>11, LastWrites, LastDeletes,
     LastGathers, LastFits, LastRewrites DEF Next, RefitStep

LEMMA LastStarts ==
    ASSUME Init
    PROVE  LastInv
<1>1. thr = [t \in Thread |-> Idle] /\ Idle.pc = "idle" /\ docs = [i \in {} |-> 0] /\ last = [i \in {} |-> 0]
  BY DEF Init, Idle
<1>2. Recovered(TRUE).docs = docs
  BY EmbedStarts
<1> QED
  BY <1>1, <1>2 DEF LastInv, Keeps, Stands

(* What the last upsert or delete of an id said stands, whatever goes on,   *)
(* other refits, overlapping calls, crashes and failing logs included: a    *)
(* refit or a recovery brings back a document or a text only of an id that  *)
(* was written while a refit that had gathered it was under way (upserted   *)
(* again by do_refit, gathered under a lock it gave up).                    *)
THEOREM LastWriteKept == Spec => []LastWriteStands
<1>1. Init => EmbedInv /\ LastInv
  BY EmbedStarts, LastStarts
<1>2. EmbedInv /\ LastInv /\ [Next]_vars => EmbedInv' /\ LastInv'
  BY EmbedInvKept, LastInvKept
<1>3. EmbedInv /\ LastInv => LastWriteStands
  BY DEF EmbedInv, DocsSurvive, LastInv, Stands, LastWriteStands
<1> QED
  BY <1>1, <1>2, <1>3, PTL DEF Spec

-----------------------------------------------------------------------------
(* Queries and the vocabulary their documents are embedded with.            *)

(* When no thread is in a refit or a query.                                 *)
LEMMA NothingFresh ==
    ASSUME \A x \in Thread : thr'[x].pc \notin {"journal", "clear", "rewrite", "query"},
           touched' => up' /\ slot' = "Ready",
           touched' /\ Quiet' => dirty' \/ Fresh'
    PROVE  FreshInv'
  BY DEF FreshInv

LEMMA FreshFewer ==
    ASSUME Fresh, docs \in DocSets, NEW S, docs' = Without(docs, S), UNCHANGED <<provider, vocab>>
    PROVE  Fresh'
<1>1. DOMAIN docs' \subseteq DOMAIN docs /\ \A i \in DOMAIN docs' : docs'[i] = docs[i]
  BY DEF Without
<1> QED
  BY <1>1 DEF Fresh

LEMMA FreshThread ==
    ASSUME EmbedInv, ApartInv, FreshInv, mishaps' \cap {"overlap", "reject", "logFails"} = {},
           NEW t \in Thread,
           \/ \E b \in Batches : FoldIn(t, b)
           \/ \E x \in Text : RejectBatch(t, x)
           \/ WriteBatch(t) \/ MarkDirty(t) \/ StartRefit(t) \/ StartSearch(t)
           \/ RefitStep(t) \/ Query(t)
    PROVE  FreshInv'
<1>0. /\ Typed /\ thr \in [Thread -> Calls] /\ docs \in DocSets /\ Alone /\ RefitsAll
      /\ provider \in AllProviders /\ vocab \in Vocabs
  BY DEF EmbedInv, Typed, ApartInv
<1>a. /\ touched => up /\ slot = "Ready"
      /\ touched /\ Quiet => dirty \/ Fresh
      /\ thr[t].pc \in {"journal", "clear"} => Fresh
      /\ thr[t].pc = "query" /\ touched => Fresh
      /\ thr[t].pc = "rewrite" => thr[t].docs = Embedded(provider, vocab, Texts(docs))
  BY DEF FreshInv
<1>1. ASSUME NEW r, Become(t, r)
      PROVE  thr'[t] = r /\ \A x \in Thread : x # t => thr'[x] = thr[x]
  BY <1>0, <1>1 DEF Become
<1>2. \A x \in Thread : x # t /\ thr[t].pc # "idle" => thr[x].pc = "idle"
  BY <1>0 DEF Alone
<1>b. Quiet' => thr'[t].pc = "idle"
  BY DEF Quiet
<1>3. ASSUME NEW b \in Batches, FoldIn(t, b) PROVE FreshInv'
  <2>1. PICK r \in Calls : Become(t, r) /\ r.pc = "write"
    BY <1>0, <1>3, FoldInIs
  <2>2. \A x \in Thread : x # t => thr[x].pc = "idle"
    BY <1>3, StartsAlone
  <2>3. thr'[t].pc = "write" /\ \A x \in Thread : x # t => thr'[x].pc = "idle"
    BY <1>1, <2>1, <2>2
  <2>4. UNCHANGED <<touched, up, slot>>
    BY <1>3 DEF FoldIn
  <2> QED
    BY <1>a, <1>b, <2>3, <2>4, NothingFresh
<1>4. ASSUME NEW y \in Text, RejectBatch(t, y) PROVE FreshInv'
  <2>1. \A x \in Thread : x # t => thr[x].pc = "idle"
    BY <1>4, StartsAlone
  <2>2. /\ thr' = thr /\ thr[t].pc = "idle" /\ dirty /\ dirty' = dirty
        /\ UNCHANGED <<touched, up, slot>>
    BY <1>4 DEF RejectBatch, At
  <2> QED
    BY <1>a, <2>1, <2>2, NothingFresh
<1>5. ASSUME WriteBatch(t) PROVE FreshInv'
  <2>1. thr'[t] = [pc |-> "mark"] /\ \A x \in Thread : x # t => thr'[x] = thr[x]
    BY <1>5, WriteBatchIs
  <2>2. thr[t].pc = "write" /\ UNCHANGED <<touched, up, slot>>
    BY <1>5 DEF WriteBatch, At
  <2>3. thr'[t].pc = "mark" /\ \A x \in Thread : x # t => thr'[x].pc = "idle"
    BY <1>2, <2>1, <2>2
  <2> QED
    BY <1>a, <1>b, <2>2, <2>3, NothingFresh
<1>6. ASSUME MarkDirty(t) PROVE FreshInv'
  <2>1. thr'[t] = Idle /\ Idle.pc = "idle" /\ thr[t].pc = "mark"
        /\ \A x \in Thread : x # t => thr'[x] = thr[x]
    BY <1>1, <1>6 DEF MarkDirty, Idle, At
  <2>2. up /\ slot = "Ready" /\ dirty' = TRUE /\ UNCHANGED <<up, slot>>
    BY <1>6, <2>1, CallHas DEF MarkDirty
  <2>3. \A x \in Thread : thr'[x].pc = "idle"
    BY <1>2, <2>1
  <2> QED
    BY <2>2, <2>3, NothingFresh
<1>7. ASSUME StartRefit(t) PROVE FreshInv'
  <2>1. \A x \in Thread : x # t => thr[x].pc = "idle"
    BY <1>7, StartsAlone
  <2>2. /\ thr'[t].pc = "gather" /\ \A x \in Thread : x # t => thr'[x] = thr[x]
        /\ UNCHANGED <<touched, up, slot>>
    BY <1>1, <1>7 DEF StartRefit
  <2> QED
    BY <1>a, <1>b, <2>1, <2>2, NothingFresh
<1>8. ASSUME StartSearch(t) PROVE FreshInv'
  <2>1. (\A x \in Thread : x # t => thr[x].pc = "idle") /\ thr[t].pc = "idle"
    BY <1>8, StartsAlone DEF StartSearch, At
  <2>2. /\ Become(t, IF dirty THEN [pc |-> "gather", then |-> "query"] ELSE [pc |-> "query"])
        /\ UNCHANGED <<touched, up, slot, docs, provider, vocab>>
    BY <1>8 DEF StartSearch
  <2>3. \A x \in Thread : x # t => thr'[x] = thr[x]
    BY <1>1, <2>2
  <2>4. CASE dirty
    <3>1. thr'[t].pc = "gather"
      BY <1>1, <2>2, <2>4
    <3> QED
      BY <1>a, <1>b, <2>1, <2>2, <2>3, <3>1, NothingFresh
  <2>5. CASE ~dirty
    <3>1. thr'[t].pc = "query"
      BY <1>1, <2>2, <2>5
    <3>2. Quiet
      BY <2>1 DEF Quiet
    <3>3. touched' => Fresh'
      BY <1>a, <2>2, <2>5, <3>2 DEF Fresh
    <3> QED
      BY <1>a, <1>b, <2>1, <2>2, <2>3, <3>1, <3>3 DEF FreshInv
  <2> QED
    BY <2>4, <2>5
<1>9. ASSUME Gather(t) PROVE FreshInv'
  <2>1. /\ thr[t].pc = "gather" /\ UNCHANGED <<touched, up, slot, docs, provider, vocab>>
        /\ Become(t, IF DOMAIN docs = {} THEN [pc |-> thr[t].then]
                     ELSE [pc |-> "fit", then |-> thr[t].then, live |-> Texts(docs)])
    BY <1>9 DEF Gather, At
  <2>2. \A x \in Thread : x # t => thr'[x] = thr[x] /\ thr'[x].pc = "idle"
    BY <1>1, <1>2, <2>1
  <2>3. CASE DOMAIN docs = {}
    <3>1. thr[t].then \in Thens
      BY <1>0, <2>1, CallIs
    <3>2. thr'[t].pc \in {"idle", "query"}
      BY <1>1, <2>1, <2>3, <3>1 DEF Thens
    <3>3. Fresh'
      BY <2>1, <2>3 DEF Fresh
    <3> QED
      BY <1>a, <2>1, <2>2, <3>2, <3>3 DEF FreshInv
  <2>4. CASE DOMAIN docs # {}
    <3>1. thr'[t].pc = "fit"
      BY <1>1, <2>1, <2>4
    <3> QED
      BY <1>a, <1>b, <2>1, <2>2, <3>1, NothingFresh
  <2> QED
    BY <2>3, <2>4
<1>10. ASSUME FitAndEmbed(t) PROVE FreshInv'
  <2>1. /\ thr'[t] = [pc |-> "rewrite", then |-> thr[t].then,
                      docs |-> Embedded(provider, vocab', thr[t].live)]
        /\ \A x \in Thread : x # t => thr'[x] = thr[x]
    BY <1>10, FitAndEmbedIs
  <2>2. thr[t].pc = "fit" /\ UNCHANGED <<provider, docs, touched, up, slot>>
    BY <1>10 DEF FitAndEmbed, At
  <2>3. thr[t].live = Texts(docs)
    BY <1>0, <2>2 DEF RefitsAll
  <2>4. thr'[t].pc = "rewrite" /\ thr'[t].docs = Embedded(provider', vocab', Texts(docs'))
    BY <2>1, <2>2, <2>3
  <2>5. \A x \in Thread : x # t => thr'[x].pc = "idle"
    BY <1>2, <2>1, <2>2
  <2> QED
    BY <1>a, <1>b, <2>2, <2>4, <2>5 DEF FreshInv
<1>11. ASSUME Rewrite(t) PROVE FreshInv'
  <2>1. /\ thr'[t] = [pc |-> "journal", then |-> thr[t].then]
        /\ \A x \in Thread : x # t => thr'[x] = thr[x]
        /\ docs' = Over(thr[t].docs, docs)
    BY <1>11, RewriteIs
  <2>2. thr[t].pc = "rewrite" /\ UNCHANGED <<provider, vocab, touched, up, slot>>
    BY <1>11 DEF Rewrite, At
  <2>3. Texts(docs) \in Corpora /\ DOMAIN Texts(docs) = DOMAIN docs
    BY <1>0, TextsIs
  <2> DEFINE e == Embedded(provider, vocab, Texts(docs))
  <2>4. /\ DOMAIN e = DOMAIN docs
        /\ \A i \in DOMAIN docs : e[i] = [text |-> Texts(docs)[i],
                                          vec |-> EmbedNonzero(provider, vocab, Texts(docs)[i])]
    BY <1>0, <2>3, EmbeddedIs
  <2>5. \A i \in DOMAIN docs : e[i].vec = EmbedNonzero(provider, vocab, e[i].text)
    BY <2>4
  <2> HIDE DEF e
  <2>6. thr[t].docs = e
    BY <1>a, <2>2 DEF e
  <2>7. DOMAIN docs' = DOMAIN docs /\ \A i \in DOMAIN docs : docs'[i] = e[i]
    BY <2>1, <2>4, <2>6 DEF Over
  <2>8. Fresh'
    BY <2>2, <2>5, <2>7 DEF Fresh
  <2>9. thr'[t].pc = "journal" /\ \A x \in Thread : x # t => thr'[x].pc = "idle"
    BY <1>2, <2>1, <2>2
  <2> QED
    BY <1>a, <1>b, <2>2, <2>8, <2>9 DEF FreshInv
<1>12. ASSUME RewriteFails(t) PROVE FreshInv'
  <2>1. thr'[t] = Idle /\ Idle.pc = "idle" /\ thr[t].pc = "rewrite"
        /\ \A x \in Thread : x # t => thr'[x] = thr[x]
    BY <1>1, <1>12 DEF RewriteFails, Idle, At
  <2>2. /\ UNCHANGED <<provider, vocab, docs, touched, up, slot>>
        /\ \A i \in DOMAIN thr[t].docs : i \in DOMAIN docs /\ docs[i] = thr[t].docs[i]
    BY <1>12 DEF RewriteFails, Note, NothingToChange
  <2>3. Texts(docs) \in Corpora /\ DOMAIN Texts(docs) = DOMAIN docs
    BY <1>0, TextsIs
  <2> DEFINE e == Embedded(provider, vocab, Texts(docs))
  <2>4. /\ DOMAIN e = DOMAIN docs
        /\ \A i \in DOMAIN docs : e[i] = [text |-> Texts(docs)[i],
                                          vec |-> EmbedNonzero(provider, vocab, Texts(docs)[i])]
    BY <1>0, <2>3, EmbeddedIs
  <2>5. \A i \in DOMAIN docs : e[i].vec = EmbedNonzero(provider, vocab, e[i].text)
    BY <2>4
  <2> HIDE DEF e
  <2>6. thr[t].docs = e
    BY <1>a, <2>1 DEF e
  <2>7. \A i \in DOMAIN docs : docs[i] = e[i]
    BY <2>2, <2>4, <2>6
  <2>8. Fresh'
    BY <2>2, <2>5, <2>7 DEF Fresh
  <2>9. \A x \in Thread : thr'[x].pc = "idle"
    BY <1>2, <2>1
  <2> QED
    BY <1>a, <2>2, <2>8, <2>9, NothingFresh
<1>13. ASSUME Journal(t) PROVE FreshInv'
  <2>1. /\ thr'[t] = [pc |-> "clear", then |-> thr[t].then]
        /\ \A x \in Thread : x # t => thr'[x] = thr[x]
    BY <1>13, JournalIs
  <2>2. thr[t].pc = "journal" /\ UNCHANGED <<provider, vocab, docs, touched, up, slot>>
    BY <1>13 DEF Journal, At
  <2>3. Fresh'
    BY <1>a, <2>2 DEF Fresh
  <2>4. thr'[t].pc = "clear" /\ \A x \in Thread : x # t => thr'[x].pc = "idle"
    BY <1>2, <2>1, <2>2
  <2> QED
    BY <1>a, <1>b, <2>2, <2>3, <2>4 DEF FreshInv
<1>14. ASSUME ClearDirty(t) PROVE FreshInv'
  <2>1. /\ thr[t].pc = "clear" /\ Become(t, [pc |-> thr[t].then])
        /\ UNCHANGED <<provider, vocab, docs, touched, up, slot>>
    BY <1>14 DEF ClearDirty, At
  <2>2. thr[t].then \in Thens
    BY <1>0, <2>1, CallIs
  <2>3. thr'[t].pc \in {"idle", "query"} /\ \A x \in Thread : x # t => thr'[x].pc = "idle"
    BY <1>1, <1>2, <2>1, <2>2 DEF Thens
  <2>4. Fresh'
    BY <1>a, <2>1 DEF Fresh
  <2> QED
    BY <1>a, <2>1, <2>3, <2>4 DEF FreshInv
<1>15. ASSUME Query(t) PROVE FreshInv'
  <2>1. thr'[t] = Idle /\ Idle.pc = "idle" /\ thr[t].pc = "query"
        /\ \A x \in Thread : x # t => thr'[x] = thr[x]
    BY <1>1, <1>15 DEF Query, Idle, At
  <2>2. UNCHANGED <<provider, vocab, docs, touched, up, slot>>
    BY <1>15 DEF Query
  <2>3. touched' => Fresh'
    BY <1>a, <2>1, <2>2 DEF Fresh
  <2>4. \A x \in Thread : thr'[x].pc = "idle"
    BY <1>2, <2>1
  <2> QED
    BY <1>a, <2>2, <2>3, <2>4, NothingFresh
<1> QED
  BY <1>3, <1>4, <1>5, <1>6, <1>7, <1>8, <1>9, <1>10, <1>11, <1>12, <1>13, <1>14, <1>15
     DEF RefitStep

LEMMA FreshInvKept ==
    ASSUME EmbedInv, ApartInv, FreshInv, mishaps' \cap {"overlap", "reject", "logFails"} = {},
           [Next]_vars
    PROVE  FreshInv'
<1>0. Typed /\ docs \in DocSets
  BY DEF EmbedInv, Typed
<1>1. ASSUME NEW t \in Thread, NEW i \in Id, Delete(t, i) PROVE FreshInv'
  <2>1. /\ UNCHANGED <<thr, provider, vocab, dirty, touched, up, slot>> /\ docs' = Without(docs, {i})
        /\ \A x \in Thread : thr[x].pc \notin Refitting
    BY <1>1 DEF Delete, Note, InRefit
  <2>2. Fresh => Fresh'
    BY <1>0, <2>1, FreshFewer
  <2>3. Quiet' <=> Quiet
    BY <2>1 DEF Quiet
  <2> QED
    BY <2>1, <2>2, <2>3 DEF FreshInv, Refitting
<1>2. ASSUME UNCHANGED <<provider, vocab, dirty, docs, thr, touched, up, slot>> PROVE FreshInv'
  BY <1>2 DEF FreshInv, Fresh, Quiet
<1>3. CASE Checkpoint
  BY <1>2, <1>3 DEF Checkpoint
<1>4. CASE Truncate
  BY <1>2, <1>4 DEF Truncate
<1>5. ASSUME Quiet', touched' = FALSE PROVE FreshInv'
  BY <1>5 DEF FreshInv, Quiet
<1>6. CASE Crash
  BY <1>5, <1>6, CrashKeeps DEF Crash
<1>7. CASE Open
  <2>1. Quiet' /\ touched' = touched /\ ~up /\ touched \in BOOLEAN
    BY <1>0, <1>7, OpenIs DEF Open, Quiet, Typed
  <2>2. touched = FALSE
    BY <2>1 DEF FreshInv
  <2> QED
    BY <1>5, <2>1, <2>2
<1>8. CASE BindEmbedder
  <2>1. Quiet' /\ touched' = touched /\ slot = "Missing" /\ touched \in BOOLEAN
    BY <1>0, <1>8, BindEmbedderIs DEF BindEmbedder, Quiet, Typed
  <2>2. touched = FALSE
    BY <2>1 DEF FreshInv
  <2> QED
    BY <1>5, <2>1, <2>2
<1>9. CASE UNCHANGED vars
  BY <1>2, <1>9 DEF vars
<1> QED
  BY <1>1, <1>3, <1>4, <1>6, <1>7, <1>8, <1>9, FreshThread DEF Next

(* Until text calls overlap, a batch is rejected half-way or the log fails  *)
(* a refit, a query meets documents that are all embedded with the          *)
(* vocabulary it is embedded with: the mark of each batch makes the next    *)
(* search refit (refit_if_dirty).                                           *)
THEOREM QueriesMeetOneVocabulary == Spec => []QueryMeetsOneVocabulary
<1> DEFINE Fine == mishaps \cap {"overlap", "reject", "logFails"} = {}
           Inv == EmbedInv /\ (Fine => ApartInv /\ FreshInv)
<1>1. Init => Inv
  <2> SUFFICES ASSUME Init PROVE FreshInv
    BY EmbedStarts, ApartStarts
  <2>1. touched = FALSE /\ thr = [t \in Thread |-> Idle] /\ Idle.pc = "idle"
    BY DEF Init, Idle
  <2> QED
    BY <2>1 DEF FreshInv
<1>2. Inv /\ [Next]_vars => Inv'
  <2> SUFFICES ASSUME Inv, [Next]_vars, Fine' PROVE ApartInv' /\ FreshInv'
    BY EmbedInvKept
  <2>1. Fine /\ "overlap" \notin mishaps'
    BY MishapsGrow
  <2> QED
    BY <2>1, ApartInvKept, FreshInvKept
<1>3. Inv => QueryMeetsOneVocabulary
  BY DEF FreshInv, Fresh, QueryMeetsOneVocabulary, OneVocabulary
<1> QED
  BY <1>1, <1>2, <1>3, PTL DEF Spec

-----------------------------------------------------------------------------
(* Recovery and the vocabulary.                                             *)

LEMMA WrittenIs ==
    ASSUME Typed, NEW t \in Thread, thr[t].pc = "write"
    PROVE  Written(t) \in Text
<1>1. thr[t] \in Calls
  BY DEF Typed
<1>2. thr[t].docs \in DocSets /\ thr[t].order[1] \in DOMAIN thr[t].docs
  BY <1>1, CallIs
<1>3. thr[t].docs[thr[t].order[1]] \in Docs
  BY <1>2, DocSetIs
<1> QED
  BY <1>3 DEF Written, Docs

(* A step of the one thread that is in a call.                              *)
LEMMA VocabStep ==
    ASSUME NEW t \in Thread, \A x \in Thread : x # t => thr'[x].pc = "idle",
           slot' = "Ready",
           swapped' /\ thr'[t].pc # "journal" =>
              \/ Same(StateIn(file'.vocab), Recovered(TRUE)'.vocab)
              \/ file'.vocab = {vocab'} /\ thr'[t].pc \in {"write", "rewrite"},
           thr'[t].pc = "write" =>
              Same(AddDocument(provider', Recovered(TRUE)'.vocab, Written(t)'), vocab'),
           thr'[t].pc \notin {"write", "rewrite", "journal"} => Same(Recovered(TRUE)'.vocab, vocab')
    PROVE  VocabSurvives'
<1>1. \A x \in Thread : thr'[x].pc = "write" => x = t
  OBVIOUS
<1>2. (\A x \in Thread : thr'[x].pc \notin {"write", "rewrite", "journal"}) =>
         Same(Recovered(TRUE)'.vocab, vocab')
  OBVIOUS
<1>3. \A x \in Thread : thr'[x].pc = "write" =>
         Same(AddDocument(provider', Recovered(TRUE)'.vocab, Written(x)'), vocab')
  BY <1>1
<1> QED
  BY <1>2, <1>3 DEF VocabSurvives

LEMMA VocabThread ==
    ASSUME EmbedInv, ApartInv, VocabSurvives, mishaps' \subseteq {"crashInRefit"},
           NEW t \in Thread,
           \/ \E b \in Batches : FoldIn(t, b)
           \/ \E x \in Text : RejectBatch(t, x)
           \/ WriteBatch(t) \/ MarkDirty(t) \/ StartRefit(t) \/ StartSearch(t)
           \/ RefitStep(t) \/ Query(t)
    PROVE  VocabSurvives'
<1> DEFINE R == Recovered(TRUE)
<1>0. /\ Typed /\ thr \in [Thread -> Calls] /\ Alone
      /\ provider \in AllProviders /\ vocab \in Vocabs /\ R \in Colls /\ R.vocab \in Vocabs
  <2>1. Typed /\ Alone /\ thr \in [Thread -> Calls] /\ provider \in AllProviders /\ vocab \in Vocabs
    BY DEF EmbedInv, Typed, ApartInv
  <2>2. R \in Colls
    BY <2>1, RecoveredType
  <2> QED
    BY <2>1, <2>2, CollIs
<1>b. "overlap" \notin mishaps' /\ "reject" \notin mishaps' /\ "logFails" \notin mishaps'
  OBVIOUS
<1>1. ASSUME NEW r, Become(t, r)
      PROVE  thr'[t] = r /\ \A x \in Thread : x # t => thr'[x] = thr[x]
  BY <1>0, <1>1 DEF Become
<1>2. ASSUME thr[t].pc # "idle"
      PROVE  up /\ slot = "Ready" /\ \A x \in Thread : x # t => thr[x].pc = "idle"
  BY <1>0, <1>2, CallHas DEF Alone
<1>3. ASSUME up, slot = "Ready", \A x \in Thread : x # t => thr[x].pc = "idle",
             thr[t].pc \notin {"write", "rewrite", "journal"}
      PROVE  Same(R.vocab, vocab)
  <2>1. \A x \in Thread : thr[x].pc \notin {"write", "rewrite", "journal"}
    BY <1>3
  <2> QED
    BY <1>3, <2>1 DEF VocabSurvives
<1>a. ASSUME up, \A x \in Thread : x # t => thr[x].pc = "idle",
             thr[t].pc \notin {"write", "rewrite", "journal"}
      PROVE  swapped => Same(StateIn(file.vocab), R.vocab)
  <2>1. \A x \in Thread : thr[x].pc \notin {"write", "rewrite", "journal"}
    BY <1>a
  <2> QED
    BY <1>a, <2>1 DEF VocabSurvives
<1>4. ASSUME UNCHANGED <<provider, wal, file>> PROVE R' = R
  BY <1>4, RecoveredStays
<1>5. ASSUME up, slot = "Ready", \A x \in Thread : x # t => thr[x].pc = "idle",
             thr[t].pc \notin {"write", "rewrite", "journal"},
             NEW r, Become(t, r), r.pc # "write",
             UNCHANGED <<provider, wal, file, swapped, slot, vocab>>
      PROVE  VocabSurvives'
  <2>1. R' = R /\ Same(R.vocab, vocab)
    BY <1>3, <1>4, <1>5
  <2>2. thr'[t] = r /\ \A x \in Thread : x # t => thr'[x].pc = "idle"
    BY <1>1, <1>5
  <2> HIDE DEF R
  <2>3. R'.vocab = R.vocab
    BY <2>1
  <2> QED
    BY <1>a, <1>5, <2>1, <2>2, <2>3, VocabStep DEF R
<1>6. ASSUME NEW b \in Batches, FoldIn(t, b) PROVE VocabSurvives'
  <2>1. PICK i \in Id, x \in Text, r \in Calls :
              /\ Become(t, r) /\ r.pc = "write" /\ r.order[1] = i
              /\ r.docs[i] = [text |-> x, vec |-> EmbedNonzero(provider, vocab', x)]
              /\ vocab' = AddDocument(provider, vocab, x)
    BY <1>0, <1>6, FoldInIs
  <2>2. /\ \A y \in Thread : y # t => thr[y].pc = "idle"
        /\ up /\ slot = "Ready" /\ thr[t].pc = "idle"
        /\ UNCHANGED <<provider, wal, file, swapped, slot>>
    BY <1>b, <1>6, StartsAlone DEF FoldIn, At
  <2>3. R' = R /\ Same(R.vocab, vocab)
    BY <1>3, <1>4, <2>2
  <2>4. Same(AddDocument(provider, R.vocab, x), vocab')
    BY <1>0, <2>1, <2>3, AddDocumentSame
  <2>5. thr'[t] = r /\ \A y \in Thread : y # t => thr'[y].pc = "idle"
    BY <1>1, <2>1, <2>2
  <2>6. Written(t)' = x
    BY <2>1, <2>5 DEF Written
  <2> HIDE DEF R
  <2>7. R'.vocab = R.vocab
    BY <2>3
  <2> QED
    BY <1>a, <2>1, <2>2, <2>4, <2>5, <2>6, <2>7, VocabStep DEF R
<1>7. ASSUME NEW y \in Text, RejectBatch(t, y) PROVE VocabSurvives'
  <2>1. /\ \A x \in Thread : x # t => thr[x].pc = "idle"
        /\ up /\ slot = "Ready" /\ thr[t].pc = "idle"
        /\ y \subseteq ToSet(vocab.terms) /\ vocab' = AddDocument(provider, vocab, y)
        /\ UNCHANGED <<provider, wal, file, swapped, slot, thr>>
    BY <1>b, <1>7, StartsAlone DEF RejectBatch, At
  <2>2. R' = R /\ Same(R.vocab, vocab)
    BY <1>3, <1>4, <2>1
  <2>3. Same(vocab', vocab)
    BY <1>0, <2>1, AddDocumentHolds DEF Holds, Absorbed
  <2> HIDE DEF R
  <2>4. Same(R'.vocab, vocab') /\ R'.vocab = R.vocab
    BY <2>2, <2>3 DEF Same
  <2> QED
    BY <1>a, <2>1, <2>4, VocabStep DEF R
<1>8. ASSUME WriteBatch(t) PROVE VocabSurvives'
  <2>1. /\ ~swapped /\ R'.vocab = AddDocument(provider, R.vocab, Written(t))
        /\ thr'[t] = [pc |-> "mark"] /\ \A x \in Thread : x # t => thr'[x] = thr[x]
    BY <1>8, WriteBatchIs
  <2>2. thr[t].pc = "write" /\ UNCHANGED <<vocab, swapped, slot>>
    BY <1>8 DEF WriteBatch, At
  <2>3. Same(AddDocument(provider, R.vocab, Written(t)), vocab)
    BY <2>2 DEF VocabSurvives
  <2> HIDE DEF R
  <2>4. Same(R'.vocab, vocab')
    BY <2>1, <2>2, <2>3
  <2>5. slot' = "Ready" /\ thr'[t].pc = "mark" /\ \A x \in Thread : x # t => thr'[x].pc = "idle"
    BY <1>2, <2>1, <2>2
  <2> QED
    BY <2>1, <2>2, <2>4, <2>5, VocabStep DEF R
<1>9. ASSUME MarkDirty(t) PROVE VocabSurvives'
  <2>1. /\ thr[t].pc = "mark" /\ Become(t, Idle) /\ Idle.pc = "idle"
        /\ UNCHANGED <<provider, wal, file, swapped, slot, vocab>>
    BY <1>9 DEF MarkDirty, At, Idle
  <2> QED
    BY <1>2, <1>5, <2>1
<1>10. ASSUME StartRefit(t) PROVE VocabSurvives'
  <2>1. /\ \A x \in Thread : x # t => thr[x].pc = "idle"
        /\ up /\ slot = "Ready" /\ thr[t].pc = "idle"
        /\ Become(t, [pc |-> "gather", then |-> "idle"])
        /\ UNCHANGED <<provider, wal, file, swapped, slot, vocab>>
    BY <1>b, <1>10, StartsAlone DEF StartRefit, At
  <2> QED
    BY <1>5, <2>1
<1>11. ASSUME StartSearch(t) PROVE VocabSurvives'
  <2> DEFINE r == IF dirty THEN [pc |-> "gather", then |-> "query"] ELSE [pc |-> "query"]
  <2>1. /\ \A x \in Thread : x # t => thr[x].pc = "idle"
        /\ up /\ slot = "Ready" /\ thr[t].pc = "idle" /\ Become(t, r)
        /\ UNCHANGED <<provider, wal, file, swapped, slot, vocab>>
    BY <1>b, <1>11, StartsAlone DEF StartSearch, At
  <2>2. r.pc # "write"
    OBVIOUS
  <2> HIDE DEF r
  <2> QED
    BY <1>5, <2>1, <2>2
<1>12. ASSUME Gather(t) PROVE VocabSurvives'
  <2> DEFINE r == IF DOMAIN docs = {} THEN [pc |-> thr[t].then]
                  ELSE [pc |-> "fit", then |-> thr[t].then, live |-> Texts(docs)]
  <2>1. /\ thr[t].pc = "gather" /\ Become(t, r)
        /\ UNCHANGED <<provider, wal, file, swapped, slot, vocab>>
    BY <1>12 DEF Gather, At
  <2>2. thr[t].then \in Thens
    BY <1>0, <2>1, CallIs
  <2>3. r.pc # "write"
    BY <2>2 DEF Thens
  <2> HIDE DEF r
  <2> QED
    BY <1>2, <1>5, <2>1, <2>3
<1>13. ASSUME FitAndEmbed(t) PROVE VocabSurvives'
  <2>1. /\ thr'[t] = [pc |-> "rewrite", then |-> thr[t].then,
                      docs |-> Embedded(provider, vocab', thr[t].live)]
        /\ \A x \in Thread : x # t => thr'[x] = thr[x]
    BY <1>13, FitAndEmbedIs
  <2>2. thr[t].pc = "fit" /\ UNCHANGED <<provider, wal, file, swapped, slot>>
    BY <1>13 DEF FitAndEmbed, At
  <2>3. R' = R
    BY <1>4, <2>2
  <2>4. thr'[t].pc = "rewrite" /\ slot' = "Ready" /\ \A x \in Thread : x # t => thr'[x].pc = "idle"
    BY <1>2, <2>1, <2>2
  <2> HIDE DEF R
  <2>5. R'.vocab = R.vocab
    BY <2>3
  <2>6. swapped => Same(StateIn(file.vocab), R.vocab)
    BY <1>2, <1>a, <2>2
  <2> QED
    BY <2>2, <2>4, <2>5, <2>6, VocabStep DEF R
<1>14. ASSUME Rewrite(t) PROVE VocabSurvives'
  <2>1. /\ ~swapped /\ thr'[t] = [pc |-> "journal", then |-> thr[t].then]
        /\ \A x \in Thread : x # t => thr'[x] = thr[x]
    BY <1>14, RewriteIs
  <2>2. thr[t].pc = "rewrite" /\ UNCHANGED <<swapped, slot>>
    BY <1>14 DEF Rewrite, At
  <2>3. thr'[t].pc = "journal" /\ slot' = "Ready" /\ \A x \in Thread : x # t => thr'[x].pc = "idle"
    BY <1>2, <2>1, <2>2
  <2> QED
    BY <2>1, <2>2, <2>3, VocabStep
<1>15. ASSUME RewriteFails(t) PROVE VocabSurvives'
  <2>1. /\ thr[t].pc = "rewrite" /\ Become(t, Idle) /\ Idle.pc = "idle" /\ R.vocab = vocab
        /\ UNCHANGED <<provider, wal, file, swapped, slot, vocab>>
    BY <1>b, <1>15 DEF RewriteFails, At, Idle, Note, NothingToChange
  <2>2. R' = R
    BY <1>4, <2>1
  <2>3. thr'[t].pc = "idle" /\ slot' = "Ready" /\ \A x \in Thread : x # t => thr'[x].pc = "idle"
    BY <1>1, <1>2, <2>1
  <2> HIDE DEF R
  <2>4. R'.vocab = R.vocab /\ Same(R'.vocab, vocab')
    BY <2>1, <2>2 DEF Same
  <2>5. swapped => Same(StateIn(file.vocab), R.vocab)
    <3>1. \A x \in Thread : thr[x].pc # "journal"
      BY <1>2, <2>1
    <3>2. file.vocab = {vocab} => StateIn(file.vocab) = vocab
      BY DEF StateIn
    <3> QED
      BY <1>2, <2>1, <3>1, <3>2 DEF VocabSurvives, Same, R
  <2> QED
    BY <2>1, <2>3, <2>4, <2>5, VocabStep DEF R
<1>16. ASSUME Journal(t) PROVE VocabSurvives'
  <2>1. /\ thr'[t] = [pc |-> "clear", then |-> thr[t].then]
        /\ \A x \in Thread : x # t => thr'[x] = thr[x]
        /\ provider = "onnx" => R' = R
        /\ provider # "onnx" => R'.vocab = vocab /\ ~swapped
    BY <1>16, JournalIs
  <2>2. thr[t].pc = "journal" /\ UNCHANGED <<vocab, swapped, slot, file>>
    BY <1>16 DEF Journal, At
  <2>3. slot = "Ready" /\ thr'[t].pc = "clear" /\ \A x \in Thread : x # t => thr'[x].pc = "idle"
    BY <1>2, <2>1, <2>2
  <2>4. provider = "onnx" => R.vocab = vocab /\ StateIn(file.vocab) = R.vocab
    BY <2>3, StatelessRecovers DEF EmbedInv, Stateless, StateIn
  <2> HIDE DEF R
  <2>5. R'.vocab = vocab'
    BY <2>1, <2>2, <2>4
  <2>6. swapped' => Same(StateIn(file'.vocab), R'.vocab)
    BY <2>1, <2>2, <2>4 DEF Same
  <2>7. Same(R'.vocab, vocab')
    BY <2>5 DEF Same
  <2> QED
    BY <2>2, <2>3, <2>6, <2>7, VocabStep DEF R
<1>17. ASSUME ClearDirty(t) PROVE VocabSurvives'
  <2>1. /\ thr[t].pc = "clear" /\ Become(t, [pc |-> thr[t].then])
        /\ UNCHANGED <<provider, wal, file, swapped, slot, vocab>>
    BY <1>17 DEF ClearDirty, At
  <2>2. thr[t].then # "write"
    BY <1>0, <2>1, CallIs DEF Thens
  <2>3. [pc |-> thr[t].then].pc # "write"
    BY <2>2
  <2> QED
    BY <1>2, <1>5, <2>1, <2>3
<1>18. ASSUME Query(t) PROVE VocabSurvives'
  <2>1. /\ thr[t].pc = "query" /\ Become(t, Idle) /\ Idle.pc = "idle"
        /\ UNCHANGED <<provider, wal, file, swapped, slot, vocab>>
    BY <1>18 DEF Query, At, Idle
  <2> QED
    BY <1>2, <1>5, <2>1
<1> QED
  BY <1>6, <1>7, <1>8, <1>9, <1>10, <1>11, <1>12, <1>13, <1>14, <1>15, <1>16, <1>17, <1>18
     DEF RefitStep

(* A checkpoint's file keeps every term its index, and may be ahead of the  *)
(* WAL by the words of the batch that is to be logged.                      *)
LEMMA CheckpointVocab ==
    ASSUME EmbedInv, Checkpoint, slot = "Ready", Begins(Recovered(TRUE).vocab.terms, vocab.terms)
    PROVE  Same(Recovered(TRUE)'.vocab, vocab) \/ Same(Recovered(TRUE)'.vocab, Recovered(TRUE).vocab)
<1> DEFINE R == Recovered(TRUE)
           c1 == Installed(file, TRUE)
           c2 == Installed(file', TRUE)
<1>1. /\ file' \in Files
      /\ file'.vocab = Export(provider, vocab)
      /\ R = Replay(provider, TRUE, c1, wal) /\ R' = Replay(provider, TRUE, c2, wal)
  BY CheckpointIs
<1>2. /\ provider \in AllProviders /\ wal \in Seq(Entries) /\ file \in Files /\ Stateless
  BY DEF EmbedInv, Typed
<1>3. c1 \in Colls /\ c2 \in Colls
  BY <1>1, <1>2, InstalledIs
<1>4. c2.vocab = vocab
  <2>1. c2.vocab = StateIn(file'.vocab)
    BY DEF Installed
  <2>2. provider # "onnx" => StateIn(file'.vocab) = vocab
    BY <1>1 DEF Export, StateIn
  <2>3. provider = "onnx" => StateIn(file'.vocab) = vocab
    BY <1>1, <1>2 DEF Export, StateIn, Stateless
  <2> QED
    BY <2>1, <2>2, <2>3
<1> HIDE DEF c1, c2
<1>5. Begins(Replay(provider, TRUE, c1, wal).vocab.terms, c2.vocab.terms)
  BY <1>1, <1>4
<1> QED
  BY <1>1, <1>2, <1>3, <1>4, <1>5, ReplayTwiceVocab

LEMMA VocabKept ==
    ASSUME EmbedInv, ApartInv, VocabSurvives, mishaps' \subseteq {"crashInRefit"}, [Next]_vars
    PROVE  VocabSurvives'
<1> DEFINE R == Recovered(TRUE)
<1>0. /\ Typed /\ Bound /\ Stateless /\ provider \in AllProviders /\ vocab \in Vocabs
      /\ wal \in Seq(Entries) /\ file \in Files /\ R \in Colls /\ R.vocab \in Vocabs
  <2>1. /\ Typed /\ Bound /\ Stateless /\ provider \in AllProviders /\ vocab \in Vocabs
        /\ wal \in Seq(Entries) /\ file \in Files
    BY DEF EmbedInv, Typed
  <2>2. R \in Colls
    BY <2>1, RecoveredType
  <2> QED
    BY <2>1, <2>2, CollIs
<1>a. /\ up /\ slot = "Ready" /\ Quiet => Same(R.vocab, vocab)
      /\ up /\ slot = "Missing" => /\ \A k \in 1..Len(wal) : wal[k].op # "upsert"
                                   /\ Same(StateIn(pending), R.vocab)
      /\ up /\ swapped /\ Quiet => Same(StateIn(file.vocab), R.vocab)
  BY DEF VocabSurvives, Quiet
<1>1. ASSUME NEW t \in Thread, NEW i \in Id, Delete(t, i) PROVE VocabSurvives'
  <2>1. /\ ~swapped /\ UNCHANGED thr /\ R'.vocab = R.vocab
        /\ \A k \in 1..Len(wal') : wal'[k].op = "delete" \/ (k \in 1..Len(wal) /\ wal'[k] = wal[k])
    BY <1>1, DeleteDoes
  <2>2. UNCHANGED <<provider, vocab, pending, up, slot, swapped>>
    BY <1>1 DEF Delete
  <2>3. \A x \in Thread : Written(x)' = Written(x)
    BY <2>1 DEF Written
  <2> HIDE DEF R
  <2>4. up' /\ slot' = "Missing" => /\ \A k \in 1..Len(wal') : wal'[k].op # "upsert"
                                    /\ Same(StateIn(pending'), R'.vocab)
    BY <1>a, <2>1, <2>2
  <2>5. up' /\ slot' = "Ready" /\ (\A x \in Thread : thr'[x].pc \notin {"write", "rewrite", "journal"})
          => Same(R'.vocab, vocab')
    BY <2>1, <2>2 DEF VocabSurvives, R
  <2>6. \A x \in Thread : thr'[x].pc = "write" =>
          Same(AddDocument(provider', R'.vocab, Written(x)'), vocab')
    BY <2>1, <2>2, <2>3 DEF VocabSurvives, R
  <2> QED
    BY <2>1, <2>2, <2>4, <2>5, <2>6 DEF VocabSurvives, R
<1>2. ASSUME Quiet', up' /\ slot' = "Ready" => Same(R'.vocab, vocab'),
             up' /\ slot' = "Missing" => /\ \A k \in 1..Len(wal') : wal'[k].op # "upsert"
                                         /\ Same(StateIn(pending'), R'.vocab),
             up' /\ swapped' => Same(StateIn(file'.vocab), R'.vocab)
      PROVE  VocabSurvives'
  BY <1>2 DEF VocabSurvives, Quiet
<1>3. CASE Checkpoint
  <2> DEFINE c1 == Installed(file, TRUE)
             c2 == Installed(file', TRUE)
             f == StateIn(file'.vocab)
  <2>1. /\ file' \in Files
        /\ file'.vocab = IF slot = "Ready" THEN Export(provider, vocab) ELSE pending
        /\ R = Replay(provider, TRUE, c1, wal) /\ R' = Replay(provider, TRUE, c2, wal)
    BY <1>3, CheckpointIs
  <2>2. /\ up /\ UNCHANGED <<provider, vocab, pending, up, slot, thr, wal>>
    BY <1>3 DEF Checkpoint
  <2>3. c1 \in Colls /\ c2 \in Colls /\ c2.vocab = f /\ f \in Vocabs /\ R' \in Colls /\ R'.vocab \in Vocabs
    <3>1. c1 \in Colls /\ c2 \in Colls
      BY <1>0, <2>1, InstalledIs
    <3>2. c2.vocab = f
      BY DEF Installed
    <3>3. R' \in Colls
      <4> HIDE DEF c1, c2
      <4> QED
        BY <1>0, <2>1, <3>1, ReplayType
    <3> QED
      BY <3>1, <3>2, <3>3, CollIs
  <2>4. ASSUME Begins(R.vocab.terms, f.terms)
        PROVE  Same(R'.vocab, f) \/ Same(R'.vocab, R.vocab)
    <3> HIDE DEF c1, c2, f
    <3>1. Begins(Replay(provider, TRUE, c1, wal).vocab.terms, c2.vocab.terms)
      BY <2>1, <2>3, <2>4
    <3> QED
      BY <1>0, <2>1, <2>3, <3>1, ReplayTwiceVocab
  <2>5. /\ slot = "Ready" /\ provider # "onnx" => file'.vocab = {vocab}
        /\ slot = "Ready" => f = vocab
    <3>1. slot = "Ready" /\ provider # "onnx" => file'.vocab = {vocab} /\ f = vocab
      BY <2>1 DEF Export, StateIn
    <3>2. slot = "Ready" /\ provider = "onnx" => f = vocab
      BY <1>0, <2>1 DEF Export, StateIn, Stateless
    <3> QED
      BY <3>1, <3>2
  <2>6. R.vocab.terms \in TermSeqs /\ vocab.terms \in TermSeqs /\ f.terms \in TermSeqs
    BY <1>0, <2>3 DEF Vocabs
  <2>10. provider = "onnx" /\ f = Unfitted => R'.vocab = Unfitted
    <3> HIDE DEF c1, c2, f
    <3>1. provider = "onnx" => \A k \in 1..Len(wal) : wal[k].op # "vocab"
      BY <1>0 DEF Stateless
    <3> QED
      BY <1>0, <2>1, <2>3, <3>1, ReplayStateless
  <2> HIDE DEF R, f, c1, c2
  <2>7. ASSUME Same(f, R.vocab)
        PROVE  Same(R'.vocab, R.vocab) /\ Same(f, R'.vocab)
    <3>1. Begins(R.vocab.terms, f.terms)
      BY <2>6, <2>7, BeginsChain DEF Same
    <3> QED
      BY <2>4, <2>7, <3>1 DEF Same
  <2>8. CASE Quiet
    <3>1. slot \in {"Ready", "Missing"}
      BY <1>0 DEF Typed
    <3>2. slot = "Missing" => f = StateIn(pending)
      BY <2>1 DEF f
    <3>3. Same(f, R.vocab)
      BY <1>a, <2>2, <2>5, <2>8, <3>1, <3>2 DEF Same, R
    <3>4. Same(R'.vocab, R.vocab) /\ Same(f, R'.vocab)
      BY <2>7, <3>3
    <3>5. Quiet'
      BY <2>2, <2>8 DEF Quiet
    <3>6. slot = "Ready" => Same(R'.vocab, vocab')
      BY <2>2, <2>5, <3>4 DEF Same
    <3>7. slot = "Missing" => Same(StateIn(pending'), R'.vocab)
      BY <2>2, <3>2, <3>4
    <3> QED
      BY <1>a, <1>2, <2>2, <3>4, <3>5, <3>6, <3>7 DEF R, f
  <2>9. CASE ~Quiet
    <3>1. PICK t \in Thread : thr[t].pc # "idle"
      BY <2>9 DEF Quiet
    <3>2. slot = "Ready" /\ \A x \in Thread : x # t => thr[x].pc = "idle"
      BY <3>1, CallHas DEF ApartInv, Alone
    <3>3. \A x \in Thread : x # t => thr'[x].pc = "idle"
      BY <2>2, <3>2
    <3>4. f = vocab
      BY <2>5, <3>2
    <3>5. CASE thr[t].pc \notin {"write", "rewrite", "journal"}
      <4>1. \A x \in Thread : thr[x].pc \notin {"write", "rewrite", "journal"}
        BY <3>2, <3>5
      <4>2. Same(f, R.vocab)
        BY <2>2, <3>2, <3>4, <4>1 DEF VocabSurvives, Same, R
      <4>3. Same(R'.vocab, vocab') /\ Same(f, R'.vocab)
        BY <2>2, <2>7, <3>4, <4>2 DEF Same
      <4> QED
        BY <2>2, <3>2, <3>3, <3>5, <4>3, VocabStep DEF R, f
    <3>6. CASE thr[t].pc \in {"rewrite", "journal"}
      <4>1. CASE provider # "onnx"
        BY <2>2, <2>5, <3>2, <3>3, <3>6, <4>1, VocabStep
      <4>2. CASE provider = "onnx"
        <5>1. f = Unfitted
          BY <1>0, <3>2, <3>4, <4>2 DEF Stateless
        <5>2. R'.vocab = Unfitted
          BY <2>10, <4>2, <5>1
        <5> QED
          BY <2>2, <3>2, <3>3, <3>6, <5>1, <5>2, VocabStep DEF Same, R, f
      <4> QED
        BY <4>1, <4>2
    <3>7. CASE thr[t].pc = "write"
      <4> DEFINE x == Written(t)
      <4>1. Same(AddDocument(provider, R.vocab, x), vocab)
        BY <3>7 DEF VocabSurvives, R
      <4>2. x \in Text
        BY <1>0, <3>7, WrittenIs
      <4>3. x' = x
        BY <2>2 DEF Written
      <4> HIDE DEF x
      <4>4. /\ Begins(R.vocab.terms, AddDocument(provider, R.vocab, x).terms)
            /\ Holds(provider, AddDocument(provider, R.vocab, x).terms, x)
        BY <1>0, <4>2, AddDocumentHolds DEF R
      <4>5. Begins(R.vocab.terms, f.terms) /\ Holds(provider, vocab.terms, x)
        BY <3>4, <4>1, <4>4 DEF Same
      <4>6. Same(AddDocument(provider, vocab, x), vocab)
        BY <1>0, <4>2, <4>5, AddDocumentHolds
      <4>7. Same(AddDocument(provider, R'.vocab, x), vocab)
        <5>1. CASE Same(R'.vocab, f)
          <6>1. Same(AddDocument(provider, R'.vocab, x), AddDocument(provider, vocab, x))
            BY <1>0, <2>3, <3>4, <4>2, <5>1, AddDocumentSame DEF R
          <6> QED
            BY <4>6, <6>1 DEF Same
        <5>2. CASE Same(R'.vocab, R.vocab)
          <6>1. Same(AddDocument(provider, R'.vocab, x), AddDocument(provider, R.vocab, x))
            BY <1>0, <2>3, <4>2, <5>2, AddDocumentSame DEF R
          <6> QED
            BY <4>1, <6>1 DEF Same
        <5> QED
          BY <2>4, <4>5, <5>1, <5>2
      <4>8. provider # "onnx" => file'.vocab = {vocab}
        BY <2>5, <3>2
      <4>9. provider = "onnx" => Same(f, R'.vocab)
        <5> SUFFICES ASSUME provider = "onnx" PROVE Same(f, R'.vocab)
          OBVIOUS
        <5>2. f = Unfitted
          BY <1>0, <3>2, <3>4 DEF Stateless
        <5>3. R'.vocab = Unfitted
          BY <2>10, <5>2
        <5> QED
          BY <5>2, <5>3 DEF Same
      <4> QED
        BY <2>2, <3>2, <3>3, <3>7, <4>3, <4>7, <4>8, <4>9, VocabStep DEF R, f, x
    <3> QED
      BY <3>5, <3>6, <3>7
  <2> QED
    BY <2>8, <2>9
<1>4. CASE Truncate
  <2>1. R'.vocab = StateIn(file.vocab)
    BY <1>4, TruncateIs
  <2>2. /\ up /\ swapped /\ swapped' = FALSE /\ wal' = <<>>
        /\ UNCHANGED <<provider, vocab, pending, up, slot, thr, file>>
    BY <1>4 DEF Truncate
  <2> HIDE DEF R
  <2>3. R'.vocab \in Vocabs
    BY <1>0, <2>1, UnfittedType DEF StateIn, Files
  <2>4. CASE \E t \in Thread : thr[t].pc \in {"rewrite", "journal"}
    <3>1. PICK t \in Thread : thr[t].pc \in {"rewrite", "journal"}
      BY <2>4
    <3>2. slot = "Ready" /\ \A x \in Thread : x # t => thr[x].pc = "idle"
      BY <3>1, CallHas DEF ApartInv, Alone
    <3> QED
      BY <2>2, <3>1, <3>2, VocabStep
  <2>5. CASE Same(R'.vocab, R.vocab)
    <3>1. up' /\ slot' = "Ready" /\ (\A x \in Thread : thr'[x].pc \notin {"write", "rewrite", "journal"})
            => Same(R'.vocab, vocab')
      BY <2>2, <2>5 DEF VocabSurvives, Same, R
    <3>2. ASSUME NEW x \in Thread, thr'[x].pc = "write"
          PROVE  Same(AddDocument(provider', R'.vocab, Written(x)'), vocab')
      <4>1. thr[x].pc = "write" /\ Written(x) \in Text /\ Written(x)' = Written(x)
        BY <1>0, <2>2, <3>2, WrittenIs DEF Written
      <4>2. Same(AddDocument(provider, R'.vocab, Written(x)), AddDocument(provider, R.vocab, Written(x)))
        BY <1>0, <2>3, <2>5, <4>1, AddDocumentSame DEF R
      <4>3. Same(AddDocument(provider, R.vocab, Written(x)), vocab)
        BY <4>1 DEF VocabSurvives, R
      <4> QED
        BY <2>2, <4>1, <4>2, <4>3 DEF Same
    <3>3. up' /\ slot' = "Missing" => /\ \A k \in 1..Len(wal') : wal'[k].op # "upsert"
                                      /\ Same(StateIn(pending'), R'.vocab)
      BY <1>a, <2>2, <2>5 DEF Same
    <3> QED
      BY <2>2, <3>1, <3>2, <3>3 DEF VocabSurvives, R
  <2>6. CASE file.vocab = {vocab} /\ \E t \in Thread : thr[t].pc = "write"
    <3>1. PICK t \in Thread : thr[t].pc = "write"
      BY <2>6
    <3>2. slot = "Ready" /\ \A x \in Thread : x # t => thr[x].pc = "idle"
      BY <3>1, CallHas DEF ApartInv, Alone
    <3>3. R'.vocab = vocab
      BY <2>1, <2>6 DEF StateIn
    <3> DEFINE x == Written(t)
    <3>4. x \in Text /\ x' = x /\ Same(AddDocument(provider, R.vocab, x), vocab)
      BY <1>0, <2>2, <3>1, WrittenIs DEF Written, VocabSurvives, R
    <3> HIDE DEF x
    <3>5. Holds(provider, AddDocument(provider, R.vocab, x).terms, x)
      BY <1>0, <3>4, AddDocumentHolds DEF R
    <3>6. Same(AddDocument(provider, vocab, x), vocab)
      BY <1>0, <3>4, <3>5, AddDocumentHolds DEF Same
    <3> QED
      BY <2>2, <3>1, <3>2, <3>3, <3>4, <3>6, VocabStep DEF R, x
  <2>7. \/ \E t \in Thread : thr[t].pc \in {"rewrite", "journal"}
        \/ Same(StateIn(file.vocab), R.vocab)
        \/ file.vocab = {vocab} /\ \E t \in Thread : thr[t].pc = "write"
    BY <2>2 DEF VocabSurvives, R
  <2>8. Same(StateIn(file.vocab), R.vocab) => Same(R'.vocab, R.vocab)
    BY <2>1
  <2> QED
    BY <2>4, <2>5, <2>6, <2>7, <2>8
<1>5. CASE Crash
  <2>1. R' = R /\ ~up' /\ Quiet'
    BY <1>5, CrashKeeps
  <2>2. UNCHANGED <<swapped, file>>
    BY <1>5 DEF Crash
  <2> HIDE DEF R
  <2>3. R'.vocab = R.vocab
    BY <2>1
  <2> QED
    BY <1>2, <2>1 DEF R
<1>6. CASE Open
  <2>1. /\ R' = R /\ Quiet /\ UNCHANGED thr
        /\ \/ slot' = "Ready" /\ vocab' = R.vocab
           \/ /\ slot' = "Missing" /\ pending' = Recovered(FALSE).pending
              /\ \A k \in 1..Len(wal) : wal[k].op # "upsert"
    BY <1>6, OpenIs
  <2>2. Quiet' /\ swapped' = FALSE /\ UNCHANGED wal
    BY <1>6, <2>1 DEF Quiet, Open
  <2>3. CASE slot' = "Ready" /\ vocab' = R.vocab
    <3> HIDE DEF R
    <3>1. Same(R'.vocab, vocab')
      BY <2>1, <2>3 DEF Same
    <3> QED
      BY <1>2, <2>2, <2>3, <3>1 DEF R
  <2>4. CASE slot' = "Missing" /\ pending' = Recovered(FALSE).pending
             /\ \A k \in 1..Len(wal) : wal[k].op # "upsert"
    <3> DEFINE c1 == Installed(file, TRUE)
               c2 == Installed(file, FALSE)
    <3>1. c1 \in Colls /\ c2 \in Colls
      BY <1>0, InstalledIs
    <3>2. StateIn(c2.pending) = c1.vocab
      BY DEF Installed
    <3>3. R = Replay(provider, TRUE, c1, wal) /\ Recovered(FALSE) = Replay(provider, FALSE, c2, wal)
      BY DEF Recovered
    <3> HIDE DEF c1, c2
    <3>4. StateIn(Replay(provider, FALSE, c2, wal).pending) = Replay(provider, TRUE, c1, wal).vocab
      BY <1>0, <2>4, <3>1, <3>2, ReplayLate
    <3>5. StateIn(pending') = R.vocab
      BY <2>4, <3>3, <3>4
    <3> HIDE DEF R
    <3>6. Same(StateIn(pending'), R'.vocab)
      BY <2>1, <3>5 DEF Same
    <3> QED
      BY <1>2, <2>2, <2>4, <3>6 DEF R
  <2> QED
    BY <2>1, <2>3, <2>4
<1>7. CASE BindEmbedder
  <2>1. R' = R /\ Quiet
    BY <1>7, BindEmbedderIs
  <2>2. /\ up /\ slot = "Missing" /\ slot' = "Ready" /\ vocab' = StateIn(pending)
        /\ UNCHANGED <<thr, file, swapped>>
    BY <1>7 DEF BindEmbedder
  <2> HIDE DEF R
  <2>3. R'.vocab = R.vocab /\ Same(R'.vocab, vocab')
    BY <1>a, <2>1, <2>2 DEF Same
  <2>4. Quiet'
    BY <2>1, <2>2 DEF Quiet
  <2>5. swapped' => Same(StateIn(file'.vocab), R'.vocab)
    BY <1>a, <2>1, <2>2, <2>3
  <2> QED
    BY <1>2, <2>2, <2>3, <2>4, <2>5 DEF R
<1>8. CASE UNCHANGED vars
  <2>1. R' = R
    BY <1>8, StutterKeeps
  <2>2. \A x \in Thread : Written(x)' = Written(x)
    BY <1>8 DEF vars, Written
  <2> HIDE DEF R
  <2>3. R'.vocab = R.vocab
    BY <2>1
  <2> QED
    BY <1>8, <2>2, <2>3 DEF vars, VocabSurvives, R
<1> QED
  BY <1>1, <1>3, <1>4, <1>5, <1>6, <1>7, <1>8, VocabThread DEF Next

LEMMA VocabStarts ==
    ASSUME Init
    PROVE  VocabSurvives
<1>1. /\ slot = "Ready" /\ swapped = FALSE /\ thr = [t \in Thread |-> Idle] /\ Idle.pc = "idle"
  BY DEF Init, Idle
<1>2. Recovered(TRUE).vocab = vocab
  BY EmbedStarts
<1> QED
  BY <1>1, <1>2 DEF VocabSurvives, Same

(* Until calls overlap, a batch is rejected half-way, the log refuses a     *)
(* refit's batch or the provider comes after text in the WAL, a crash       *)
(* between any two steps recovers the documents and a vocabulary with       *)
(* every term at its index, over the file of a checkpoint at any point of a *)
(* call too.                                                                *)
THEOREM RecoveryExact == Spec => []RecoveryConverges
<1> DEFINE Fine == mishaps \subseteq {"crashInRefit"}
           Inv == EmbedInv /\ (Fine => ApartInv /\ VocabSurvives)
<1>1. Init => Inv
  BY EmbedStarts, ApartStarts, VocabStarts
<1>2. Inv /\ [Next]_vars => Inv'
  <2> SUFFICES ASSUME Inv, [Next]_vars, Fine' PROVE ApartInv' /\ VocabSurvives'
    BY EmbedInvKept
  <2>1. Fine /\ "overlap" \notin mishaps'
    BY MishapsGrow
  <2> QED
    BY <2>1, ApartInvKept, VocabKept
<1>3. Inv => RecoveryConverges
  <2> SUFFICES ASSUME EmbedInv, VocabSurvives, Settled
               PROVE  /\ Recovered(TRUE).docs = docs
                      /\ Same(Recovered(TRUE).vocab, vocab)
    BY DEF RecoveryConverges, Same
  <2>1. up /\ slot = "Ready" /\ \A t \in Thread : thr[t].pc = "idle"
    BY DEF Settled, Quiet
  <2> QED
    BY <2>1 DEF EmbedInv, DocsSurvive, VocabSurvives
<1> QED
  BY <1>1, <1>2, <1>3, PTL DEF Spec

-----------------------------------------------------------------------------
(* Stored components.                                                       *)

(* A vector made with a vocabulary is comparable with it.                   *)
LEMMA MadeComparable ==
    ASSUME NEW v \in Vocabs, provider \in AllProviders, HasTerms(provider), NEW d \in DocSets,
           \A i \in DOMAIN d : d[i].vec = EmbedNonzero(provider, v, d[i].text)
    PROVE  Comparable(d, v.terms)
<1> SUFFICES ASSUME NEW i \in DOMAIN d, d[i].vec # Placeholder, NEW k \in d[i].vec.idx
             PROVE  k \in DOMAIN v.terms /\ v.terms[k] \in d[i].text
  BY DEF Comparable
<1>1. d[i].text \in Text
  BY DocSetIs DEF Docs
<1>2. EmbedNonzero(provider, v, d[i].text).idx \subseteq Known(v, d[i].text)
  BY <1>1, EmbedNonzeroIs
<1>3. k \in Known(v, d[i].text)
  BY <1>2
<1> QED
  BY <1>3 DEF Known

(* Terms added at the end change nothing.                                   *)
LEMMA ComparableLater ==
    ASSUME NEW d, NEW s \in TermSeqs, NEW z \in TermSeqs, Begins(s, z), Comparable(d, s)
    PROVE  Comparable(d, z)
<1> SUFFICES ASSUME NEW i \in DOMAIN d, d[i].vec # Placeholder, NEW k \in d[i].vec.idx
             PROVE  k \in DOMAIN z /\ z[k] \in d[i].text
  BY DEF Comparable
<1>1. k \in DOMAIN s /\ s[k] \in d[i].text
  BY DEF Comparable
<1>2. DOMAIN s = 1..Len(s) /\ DOMAIN z = 1..Len(z) /\ Len(s) \in Nat /\ Len(z) \in Nat
  BY DEF TermSeqs
<1>3. k \in 1..Len(z) /\ z[k] = s[k]
  BY <1>1, <1>2 DEF Begins
<1> QED
  BY <1>1, <1>2, <1>3

LEMMA ComparableOver ==
    ASSUME NEW d \in DocSets, NEW e \in DocSets, NEW s, Comparable(d, s),
           \/ Comparable(e, s)
           \/ DOMAIN d = DOMAIN e
    PROVE  Comparable(Over(d, e), s)
<1>1. /\ DOMAIN Over(d, e) = DOMAIN d \cup DOMAIN e
      /\ \A i \in DOMAIN d : Over(d, e)[i] = d[i]
      /\ \A i \in DOMAIN e : i \notin DOMAIN d => Over(d, e)[i] = e[i]
  BY OverIs
<1> DEFINE o == Over(d, e)
<1> HIDE DEF o
<1>2. \A i \in DOMAIN o : (i \in DOMAIN d /\ o[i] = d[i]) \/ (i \in DOMAIN e /\ i \notin DOMAIN d /\ o[i] = e[i])
  BY <1>1 DEF o
<1>3. Comparable(o, s)
  BY <1>2 DEF Comparable
<1> QED
  BY <1>3 DEF o

LEMMA ComparableWithout ==
    ASSUME NEW d \in DocSets, NEW S, NEW s, Comparable(d, s)
    PROVE  Comparable(Without(d, S), s)
<1> DEFINE o == Without(d, S)
<1>1. DOMAIN o \subseteq DOMAIN d /\ \A i \in DOMAIN o : o[i] = d[i]
  BY WithoutIs
<1> HIDE DEF o
<1>2. Comparable(o, s)
  BY <1>1 DEF Comparable
<1> QED
  BY <1>2 DEF o

LEMMA ComparableStep ==
    ASSUME NEW t \in Thread, \A x \in Thread : x # t => thr'[x].pc = "idle",
           thr'[t].pc # "journal" => Comparable(Recovered(TRUE)'.docs, Recovered(TRUE)'.vocab.terms),
           thr'[t].pc = "journal" => Comparable(docs', vocab'.terms),
           thr'[t].pc \in {"write", "rewrite"} => Comparable(thr'[t].docs, vocab'.terms)
    PROVE  ComparableInv'
<1>1. \A x \in Thread : thr'[x].pc # "idle" => x = t
  OBVIOUS
<1>2. ~HalfRefit' => Comparable(Recovered(TRUE)'.docs, Recovered(TRUE)'.vocab.terms)
  BY DEF HalfRefit
<1>3. \A x \in Thread :
         /\ thr'[x].pc = "journal" => Comparable(docs', vocab'.terms)
         /\ thr'[x].pc \in {"write", "rewrite"} => Comparable(thr'[x].docs, vocab'.terms)
  BY <1>1
<1> QED
  BY <1>2, <1>3 DEF ComparableInv

LEMMA ComparableThread ==
    ASSUME EmbedInv, ApartInv, VocabSurvives, VocabSurvives', ComparableInv, mishaps' = {},
           NEW t \in Thread,
           \/ \E b \in Batches : FoldIn(t, b)
           \/ \E x \in Text : RejectBatch(t, x)
           \/ WriteBatch(t) \/ MarkDirty(t) \/ StartRefit(t) \/ StartSearch(t)
           \/ RefitStep(t) \/ Query(t)
    PROVE  ComparableInv'
<1> DEFINE R == Recovered(TRUE)
<1>0. /\ Typed /\ thr \in [Thread -> Calls] /\ Alone /\ docs \in DocSets
      /\ provider \in AllProviders /\ vocab \in Vocabs
      /\ R \in Colls /\ R.vocab \in Vocabs /\ R.docs \in DocSets
  <2>1. /\ Typed /\ Alone /\ thr \in [Thread -> Calls] /\ provider \in AllProviders
        /\ vocab \in Vocabs /\ docs \in DocSets
    BY DEF EmbedInv, Typed, ApartInv
  <2>2. R \in Colls
    BY <2>1, RecoveredType
  <2> QED
    BY <2>1, <2>2, CollIs
<1>1. ASSUME NEW r, Become(t, r)
      PROVE  thr'[t] = r /\ \A x \in Thread : x # t => thr'[x] = thr[x]
  BY <1>0, <1>1 DEF Become
<1>2. ASSUME thr[t].pc # "idle"
      PROVE  up /\ slot = "Ready" /\ \A x \in Thread : x # t => thr[x].pc = "idle"
  BY <1>0, <1>2, CallHas DEF Alone
<1>3. ASSUME UNCHANGED <<provider, wal, file>> PROVE R' = R
  BY <1>3, RecoveredStays
<1> SUFFICES ASSUME HasTerms(provider') PROVE ComparableInv'
  BY DEF ComparableInv
<1>4. UNCHANGED provider
  BY DEF FoldIn, RejectBatch, WriteBatch, MarkDirty, StartRefit, StartSearch, RefitStep, Gather,
         FitAndEmbed, Rewrite, RewriteFails, Journal, ClearDirty, Query
<1>5. HasTerms(provider)
  BY <1>4
<1>6. ASSUME \A x \in Thread : x # t => thr[x].pc = "idle", thr[t].pc \notin {"journal", "rewrite"}
      PROVE  Comparable(R.docs, R.vocab.terms)
  <2>1. ~HalfRefit
    BY <1>6 DEF HalfRefit
  <2> QED
    BY <1>5, <2>1 DEF ComparableInv
<1>7. ASSUME \A x \in Thread : x # t => thr[x].pc = "idle", thr[t].pc \notin {"journal", "rewrite"},
             NEW r, Become(t, r), r.pc \notin {"write", "rewrite", "journal"},
             UNCHANGED <<provider, wal, file>>
      PROVE  ComparableInv'
  <2>1. R' = R /\ Comparable(R.docs, R.vocab.terms)
    BY <1>3, <1>6, <1>7
  <2>2. thr'[t] = r /\ \A x \in Thread : x # t => thr'[x].pc = "idle"
    BY <1>1, <1>7
  <2> HIDE DEF R
  <2>3. R'.vocab.terms = R.vocab.terms /\ R'.docs = R.docs
    BY <2>1
  <2> QED
    BY <1>7, <2>1, <2>2, <2>3, ComparableStep DEF R
<1>8. ASSUME NEW b \in Batches, FoldIn(t, b) PROVE ComparableInv'
  <2>1. PICK i \in Id, x \in Text, r \in Calls :
              /\ Become(t, r) /\ r.pc = "write" /\ DOMAIN r.docs = {i}
              /\ r.docs[i] = [text |-> x, vec |-> EmbedNonzero(provider, vocab', x)]
              /\ vocab' = AddDocument(provider, vocab, x)
    BY <1>0, <1>8, FoldInIs
  <2>2. /\ \A y \in Thread : y # t => thr[y].pc = "idle"
        /\ thr[t].pc = "idle" /\ UNCHANGED <<provider, wal, file>>
    BY <1>8, StartsAlone DEF FoldIn, At
  <2>3. R' = R /\ Comparable(R.docs, R.vocab.terms)
    BY <1>3, <1>6, <2>2
  <2>4. r.docs \in DocSets /\ vocab' \in Vocabs
    BY <1>0, <2>1, CallIs, AddDocumentIs
  <2>5. \A j \in DOMAIN r.docs : r.docs[j].vec = EmbedNonzero(provider, vocab', r.docs[j].text)
    BY <2>1
  <2>6. Comparable(r.docs, vocab'.terms)
    BY <1>0, <1>5, <2>4, <2>5, MadeComparable
  <2>7. thr'[t] = r /\ \A y \in Thread : y # t => thr'[y].pc = "idle"
    BY <1>1, <2>1, <2>2
  <2> HIDE DEF R
  <2>8. R'.vocab.terms = R.vocab.terms /\ R'.docs = R.docs
    BY <2>3
  <2> QED
    BY <2>1, <2>3, <2>6, <2>7, <2>8, ComparableStep DEF R
<1>9. ASSUME NEW y \in Text, RejectBatch(t, y) PROVE ComparableInv'
  <2>1. /\ \A x \in Thread : x # t => thr[x].pc = "idle"
        /\ thr[t].pc = "idle" /\ UNCHANGED <<provider, wal, file, thr>>
    BY <1>9, StartsAlone DEF RejectBatch, At
  <2>2. R' = R /\ Comparable(R.docs, R.vocab.terms)
    BY <1>3, <1>6, <2>1
  <2> HIDE DEF R
  <2>3. R'.vocab.terms = R.vocab.terms /\ R'.docs = R.docs
    BY <2>2
  <2> QED
    BY <2>1, <2>2, <2>3, ComparableStep DEF R
<1>10. ASSUME WriteBatch(t) PROVE ComparableInv'
  <2>1. /\ thr[t].docs \in DocSets /\ Written(t) \in Text
        /\ R'.docs = Over(thr[t].docs, R.docs)
        /\ R'.vocab = AddDocument(provider, R.vocab, Written(t))
        /\ thr'[t] = [pc |-> "mark"] /\ \A x \in Thread : x # t => thr'[x] = thr[x]
    BY <1>10, WriteBatchIs
  <2>2. thr[t].pc = "write"
    BY <1>10 DEF WriteBatch, At
  <2>3. thr'[t].pc = "mark" /\ \A x \in Thread : x # t => thr[x].pc = "idle" /\ thr'[x].pc = "idle"
    BY <1>2, <2>1, <2>2
  <2>4. Comparable(R.docs, R.vocab.terms)
    BY <1>6, <2>2, <2>3
  <2>5. Same(AddDocument(provider, R.vocab, Written(t)), vocab) /\ Comparable(thr[t].docs, vocab.terms)
    BY <1>5, <2>2 DEF VocabSurvives, ComparableInv
  <2>6. Begins(R.vocab.terms, AddDocument(provider, R.vocab, Written(t)).terms)
    BY <1>0, <2>1, AddDocumentHolds
  <2>7. AddDocument(provider, R.vocab, Written(t)).terms = vocab.terms
    BY <2>5 DEF Same
  <2>8. R.vocab.terms \in TermSeqs /\ vocab.terms \in TermSeqs
    BY <1>0 DEF Vocabs
  <2> HIDE DEF R
  <2>9. R'.vocab.terms = vocab.terms
    BY <2>1, <2>7
  <2>10. Comparable(R.docs, vocab.terms)
    BY <2>4, <2>6, <2>7, <2>8, ComparableLater
  <2>11. Comparable(Over(thr[t].docs, R.docs), vocab.terms)
    BY <1>0, <2>1, <2>5, <2>10, ComparableOver
  <2>12. Comparable(R'.docs, R'.vocab.terms)
    BY <2>1, <2>9, <2>11
  <2> QED
    BY <2>3, <2>12, ComparableStep DEF R
<1>11. ASSUME MarkDirty(t) PROVE ComparableInv'
  <2>1. /\ thr[t].pc = "mark" /\ Become(t, Idle) /\ Idle.pc = "idle"
        /\ UNCHANGED <<provider, wal, file>>
    BY <1>11 DEF MarkDirty, At, Idle
  <2> QED
    BY <1>2, <1>7, <2>1
<1>12. ASSUME StartRefit(t) PROVE ComparableInv'
  <2>1. /\ \A x \in Thread : x # t => thr[x].pc = "idle"
        /\ thr[t].pc = "idle" /\ Become(t, [pc |-> "gather", then |-> "idle"])
        /\ UNCHANGED <<provider, wal, file>>
    BY <1>12, StartsAlone DEF StartRefit, At
  <2> QED
    BY <1>7, <2>1
<1>13. ASSUME StartSearch(t) PROVE ComparableInv'
  <2> DEFINE r == IF dirty THEN [pc |-> "gather", then |-> "query"] ELSE [pc |-> "query"]
  <2>1. /\ \A x \in Thread : x # t => thr[x].pc = "idle"
        /\ thr[t].pc = "idle" /\ Become(t, r) /\ UNCHANGED <<provider, wal, file>>
    BY <1>13, StartsAlone DEF StartSearch, At
  <2>2. r.pc \notin {"write", "rewrite", "journal"}
    OBVIOUS
  <2> HIDE DEF r
  <2> QED
    BY <1>7, <2>1, <2>2
<1>14. ASSUME Gather(t) PROVE ComparableInv'
  <2> DEFINE r == IF DOMAIN docs = {} THEN [pc |-> thr[t].then]
                  ELSE [pc |-> "fit", then |-> thr[t].then, live |-> Texts(docs)]
  <2>1. thr[t].pc = "gather" /\ Become(t, r) /\ UNCHANGED <<provider, wal, file>>
    BY <1>14 DEF Gather, At
  <2>2. thr[t].then \in Thens
    BY <1>0, <2>1, CallIs
  <2>3. r.pc \notin {"write", "rewrite", "journal"}
    BY <2>2 DEF Thens
  <2> HIDE DEF r
  <2> QED
    BY <1>2, <1>7, <2>1, <2>3
<1>15. ASSUME FitAndEmbed(t) PROVE ComparableInv'
  <2> DEFINE d == Embedded(provider, vocab', thr[t].live)
  <2>1. /\ vocab' \in Vocabs /\ thr[t].live \in Corpora
        /\ thr'[t] = [pc |-> "rewrite", then |-> thr[t].then, docs |-> d]
        /\ \A x \in Thread : x # t => thr'[x] = thr[x]
    BY <1>15, FitAndEmbedIs
  <2>2. thr[t].pc = "fit" /\ UNCHANGED <<provider, wal, file>>
    BY <1>15 DEF FitAndEmbed, At
  <2>3. \A x \in Thread : x # t => thr[x].pc = "idle" /\ thr'[x].pc = "idle"
    BY <1>2, <2>1, <2>2
  <2>4. R' = R /\ Comparable(R.docs, R.vocab.terms)
    BY <1>3, <1>6, <2>2, <2>3
  <2> DEFINE live == thr[t].live
             w == vocab'
  <2>5. d \in DocSets /\ \A j \in DOMAIN d : d[j].vec = EmbedNonzero(provider, vocab', d[j].text)
    <3>1. d = Embedded(provider, w, live) /\ w \in Vocabs /\ live \in Corpora
      BY <2>1
    <3> HIDE DEF d, live, w
    <3>2. /\ Embedded(provider, w, live) \in DocSets
          /\ DOMAIN Embedded(provider, w, live) = DOMAIN live
          /\ \A j \in DOMAIN live :
                Embedded(provider, w, live)[j] =
                   [text |-> live[j], vec |-> EmbedNonzero(provider, w, live[j])]
      BY <1>0, <3>1, EmbeddedIs
    <3>3. \A j \in DOMAIN d : d[j].vec = EmbedNonzero(provider, w, d[j].text)
      BY <3>1, <3>2
    <3> QED
      BY <3>1, <3>2, <3>3 DEF w
  <2> HIDE DEF d
  <2>6. Comparable(d, vocab'.terms)
    BY <1>0, <1>5, <2>1, <2>5, MadeComparable
  <2>7. thr'[t].pc = "rewrite" /\ Comparable(thr'[t].docs, vocab'.terms)
    BY <2>1, <2>6
  <2> HIDE DEF R
  <2>8. R'.vocab.terms = R.vocab.terms /\ R'.docs = R.docs
    BY <2>4
  <2> QED
    BY <2>3, <2>4, <2>7, <2>8, ComparableStep DEF R
<1>16. ASSUME Rewrite(t) PROVE ComparableInv'
  <2>1. /\ thr[t].docs \in DocSets /\ docs' = Over(thr[t].docs, docs)
        /\ thr'[t] = [pc |-> "journal", then |-> thr[t].then]
        /\ \A x \in Thread : x # t => thr'[x] = thr[x]
    BY <1>16, RewriteIs
  <2>2. thr[t].pc = "rewrite" /\ UNCHANGED vocab
    BY <1>16 DEF Rewrite, At
  <2>3. thr'[t].pc = "journal" /\ \A x \in Thread : x # t => thr'[x].pc = "idle"
    BY <1>2, <2>1, <2>2
  <2>4. Comparable(thr[t].docs, vocab.terms) /\ DOMAIN thr[t].docs = DOMAIN docs
    BY <1>5, <2>2 DEF ComparableInv, ApartInv, RefitsAll
  <2>5. Comparable(Over(thr[t].docs, docs), vocab.terms)
    BY <1>0, <2>1, <2>4, ComparableOver
  <2>6. Comparable(docs', vocab'.terms)
    BY <2>1, <2>2, <2>5
  <2> QED
    BY <2>3, <2>6, ComparableStep
<1>17. ASSUME RewriteFails(t) PROVE ComparableInv'
  <2>1. /\ thr[t].pc = "rewrite" /\ Become(t, Idle) /\ Idle.pc = "idle"
        /\ UNCHANGED <<provider, wal, file>> /\ R.vocab = vocab
        /\ \A i \in DOMAIN thr[t].docs : i \in DOMAIN docs /\ docs[i] = thr[t].docs[i]
    BY <1>17 DEF RewriteFails, At, Idle, Note, NothingToChange
  <2>2. /\ thr'[t].pc = "idle" /\ \A x \in Thread : x # t => thr'[x].pc = "idle"
        /\ up /\ R' = R
    BY <1>1, <1>2, <1>3, <2>1
  <2>3. Comparable(thr[t].docs, vocab.terms) /\ DOMAIN thr[t].docs = DOMAIN docs /\ R.docs = docs
    BY <1>5, <2>1, <2>2 DEF ComparableInv, ApartInv, RefitsAll, EmbedInv, DocsSurvive
  <2>4. Comparable(docs, vocab.terms)
    BY <2>1, <2>3 DEF Comparable
  <2> HIDE DEF R
  <2>5. Comparable(R'.docs, R'.vocab.terms)
    BY <2>1, <2>2, <2>3, <2>4
  <2> QED
    BY <2>2, <2>5, ComparableStep DEF R
<1>18. ASSUME Journal(t) PROVE ComparableInv'
  <2>1. provider # "onnx"
    BY <1>5 DEF HasTerms
  <2>2. /\ thr'[t] = [pc |-> "clear", then |-> thr[t].then]
        /\ \A x \in Thread : x # t => thr'[x] = thr[x]
        /\ R'.docs = R.docs /\ R'.vocab = vocab
    BY <1>18, <2>1, JournalIs
  <2>3. thr[t].pc = "journal"
    BY <1>18 DEF Journal, At
  <2>4. thr'[t].pc = "clear" /\ \A x \in Thread : x # t => thr'[x].pc = "idle"
    BY <1>2, <2>2, <2>3
  <2>5. R.docs = docs /\ Comparable(docs, vocab.terms)
    BY <1>2, <1>5, <2>3 DEF EmbedInv, DocsSurvive, ComparableInv
  <2> HIDE DEF R
  <2>6. Comparable(R'.docs, R'.vocab.terms)
    BY <2>2, <2>5
  <2> QED
    BY <2>4, <2>6, ComparableStep DEF R
<1>19. ASSUME ClearDirty(t) PROVE ComparableInv'
  <2>1. /\ thr[t].pc = "clear" /\ Become(t, [pc |-> thr[t].then])
        /\ UNCHANGED <<provider, wal, file>>
    BY <1>19 DEF ClearDirty, At
  <2>2. [pc |-> thr[t].then].pc \notin {"write", "rewrite", "journal"}
    BY <1>0, <2>1, CallIs DEF Thens
  <2> QED
    BY <1>2, <1>7, <2>1, <2>2
<1>20. ASSUME Query(t) PROVE ComparableInv'
  <2>1. /\ thr[t].pc = "query" /\ Become(t, Idle) /\ Idle.pc = "idle"
        /\ UNCHANGED <<provider, wal, file>>
    BY <1>20 DEF Query, At, Idle
  <2> QED
    BY <1>2, <1>7, <2>1
<1> QED
  BY <1>8, <1>9, <1>10, <1>11, <1>12, <1>13, <1>14, <1>15, <1>16, <1>17, <1>18, <1>19, <1>20
     DEF RefitStep

LEMMA ComparableKept ==
    ASSUME EmbedInv, ApartInv, VocabSurvives, VocabSurvives', ComparableInv, mishaps' = {}, [Next]_vars
    PROVE  ComparableInv'
<1> DEFINE R == Recovered(TRUE)
<1>0. /\ Typed /\ R \in Colls /\ R.docs \in DocSets /\ docs \in DocSets
  <2>1. Typed /\ docs \in DocSets
    BY DEF EmbedInv, Typed
  <2>2. R \in Colls
    BY <2>1, RecoveredType
  <2> QED
    BY <2>1, <2>2, CollIs
(* A step that leaves what is recovered, up to the statistics.              *)
<1>1. ASSUME UNCHANGED provider, \A x \in Thread : thr[x].pc = "journal" <=> thr'[x].pc = "journal",
             \A x \in Thread : thr'[x].pc \in {"write", "rewrite"} => thr'[x] = thr[x],
             (\E x \in Thread : thr'[x].pc # "idle") => UNCHANGED <<docs, vocab>>,
             ~HalfRefit' => ~HalfRefit /\ R'.docs = R.docs /\ R'.vocab.terms = R.vocab.terms
      PROVE  ComparableInv'
  <2> HIDE DEF R
  <2>1. ASSUME HasTerms(provider), ~HalfRefit'
        PROVE  Comparable(R'.docs, R'.vocab.terms)
    <3>1. Comparable(R.docs, R.vocab.terms)
      BY <1>1, <2>1 DEF ComparableInv, R
    <3> QED
      BY <1>1, <2>1, <3>1
  <2>2. ASSUME HasTerms(provider), NEW x \in Thread, thr'[x].pc = "journal"
        PROVE  Comparable(docs', vocab'.terms)
    BY <1>1, <2>2 DEF ComparableInv
  <2>3. ASSUME HasTerms(provider), NEW x \in Thread, thr'[x].pc \in {"write", "rewrite"}
        PROVE  Comparable(thr'[x].docs, vocab'.terms)
    BY <1>1, <2>3 DEF ComparableInv
  <2> QED
    BY <1>1, <2>1, <2>2, <2>3 DEF ComparableInv, R
<1>2. ASSUME NEW t \in Thread, NEW i \in Id, Delete(t, i) PROVE ComparableInv'
  <2>1. /\ UNCHANGED thr /\ R'.docs = Without(R.docs, {i}) /\ R'.vocab = R.vocab
    BY <1>2, DeleteDoes
  <2>2. /\ UNCHANGED <<provider, vocab>> /\ ~HalfRefit
        /\ \A x \in Thread : thr[x].pc # "journal"
    BY <1>2 DEF Delete, Refitting, Note, InRefit, HalfRefit
  <2> HIDE DEF R
  <2>3. ASSUME HasTerms(provider) PROVE Comparable(R'.docs, R'.vocab.terms)
    <3>1. Comparable(R.docs, R.vocab.terms)
      BY <2>2, <2>3 DEF ComparableInv, R
    <3>2. Comparable(Without(R.docs, {i}), R.vocab.terms)
      BY <1>0, <3>1, ComparableWithout
    <3> QED
      BY <2>1, <3>2
  <2> QED
    BY <2>1, <2>2, <2>3 DEF ComparableInv, R
<1>a. ASSUME HasTerms(provider), up, slot = "Ready", \A x \in Thread : thr[x].pc \notin {"rewrite", "journal"}
      PROVE  Begins(R.vocab.terms, vocab.terms)
  <2>1. R.vocab \in Vocabs /\ R.vocab.terms \in TermSeqs /\ vocab.terms \in TermSeqs /\ provider \in AllProviders
    BY <1>0, CollIs DEF Typed, Vocabs
  <2>2. CASE \E x \in Thread : thr[x].pc = "write"
    <3>1. PICK x \in Thread : thr[x].pc = "write"
      BY <2>2
    <3>2. Written(x) \in Text /\ Same(AddDocument(provider, R.vocab, Written(x)), vocab)
      BY <1>0, <3>1, WrittenIs DEF VocabSurvives
    <3>3. Begins(R.vocab.terms, AddDocument(provider, R.vocab, Written(x)).terms)
      BY <2>1, <3>2, AddDocumentHolds
    <3> QED
      BY <3>2, <3>3 DEF Same
  <2>3. CASE \A x \in Thread : thr[x].pc # "write"
    <3>1. Same(R.vocab, vocab)
      BY <1>a, <2>3 DEF VocabSurvives
    <3> QED
      BY <2>1, <3>1, BeginsChain DEF Same
  <2> QED
    BY <2>2, <2>3
<1>3. CASE Checkpoint
  <2>1. /\ R'.docs = R.docs
        /\ file'.vocab = IF slot = "Ready" THEN Export(provider, vocab) ELSE pending
    BY <1>3, CheckpointIs
  <2>2. /\ up /\ UNCHANGED <<provider, vocab, pending, up, slot, thr, docs>>
    BY <1>3 DEF Checkpoint
  <2>3. slot = "Missing" => Same(R'.vocab, R.vocab)
    BY <2>2 DEF VocabSurvives, Same
  <2>4. R.vocab.terms \in TermSeqs /\ vocab.terms \in TermSeqs /\ slot \in {"Ready", "Missing"}
    BY <1>0, CollIs DEF Typed, Vocabs
  <2>5. ASSUME HasTerms(provider), slot = "Ready", \E x \in Thread : thr[x].pc \in {"rewrite", "journal"}
        PROVE  HalfRefit'
    <3>1. vocab' \in file'.vocab
      BY <2>1, <2>2, <2>5 DEF Export, HasTerms
    <3> QED
      BY <2>2, <2>5, <3>1 DEF HalfRefit
  <2>6. ASSUME HasTerms(provider), ~HalfRefit'
        PROVE  /\ Comparable(R.docs, R.vocab.terms)
               /\ Same(R'.vocab, R.vocab) \/ (Same(R'.vocab, vocab) /\ Begins(R.vocab.terms, vocab.terms))
    <3>1. CASE slot = "Missing"
      <4>1. \A x \in Thread : thr[x].pc = "idle"
        BY <3>1, CallHas
      <4>2. ~HalfRefit
        BY <4>1 DEF HalfRefit
      <4> QED
        BY <2>3, <2>6, <3>1, <4>2 DEF ComparableInv
    <3>2. CASE slot = "Ready"
      <4>1. \A x \in Thread : thr[x].pc \notin {"rewrite", "journal"}
        BY <2>5, <2>6, <3>2
      <4>2. ~HalfRefit
        BY <4>1 DEF HalfRefit
      <4>3. Begins(R.vocab.terms, vocab.terms)
        BY <1>a, <2>2, <2>6, <3>2, <4>1
      <4>4. Same(R'.vocab, vocab) \/ Same(R'.vocab, R.vocab)
        BY <1>3, <3>2, <4>3, CheckpointVocab
      <4> QED
        BY <2>6, <4>2, <4>3, <4>4 DEF ComparableInv
    <3> QED
      BY <2>4, <3>1, <3>2
  <2> HIDE DEF R
  <2>7. ASSUME HasTerms(provider), ~HalfRefit'
        PROVE  Comparable(R'.docs, R'.vocab.terms)
    <3>1. CASE Same(R'.vocab, R.vocab)
      BY <2>1, <2>6, <2>7, <3>1 DEF Same
    <3>2. CASE Same(R'.vocab, vocab) /\ Begins(R.vocab.terms, vocab.terms)
      <4>1. Comparable(R.docs, vocab.terms)
        BY <2>4, <2>6, <2>7, <3>2, ComparableLater
      <4> QED
        BY <2>1, <3>2, <4>1 DEF Same
    <3> QED
      BY <2>6, <2>7, <3>1, <3>2
  <2> QED
    BY <2>2, <2>7 DEF ComparableInv, R
<1>4. CASE Truncate
  <2>1. R'.docs = R.docs /\ R'.vocab = StateIn(file.vocab)
    BY <1>4, TruncateIs
  <2>2. up /\ swapped /\ UNCHANGED <<provider, vocab, thr, docs, file>>
    BY <1>4 DEF Truncate
  <2>3. R.vocab.terms \in TermSeqs /\ vocab.terms \in TermSeqs
    BY <1>0, CollIs DEF Typed, Vocabs
  <2>4. HalfRefit' <=> HalfRefit
    BY <2>2 DEF HalfRefit
  <2>5. ASSUME HasTerms(provider), ~HalfRefit'
        PROVE  Comparable(R.docs, StateIn(file.vocab).terms)
    <3>1. Comparable(R.docs, R.vocab.terms) /\ \A x \in Thread : thr[x].pc # "journal"
      BY <2>4, <2>5 DEF ComparableInv, HalfRefit
    <3>2. CASE Same(StateIn(file.vocab), R.vocab)
      BY <3>1, <3>2 DEF Same
    <3>3. CASE file.vocab = {vocab} /\ \E x \in Thread : thr[x].pc \in {"write", "rewrite"}
      <4>1. \A x \in Thread : thr[x].pc \notin {"rewrite", "journal"}
        BY <2>4, <2>5, <3>1, <3>3 DEF HalfRefit
      <4>2. PICK x \in Thread : thr[x].pc = "write"
        BY <3>3, <4>1
      <4>3. slot = "Ready"
        BY <4>2, CallHas
      <4>4. Begins(R.vocab.terms, vocab.terms)
        BY <1>a, <2>2, <2>5, <4>1, <4>3
      <4>5. StateIn(file.vocab) = vocab
        BY <3>3 DEF StateIn
      <4> QED
        BY <2>3, <3>1, <4>4, <4>5, ComparableLater
    <3> QED
      BY <2>2, <3>1, <3>2, <3>3 DEF VocabSurvives
  <2> HIDE DEF R
  <2>6. ASSUME HasTerms(provider), ~HalfRefit'
        PROVE  Comparable(R'.docs, R'.vocab.terms)
    BY <2>1, <2>5, <2>6
  <2> QED
    BY <2>2, <2>6 DEF ComparableInv, R
<1>5. CASE Crash
  <2>1. R' = R /\ Quiet'
    BY <1>5, CrashKeeps
  <2>2. UNCHANGED provider /\ ~HalfRefit
    BY <1>5 DEF Crash, Note
  <2> HIDE DEF R
  <2>3. R'.docs = R.docs /\ R'.vocab.terms = R.vocab.terms
    BY <2>1
  <2>4. \A x \in Thread : thr'[x].pc = "idle"
    BY <2>1 DEF Quiet
  <2>5. ASSUME HasTerms(provider) PROVE Comparable(R'.docs, R'.vocab.terms)
    BY <2>2, <2>3, <2>5 DEF ComparableInv, R
  <2> QED
    BY <2>2, <2>4, <2>5 DEF ComparableInv, R
<1>6. CASE Open \/ BindEmbedder \/ UNCHANGED vars
  <2>1. R' = R
    BY <1>6, OpenIs, BindEmbedderIs, StutterKeeps
  <2>2. /\ UNCHANGED <<provider, thr>>
        /\ Quiet \/ UNCHANGED <<docs, vocab>>
    BY <1>6, OpenIs, BindEmbedderIs DEF Open, BindEmbedder, vars
  <2> HIDE DEF R
  <2>3. R'.docs = R.docs /\ R'.vocab.terms = R.vocab.terms
    BY <2>1
  <2>4. ~HalfRefit' => ~HalfRefit
    BY <1>6, <2>2 DEF Open, BindEmbedder, vars, HalfRefit, Quiet
  <2> QED
    BY <1>1, <2>2, <2>3, <2>4 DEF Quiet
<1> QED
  BY <1>2, <1>3, <1>4, <1>5, <1>6, ComparableThread DEF Next

(* Until one of the mishaps happens, a stored component stands for a term   *)
(* of its document in the vocabulary queries are embedded with, however     *)
(* incremental updates, refits, checkpoints at any point of them and        *)
(* recovery followed each other (EMB-030).                                  *)
THEOREM StoredComparable == Spec => []StoredVectorsComparable
<1> DEFINE Fine == mishaps = {}
           Inv == EmbedInv /\ (Fine => ApartInv /\ VocabSurvives /\ ComparableInv)
<1>1. Init => Inv
  <2> SUFFICES ASSUME Init PROVE ComparableInv
    BY EmbedStarts, ApartStarts, VocabStarts
  <2>1. thr = [t \in Thread |-> Idle] /\ Idle.pc = "idle" /\ DOMAIN docs = {}
    BY DEF Init, Idle
  <2>2. Recovered(TRUE).docs = docs
    BY EmbedStarts
  <2> QED
    BY <2>1, <2>2 DEF ComparableInv, Comparable
<1>2. Inv /\ [Next]_vars => Inv'
  <2> SUFFICES ASSUME Inv, [Next]_vars, Fine' PROVE ApartInv' /\ VocabSurvives' /\ ComparableInv'
    BY EmbedInvKept
  <2>1. Fine /\ "overlap" \notin mishaps' /\ mishaps' \subseteq {"crashInRefit"}
    BY MishapsGrow
  <2>2. ApartInv' /\ VocabSurvives'
    BY <2>1, ApartInvKept, VocabKept
  <2> QED
    BY <2>1, <2>2, ComparableKept
<1>3. Inv => StoredVectorsComparable
  <2> SUFFICES ASSUME EmbedInv, VocabSurvives, ComparableInv, Settled, HasTerms(provider)
               PROVE  Comparable(docs, vocab.terms)
    BY EmbedInvTypes DEF StoredVectorsComparable, VectorsComparable
  <2>1. up /\ slot = "Ready" /\ \A t \in Thread : thr[t].pc = "idle"
    BY DEF Settled, Quiet
  <2>2. ~HalfRefit
    BY <2>1 DEF HalfRefit
  <2>3. /\ Recovered(TRUE).docs = docs /\ Recovered(TRUE).vocab.terms = vocab.terms
        /\ Comparable(Recovered(TRUE).docs, Recovered(TRUE).vocab.terms)
    BY <2>1, <2>2 DEF EmbedInv, DocsSurvive, VocabSurvives, Same, ComparableInv
  <2> QED
    BY <2>3
<1> QED
  BY <1>1, <1>2, <1>3, PTL DEF Spec

=============================================================================
