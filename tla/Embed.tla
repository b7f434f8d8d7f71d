------------------------------- MODULE Embed -------------------------------
(***************************************************************************)
(* Auto-embedding of one collection (collection.rs, embedding/): text      *)
(* documents folded into a vocabulary one by one, the lazy refit that      *)
(* rebuilds it and embeds everything again, the VOCAB snapshots in WAL and *)
(* file, and recovery, which has to find the vocabulary again that the     *)
(* stored vectors were computed with.                                      *)
(*                                                                         *)
(* A term is its rank in term order and a text the set of its terms.  An   *)
(* embedding is the set of its non-zero components and the statistics its  *)
(* weights come from; the weights themselves are left out, except where    *)
(* one is zero.  WAL and file are reliable here: Store has their faults.   *)
(***************************************************************************)
EXTENDS Naturals, FiniteSets, Ordered, SequencesExt

CONSTANTS
    Thread, Id,
    Text,       \* the texts documents and queries are made of
    Dim,        \* the collection's dimension: bound on the vocabulary
    LogWeight(_, _),  \* df * ln(n / df), what TfIdf sorts by, on a scale of integers
    Providers,  \* of "bow" (char_ngram alike), "bm25", "tfidf", "svd", "onnx"
    MaxWrites, MaxCrashes   \* bounds on writes and explicit refits, and on crashes

Terms == UNION Text

ASSUME EmbedAssumption ==
    /\ \A t \in Terms : t \in Nat
    /\ \A x \in Text : IsFiniteSet(x)
    /\ IsFiniteSet(Id)
    /\ \A df, n \in 0..Cardinality(Id) : LogWeight(df, n) \in Nat
    /\ Dim \in Nat \ {0}
    /\ Providers \subseteq {"bow", "bm25", "tfidf", "svd", "onnx"}

VARIABLES
    provider,  \* the collection's embedding_provider
    up,        \* the process runs
    slot,      \* EmbedderSlot: "Ready" or "Missing"
    vocab,     \* the embedder's state
    pending,   \* pending_vocab: the states kept for a missing provider
    dirty,     \* text_dirty
    docs,      \* live documents: id -> text and vector
    thr,       \* thread -> the call it is in
    wal,       \* the entries since the last checkpoint
    file,      \* the last checkpoint: its documents and VOCAB segment
    swapped,   \* the header is swapped, the WAL not truncated yet
    touched,   \* history: texts came in since the database was opened
    last,      \* history: the text last upserted under each id not deleted since
    exposed,   \* history: ids written while a refit that had gathered them was under way
    mishaps,   \* history: what has happened that a property makes an exception for
    writes, crashes

vars == <<provider, up, slot, vocab, pending, dirty, docs, thr, wal, file, swapped,
          touched, last, exposed, mishaps, writes, crashes>>

-----------------------------------------------------------------------------
(* The providers.                                                           *)

Unfitted == [terms |-> <<>>, df |-> [t \in Terms |-> 0], n |-> 0, fitted |-> {}]

Counts(prov)  == prov \in {"bm25", "tfidf", "svd"}  \* keeps frequencies
HasTerms(prov) == prov \in {"bow", "bm25", "tfidf"} \* a component is a term

DocFreq(corpus, t) == Cardinality({i \in DOMAIN corpus : t \in corpus[i]})

Used(corpus) == UNION {corpus[i] : i \in DOMAIN corpus}

(* What a fit sorts by: a term's documents, or for TfIdf its count times    *)
(* ln(n / df).                                                              *)
Score(prov, corpus, t) ==
    IF prov \in {"tfidf", "svd"}
    THEN LogWeight(DocFreq(corpus, t), Cardinality(DOMAIN corpus))
    ELSE DocFreq(corpus, t)

(* The pairs of terms of which the fit puts the first before the second:    *)
(* of the higher score, then the smaller.                                   *)
Heavier(prov, corpus) ==
    {p \in Used(corpus) \X Used(corpus) :
        \/ Score(prov, corpus, p[1]) > Score(prov, corpus, p[2])
        \/ Score(prov, corpus, p[1]) = Score(prov, corpus, p[2]) /\ p[1] < p[2]}

(* fit_svd keeps a projection of the corpus it was fitted on.               *)
FittedOn(prov, corpus) ==
    IF prov = "svd" THEN {corpus[i] : i \in DOMAIN corpus} ELSE {}

(* fit: the state rebuilt from the full corpus (EMB-031).                   *)
Fit(prov, corpus) ==
    LET order == Sorted(Used(corpus), Heavier(prov, corpus))
        terms == SubSeq(order, 1, IF Len(order) < Dim THEN Len(order) ELSE Dim)
    IN  IF prov = "onnx" THEN Unfitted
        ELSE [terms |-> terms,
              df |-> [t \in Terms |-> IF prov \in {"tfidf", "svd"} \/ (prov = "bm25" /\ t \in ToSet(terms))
                                      THEN DocFreq(corpus, t) ELSE 0],
              n |-> IF Counts(prov) THEN Cardinality(DOMAIN corpus) ELSE 0,
              fitted |-> FittedOn(prov, corpus)]

(* The order of terms.                                                      *)
Below == {p \in Terms \X Terms : p[1] < p[2]}

(* Mutant: new terms go to the front.                                       *)
AddDocument_Front(prov, v, text) ==
    LET new == Sorted(text \ ToSet(v.terms), Below)
    IN  [v EXCEPT !.terms = SubSeq(new \o @, 1, IF Len(new \o @) < Dim THEN Len(new \o @) ELSE Dim)]

(* New terms are appended while there is room, in order; no term moves      *)
(* (EMB-030).                                                               *)
AddTerms(terms, text) ==
    LET new  == Sorted(text \ ToSet(terms), Below)
        room == Dim - Len(terms)
    IN  terms \o SubSeq(new, 1, IF Len(new) < room THEN Len(new) ELSE room)

(* add_document; Svd and Onnx keep the trait's no-op.                       *)
AddDocument(prov, v, text) ==
    LET terms == AddTerms(v.terms, text)
        bump  == IF prov = "tfidf" THEN text ELSE text \cap ToSet(terms)
    IN  IF prov \in {"svd", "onnx"} THEN v
        ELSE IF prov = "bow" THEN [v EXCEPT !.terms = terms]
        ELSE [v EXCEPT !.terms = terms, !.n = @ + 1,
                       !.df = [t \in Terms |-> IF t \in bump THEN @[t] + 1 ELSE @[t]]]

(* embed: the components that are not zero.  A TfIdf weight is zero for a   *)
(* term every document has; Svd projects the TfIdf vector, a fixed model    *)
(* embeds every text.                                                       *)
Known(v, text) == {k \in DOMAIN v.terms : v.terms[k] \in text}
Weighted(v, text) == {k \in Known(v, text) : v.df[v.terms[k]] < v.n}
Projected(v, text) == IF Weighted(v, text) = {} THEN {} ELSE 1..Dim

Embed(prov, v, text) ==
    CASE prov = "onnx"  -> [idx |-> 1..Dim, by |-> <<text>>]
      [] prov = "svd"   -> [idx |-> Projected(v, text), by |-> <<text, v.fitted>>]
      [] prov = "tfidf" -> [idx |-> Weighted(v, text), by |-> <<v.df, v.n>>]
      [] OTHER          -> [idx |-> Known(v, text), by |-> <<v.df, v.n>>]

(* embed_nonzero: a placeholder stands in for the zero vector until a refit *)
(* (the cosine metric rejects zero).                                        *)
Placeholder == [idx |-> {1}, by |-> <<>>]
EmbedNonzero(prov, v, text) ==
    IF Embed(prov, v, text).idx = {} THEN Placeholder ELSE Embed(prov, v, text)

Embedded(prov, v, texts) ==
    [i \in DOMAIN texts |-> [text |-> texts[i], vec |-> EmbedNonzero(prov, v, texts[i])]]

(* export_state is empty for a stateless provider, and then not kept.       *)
Export(prov, v) == IF prov = "onnx" THEN {} ELSE {v}

(* The state a provider starts with: the one kept, if there is one.         *)
StateIn(kept) == IF kept = {} THEN Unfitted ELSE CHOOSE v \in kept : TRUE

-----------------------------------------------------------------------------
(* Recovery.                                                                *)

(* Documents written over others.                                           *)
Over(new, old) ==
    [i \in DOMAIN new \cup DOMAIN old |-> IF i \in DOMAIN new THEN new[i] ELSE old[i]]
Without(d, S) == [i \in DOMAIN d \ S |-> d[i]]
Texts(d) == [i \in DOMAIN d |-> d[i].text]

(* A recovering collection is [docs, vocab, pending, dirty].  The texts of  *)
(* a batch are folded in when the provider is there.                        *)
ReplayUpsert(prov, ready, c, e) ==
    LET texts == [k \in DOMAIN e.order |-> e.docs[e.order[k]].text]
    IN  [c EXCEPT !.docs = Over(e.docs, @),
                  !.vocab = IF ready THEN FoldLeft(LAMBDA v, t : AddDocument(prov, v, t), @, texts)
                                     ELSE @]

(* A snapshot overwrites, or is kept until the provider is there.           *)
ReplayImportVocab(ready, c, state) ==
    IF ready THEN [c EXCEPT !.vocab = state, !.dirty = FALSE]
             ELSE [c EXCEPT !.pending = {state}]

(* One WAL entry (apply_wal_entry).                                         *)
ApplyEntry(prov, ready, c, e) ==
    CASE e.op = "upsert" -> ReplayUpsert(prov, ready, c, e)
      [] e.op = "delete" -> [c EXCEPT !.docs = Without(@, {e.id})]
      [] e.op = "vocab"  -> ReplayImportVocab(ready, c, e.vocab)

(* install_collection: a file of text without VOCAB is refit by its first   *)
(* search.                                                                  *)
Installed(f, ready) ==
    [docs |-> f.docs,
     vocab |-> IF ready THEN StateIn(f.vocab) ELSE Unfitted,
     pending |-> IF ready THEN {} ELSE f.vocab,
     dirty |-> f.vocab = {} /\ DOMAIN f.docs # {}]

Replay(prov, ready, c, log) ==
    FoldLeft(LAMBDA d, e : ApplyEntry(prov, ready, d, e), c, log)

Recovered(ready) == Replay(provider, ready, Installed(file, ready), wal)

-----------------------------------------------------------------------------
(* Text calls.  Each lock release is the end of an action.                  *)

Idle == [pc |-> "idle"]
At(t, l) == up /\ thr[t].pc = l
Become(t, r) == thr' = [thr EXCEPT ![t] = r]

Refitting == {"gather", "fit", "rewrite", "journal", "clear"}

(* The mishaps are noted when they happen; nothing depends on them but the  *)
(* properties, each of which says which of them it makes an exception for.  *)
Note(m, when) == mishaps' = IF when THEN mishaps \cup {m} ELSE mishaps

(* Text calls of two threads overlap, or a delete and a refit.              *)
Overlapping(t) == \E u \in Thread \ {t} : thr[u].pc # "idle"
InRefit == \E t \in Thread : thr[t].pc \in Refitting

(* The documents a refit has taken up and is going to write back.           *)
Gathered ==
    UNION {IF thr[t].pc = "fit" THEN DOMAIN thr[t].live
           ELSE IF thr[t].pc = "rewrite" THEN DOMAIN thr[t].docs ELSE {} : t \in Thread}

Init ==
    /\ provider \in Providers
    /\ up = TRUE /\ slot = "Ready" /\ vocab = Unfitted /\ pending = {} /\ dirty = FALSE
    /\ docs = [i \in {} |-> 0]
    /\ thr = [t \in Thread |-> Idle]
    /\ wal = <<>> /\ file = [docs |-> [i \in {} |-> 0], vocab |-> {}] /\ swapped = FALSE
    /\ touched = FALSE /\ last = [i \in {} |-> 0] /\ exposed = {} /\ mishaps = {}
    /\ writes = 0 /\ crashes = 0

(* upsert_text_batch under the embedder lock: each document is folded in    *)
(* and embedded with the vocabulary it left.                                *)
FoldIn(t, batch) ==
    LET step(acc, d) ==
            LET v == AddDocument(provider, acc.vocab, d[2])
            IN  [vocab |-> v, docs |-> Over([i \in {d[1]} |->
                    [text |-> d[2], vec |-> EmbedNonzero(provider, v, d[2])]], acc.docs)]
        all == FoldLeft(step, [vocab |-> vocab, docs |-> [i \in {} |-> 0]], batch)
    IN
    /\ At(t, "idle") /\ slot = "Ready" /\ writes < MaxWrites
    /\ writes' = writes + 1 /\ Note("overlap", Overlapping(t))
    /\ vocab' = all.vocab
    /\ Become(t, [pc |-> "write", docs |-> all.docs, order |-> [k \in DOMAIN batch |-> batch[k][1]]])
    /\ UNCHANGED <<provider, up, slot, pending, dirty, docs, wal, file, swapped, touched,
                   last, exposed, crashes>>

(* A reserved payload key in the second document rejects the batch after    *)
(* the first one was folded in, and so does a log that refuses it.  That is *)
(* harmless when it brings no new words and a refit is due anyway.          *)
RejectBatch(t, text) ==
    /\ At(t, "idle") /\ slot = "Ready" /\ writes < MaxWrites
    /\ writes' = writes + 1
    /\ mishaps' = mishaps \cup
          (IF dirty /\ text \subseteq ToSet(vocab.terms) THEN {} ELSE {"reject"})
                         \cup (IF Overlapping(t) THEN {"overlap"} ELSE {})
    /\ vocab' = AddDocument(provider, vocab, text)
    /\ UNCHANGED <<provider, up, slot, pending, dirty, docs, thr, wal, file, swapped,
                   touched, last, exposed, crashes>>

(* upsert_batch_inner: logged and applied (Store takes the two apart); the  *)
(* journal mutex keeps the log waiting for a commit under way.              *)
Log(e) == ~swapped /\ wal' = Append(wal, e)

WriteBatch(t) ==
    /\ At(t, "write")
    /\ Log([op |-> "upsert", docs |-> thr[t].docs, order |-> thr[t].order])
    /\ docs' = Over(thr[t].docs, docs)
    /\ last' = [i \in DOMAIN last \cup DOMAIN thr[t].docs |->
                 IF i \in DOMAIN thr[t].docs THEN thr[t].docs[i].text ELSE last[i]]
    /\ exposed' = (exposed \ DOMAIN thr[t].docs) \cup (DOMAIN thr[t].docs \cap Gathered)
    /\ Become(t, [pc |-> "mark"])
    /\ UNCHANGED <<provider, up, slot, vocab, pending, dirty, file, swapped, touched,
                   mishaps, writes, crashes>>

MarkDirty_Not(t) ==
    /\ At(t, "mark")
    /\ touched' = TRUE /\ Become(t, Idle)
    /\ UNCHANGED <<provider, up, slot, vocab, pending, dirty, docs, wal, file, swapped,
                   last, exposed, mishaps, writes, crashes>>

MarkDirty(t) ==
    /\ At(t, "mark")
    /\ dirty' = TRUE /\ touched' = TRUE /\ Become(t, Idle)
    /\ UNCHANGED <<provider, up, slot, vocab, pending, docs, wal, file, swapped, last,
                   exposed, mishaps, writes, crashes>>

Delete(t, i) ==
    /\ At(t, "idle") /\ i \in DOMAIN docs /\ writes < MaxWrites
    /\ writes' = writes + 1 /\ Note("overlap", InRefit)
    /\ Log([op |-> "delete", id |-> i])
    /\ docs' = Without(docs, {i})
    /\ last' = [k \in DOMAIN last \ {i} |-> last[k]]
    /\ exposed' = IF i \in Gathered THEN exposed \cup {i} ELSE exposed \ {i}
    /\ UNCHANGED <<provider, up, slot, vocab, pending, dirty, thr, file, swapped, touched,
                   crashes>>

(* refit, and search_text through refit_if_dirty, which takes the mark.     *)
StartRefit(t) ==
    /\ At(t, "idle") /\ slot = "Ready" /\ writes < MaxWrites
    /\ writes' = writes + 1 /\ Note("overlap", Overlapping(t))
    /\ Become(t, [pc |-> "gather", then |-> "idle"])
    /\ UNCHANGED <<provider, up, slot, vocab, pending, dirty, docs, wal, file, swapped,
                   touched, last, exposed, crashes>>

StartSearch(t) ==
    /\ At(t, "idle") /\ slot = "Ready" /\ Note("overlap", Overlapping(t))
    /\ Become(t, IF dirty THEN [pc |-> "gather", then |-> "query"] ELSE [pc |-> "query"])
    /\ dirty' = FALSE
    /\ UNCHANGED <<provider, up, slot, vocab, pending, docs, wal, file, swapped, touched,
                   last, exposed, writes, crashes>>

(* The live documents, under the data lock.                                 *)
Gather(t) ==
    /\ At(t, "gather")
    /\ Become(t, IF DOMAIN docs = {} THEN [pc |-> thr[t].then]
                 ELSE [pc |-> "fit", then |-> thr[t].then, live |-> Texts(docs)])
    /\ UNCHANGED <<provider, up, slot, vocab, pending, dirty, docs, wal, file, swapped,
                   touched, last, exposed, mishaps, writes, crashes>>

(* Fit and embed, under the embedder lock.                                  *)
FitAndEmbed(t) ==
    /\ At(t, "fit")
    /\ vocab' = Fit(provider, thr[t].live)
    /\ Become(t, [pc |-> "rewrite", then |-> thr[t].then,
                  docs |-> Embedded(provider, vocab', thr[t].live)])
    /\ UNCHANGED <<provider, up, slot, pending, dirty, docs, wal, file, swapped, touched,
                   last, exposed, mishaps, writes, crashes>>

(* Mutant: the documents are replaced by the gathered ones.                 *)
Rewrite_Replaces(t) ==
    /\ At(t, "rewrite")
    /\ Log([op |-> "upsert", docs |-> thr[t].docs, order |-> SetToSeq(DOMAIN thr[t].docs)])
    /\ docs' = thr[t].docs
    /\ Become(t, [pc |-> "journal", then |-> thr[t].then])
    /\ UNCHANGED <<provider, up, slot, vocab, pending, dirty, file, swapped, touched, last,
                   exposed, mishaps, writes, crashes>>

(* Every gathered document is upserted again, there or not.                 *)
Rewrite(t) ==
    /\ At(t, "rewrite")
    /\ Log([op |-> "upsert", docs |-> thr[t].docs, order |-> SetToSeq(DOMAIN thr[t].docs)])
    /\ docs' = Over(thr[t].docs, docs)
    /\ Become(t, [pc |-> "journal", then |-> thr[t].then])
    /\ UNCHANGED <<provider, up, slot, vocab, pending, dirty, file, swapped, touched, last,
                   exposed, mishaps, writes, crashes>>

(* The log refuses the batch: the call fails, and the mark is gone.  That   *)
(* is harmless when there was nothing to change.                            *)
NothingToChange(t) ==
    /\ \A i \in DOMAIN thr[t].docs : i \in DOMAIN docs /\ docs[i] = thr[t].docs[i]
    /\ Recovered(TRUE).vocab = vocab

RewriteFails(t) ==
    /\ At(t, "rewrite") /\ Become(t, Idle) /\ Note("logFails", ~NothingToChange(t))
    /\ UNCHANGED <<provider, up, slot, vocab, pending, dirty, docs, wal, file, swapped,
                   touched, last, exposed, writes, crashes>>

Journal_Skipped(t) ==
    /\ At(t, "journal")
    /\ Become(t, [pc |-> "clear", then |-> thr[t].then])
    /\ UNCHANGED <<provider, up, slot, vocab, pending, dirty, docs, wal, file, swapped,
                   touched, last, exposed, mishaps, writes, crashes>>

(* EMB-032: the vocabulary after the documents, so that replay ends with it.*)
Journal(t) ==
    /\ At(t, "journal")
    /\ IF Export(provider, vocab) = {} THEN UNCHANGED wal
       ELSE Log([op |-> "vocab", vocab |-> vocab])
    /\ Become(t, [pc |-> "clear", then |-> thr[t].then])
    /\ UNCHANGED <<provider, up, slot, vocab, pending, dirty, docs, file, swapped, touched,
                   last, exposed, mishaps, writes, crashes>>

ClearDirty(t) ==
    /\ At(t, "clear")
    /\ dirty' = FALSE /\ Become(t, [pc |-> thr[t].then])
    /\ UNCHANGED <<provider, up, slot, vocab, pending, docs, wal, file, swapped, touched,
                   last, exposed, mishaps, writes, crashes>>

(* The query is embedded and searched.                                      *)
Query(t) ==
    /\ At(t, "query") /\ Become(t, Idle)
    /\ UNCHANGED <<provider, up, slot, vocab, pending, dirty, docs, wal, file, swapped,
                   touched, last, exposed, mishaps, writes, crashes>>

-----------------------------------------------------------------------------
(* Checkpoint, crash, reopening, and a provider that is registered late.    *)

Quiet == \A t \in Thread : thr[t].pc = "idle"

(* Points and VOCAB are sealed and the header swapped, whatever calls are   *)
(* under way; the WAL goes in a second step.  Sealing and swap are one step *)
(* here: Store shows what becomes of a write between them.                  *)
Checkpoint ==
    /\ up /\ ~swapped /\ wal # <<>>
    /\ file' = [docs |-> docs, vocab |-> IF slot = "Ready" THEN Export(provider, vocab) ELSE pending]
    /\ swapped' = TRUE
    /\ UNCHANGED <<provider, up, slot, vocab, pending, dirty, docs, thr, wal, touched,
                   last, exposed, mishaps, writes, crashes>>

Truncate ==
    /\ up /\ swapped
    /\ swapped' = FALSE /\ wal' = <<>>
    /\ UNCHANGED <<provider, up, slot, vocab, pending, dirty, docs, thr, file, touched,
                   last, exposed, mishaps, writes, crashes>>

(* A refit's documents are on disk without its vocabulary, or by a          *)
(* checkpoint its vocabulary without the documents.                         *)
HalfRefit ==
    \E t \in Thread : thr[t].pc = "journal" \/ (thr[t].pc = "rewrite" /\ vocab \in file.vocab)

Crash ==
    /\ up /\ crashes < MaxCrashes /\ Note("crashInRefit", HalfRefit)
    /\ crashes' = crashes + 1 /\ up' = FALSE
    /\ thr' = [t \in Thread |-> Idle]
    /\ vocab' = Unfitted /\ pending' = {} /\ dirty' = FALSE /\ touched' = FALSE
    /\ docs' = [i \in {} |-> 0]
    /\ UNCHANGED <<provider, slot, wal, file, swapped, last, exposed, writes>>

(* The provider may be missing in this process, to be registered after the  *)
(* replay of text.                                                          *)
Open ==
    /\ ~up /\ up' = TRUE
    /\ \E ready \in BOOLEAN :
          /\ Note("late", ~ready /\ \E k \in DOMAIN wal : wal[k].op = "upsert")
          /\ LET c == Recovered(ready) IN
             /\ docs' = c.docs /\ vocab' = c.vocab /\ pending' = c.pending /\ dirty' = c.dirty
             /\ slot' = IF ready THEN "Ready" ELSE "Missing"
    /\ swapped' = FALSE
    /\ UNCHANGED <<provider, thr, wal, file, touched, last, exposed, writes, crashes>>

(* register_embedder binds a fresh provider, with the state kept for it.    *)
BindEmbedder ==
    /\ up /\ slot = "Missing"
    /\ slot' = "Ready" /\ pending' = {}
    /\ vocab' = StateIn(pending)
    /\ UNCHANGED <<provider, up, dirty, docs, thr, wal, file, swapped, touched, last,
                   exposed, mishaps, writes, crashes>>

Batches == {<<d>> : d \in Id \X Text}

RefitStep(t) ==
    \/ Gather(t) \/ FitAndEmbed(t) \/ Rewrite(t) \/ RewriteFails(t) \/ Journal(t)
    \/ ClearDirty(t)

Next ==
    \/ \E t \in Thread :
          \/ \E b \in Batches : FoldIn(t, b)
          \/ \E x \in Text : RejectBatch(t, x)
          \/ \E i \in Id : Delete(t, i)
          \/ WriteBatch(t) \/ MarkDirty(t)
          \/ StartRefit(t) \/ StartSearch(t) \/ RefitStep(t) \/ Query(t)
    \/ Checkpoint \/ Truncate \/ Crash \/ Open \/ BindEmbedder

Spec == Init /\ [][Next]_vars

-----------------------------------------------------------------------------
(* Properties.                                                              *)

(* Every variable keeps its shape, and the vocabulary its bound.            *)
TypeOK ==
    /\ slot \in {"Ready", "Missing"} /\ {up, dirty, swapped, touched} \subseteq BOOLEAN
    /\ Len(vocab.terms) <= Dim /\ ToSet(vocab.terms) \subseteq Terms
    /\ \A i \in DOMAIN docs : docs[i].vec.idx \in (SUBSET (1..Dim)) \ {{}}
    /\ slot = "Ready" => pending = {}
    /\ ~up => Quiet

Settled == up /\ Quiet /\ slot = "Ready"

(* EMB-030, "existing term indices never move, so stored vectors stay       *)
(* comparable": a stored component stands for a term of its document in the *)
(* vocabulary that queries are embedded with, through incremental updates,  *)
(* refits, checkpoints and recovery, unless one of the mishaps happens.     *)
Comparable(d, terms) ==
    \A i \in DOMAIN d : d[i].vec # Placeholder =>
       \A k \in d[i].vec.idx : k \in DOMAIN terms /\ terms[k] \in d[i].text
VectorsComparable == Settled /\ HasTerms(provider) => Comparable(docs, vocab.terms)
StoredVectorsComparable == TypeOK /\ (mishaps = {} => VectorsComparable)

(* "Exact crash replay": a crash now recovers the documents, and the        *)
(* vocabulary with every term at its index, also over a checkpoint that     *)
(* has the WAL's effects already, and after a crash in the middle of a      *)
(* refit.                                                                   *)
RecoveryConverges ==
    mishaps \subseteq {"crashInRefit"} /\ Settled => LET c == Recovered(TRUE) IN
               /\ c.docs = docs
               /\ c.vocab.terms = vocab.terms /\ c.vocab.fitted = vocab.fitted

(* search_text "recomputes a stale vocabulary first so results reflect the  *)
(* full corpus": when text came in since the open, every document a query   *)
(* is compared with is embedded with the query's vocabulary.  Excepted are  *)
(* overlapping calls, rejected batches and a log that fails a refit.        *)
OneVocabulary ==
    \A t \in Thread : up /\ thr[t].pc = "query" /\ touched =>
       \A i \in DOMAIN docs : docs[i].vec = EmbedNonzero(provider, vocab, docs[i].text)
QueryMeetsOneVocabulary == mishaps \cap {"overlap", "reject", "logFails"} = {} => OneVocabulary

(* What the last acknowledged upsert or delete of an id said is what the    *)
(* collection holds, whatever refits, other writes, checkpoints and crashes *)
(* go on: a refit, which upserts again what it gathered, brings back no     *)
(* document and no text, except of an id written while it was under way.    *)
LastWriteStands ==
    up => \A i \in Id \ exposed :
             /\ i \in DOMAIN docs <=> i \in DOMAIN last
             /\ i \in DOMAIN docs => docs[i].text = last[i]

-----------------------------------------------------------------------------
(* What is documented without any exception, and does not hold (README.md). *)

(* SPEC-005 EMB-031: a refit "recomputes the vocabulary from all stored     *)
(* _text and re-embeds every document"; it writes no text and no document.  *)
RefitOnlyReembeds ==
    [][\A t \in Thread :
         thr[t].pc = "rewrite" /\ thr'[t].pc = "journal" => Texts(docs') = Texts(docs)]_vars

(* "Recomputes a stale vocabulary first so results reflect the full corpus" *)
(* (search_text), here of a search that finds no mark when every call       *)
(* before it has returned and none has failed.                              *)
QueryReflectsCorpus ==
    [][\A t \in Thread :
         Quiet /\ mishaps \subseteq {"overlap"} /\ thr'[t].pc = "query" => OneVocabulary']_vars

(* SPEC-005 EMB-030: "recovery MUST reproduce the exact in-memory state" of *)
(* the vocabulary, here the terms and their indexes.                        *)
RecoveryReproducesTerms == Settled => Recovered(TRUE).vocab.terms = vocab.terms

(* EMB-030's promise of comparable vectors after a crash, on which the      *)
(* refit's "recovery converges to this moment's memory" builds.             *)
ComparableAfterCrash == mishaps \subseteq {"crashInRefit"} => VectorsComparable

=============================================================================
