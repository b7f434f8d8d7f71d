------------------------------ MODULE Interop ------------------------------
(***************************************************************************)
(* The graduation path: export_vecdb writes a database as an archive and   *)
(* its sidecar, one collection after the other while the program goes on   *)
(* using the database, and publishes the two by renames; `veclite import`, *)
(* in a process of its own, reads the pair, plans every collection,        *)
(* assembles them in a new database and checkpoints it.                    *)
(*                                                                         *)
(* Abstracted: JSON and ZIP (an archive is what its entries say), vector   *)
(* values (both sides keep f32 exactly), HNSW parameters and timestamps.   *)
(* A vocabulary is the set of texts it was fitted on.                      *)
(***************************************************************************)
EXTENDS Naturals, FiniteSets, Sequences, SequencesExt, Functions, TLC

CONSTANTS
    Name,        \* collection and alias names
    Starts,      \* databases the program may have when the export starts
    Servers,     \* what a server may have left in the directory, see ServerSet
    NewPoints,   \* what the program may upsert meanwhile: <<id, point>>
    NewIndexes,  \* what it may declare meanwhile: <<key, kind>>
    Built,       \* providers this build can construct
    Aspects,     \* what of a collection a transfer must not lose silently
    MaxOps,      \* operations of the program, exports and imports together
    MaxCrashes   \* crashes of the exporter or the importer

ASSUME InteropAssumption == MaxOps \in Nat /\ MaxCrashes \in Nat

VARIABLES
    db,      \* the database: [colls: name -> collection, aliases: alias -> name]
    dir,     \* the directory: [vecdb, vecidx], each {} or the set of one file;
             \* `paired` says whether the two are of one export
    exp,     \* the export under way, see NoExport
    imp,     \* the import under way, see NoImport
    out,     \* the imported database: [exists, file, log, mem]
    ops, crashes

vars == <<db, dir, exp, imp, out, ops, crashes>>

(* A collection: [provider, ready, compression, config, indexes, vocab,     *)
(* dirty, points]; `config` are the indexes of its creation, `indexes` all  *)
(* that are declared.  A point: [pay, sparse]; a payload: key -> value.     *)
AutoEmbeds(c) == c.provider # "none"

(* The texts a refit finds: do_refit takes them from `_text` alone.         *)
Texts(c) ==
    {c.points[i].pay["_text"] :
        i \in {j \in DOMAIN c.points : "_text" \in DOMAIN c.points[j].pay}}

-----------------------------------------------------------------------------
(* The projection of one collection to the server's shape.                  *)

(* Providers whose state has a tokenizer form on the server.                *)
Tokenized == {"bm25", "tfidf", "bow", "char_ngram"}

(* project_payload: the text travels under the server's key `content`; a    *)
(* `content` of the user's is never overwritten, and the text then stays.   *)
Collides(c, p) == AutoEmbeds(c) /\ {"_text", "content"} \subseteq DOMAIN p

ProjectPayload(c, p) ==
    IF ~AutoEmbeds(c) \/ "_text" \notin DOMAIN p \/ Collides(c, p) THEN p
    ELSE [k \in (DOMAIN p \ {"_text"}) \cup {"content"} |->
             IF k = "content" THEN p["_text"] ELSE p[k]]

(* refit_if_dirty, before the points are read.                              *)
Settled(c) ==
    [c EXCEPT !.dirty = FALSE,
              !.vocab = IF c.dirty /\ Texts(c) # {} THEN Texts(c) ELSE @]

Warned(n, degraded) == {<<n, a>> : a \in {b \in DOMAIN degraded : degraded[b]}}

ExportWarnings(n, c) ==
    Warned(n, [compression |-> c.compression = "zstd",
               vocab |-> AutoEmbeds(c) /\ c.vocab # {} /\ c.provider \notin Tokenized])

(* to_vecdb_config: every collection of a server has a provider, and none   *)
(* compresses with zstd.                                                    *)
VecdbConfig(c) ==
    [provider |-> IF AutoEmbeds(c) THEN c.provider ELSE "bm25",
     compression |-> IF c.compression = "zstd" THEN "lz4" ELSE c.compression]

(* to_server_tokenizer.                                                     *)
ServerTokenizer(c) ==
    IF c.provider \in Tokenized /\ c.vocab # {} THEN {c.vocab} ELSE {}

(* The archive's entry; a `.vecdb` vector has no sparse lane.  `was` is     *)
(* what the exporter read, and whether its points and its vocabulary are of *)
(* one settled state.                                                       *)
Entry(n, c, aliases, alike, met) ==
    [name |-> n, config |-> VecdbConfig(c), policies |-> {},
     points |-> [i \in DOMAIN c.points |-> ProjectPayload(c, c.points[i].pay)],
     tokenizer |-> ServerTokenizer(c),
     was |-> [coll |-> c, aliases |-> aliases, ours |-> TRUE,
              alike |-> alike, met |-> met]]

(* Mutant: the origin of a collection of vectors is not recorded.           *)
Sidecar_NoByo(c, aliases) ==
    [aliases |-> aliases, indexes |-> c.config, byo |-> FALSE]

(* The sidecar's record: what the archive has no place for.  The indexes    *)
(* are those of handle.config(), the options the collection was made with.  *)
Sidecar(c, aliases) ==
    [aliases |-> aliases, indexes |-> c.config, byo |-> ~AutoEmbeds(c)]

-----------------------------------------------------------------------------
(* The program, using the database while it is exported.                    *)

Lookup(n) ==
    IF n \in DOMAIN db.colls THEN {n}
    ELSE IF n \in DOMAIN db.aliases THEN {db.aliases[n]} ELSE {}

NamesIn(d) == DOMAIN d.colls \cup DOMAIN d.aliases

Counted == ops < MaxOps /\ ops' = ops + 1
Op == Counted /\ UNCHANGED <<dir, imp, out, crashes>>

(* A point, or a document, whose text is folded into the vocabulary.        *)
UpsertPoint(n, i, p) ==
    LET texts == {p.pay[k] : k \in {"_text"} \cap DOMAIN p.pay} IN
    /\ Op /\ UNCHANGED exp
    /\ texts # {} => AutoEmbeds(db.colls[n])
    /\ db' = [db EXCEPT !.colls[n].points = (i :> p) @@ @,
                        !.colls[n].vocab = @ \cup texts,
                        !.colls[n].dirty = @ \/ texts # {}]

DeclareIndex(n, x) ==
    /\ Op /\ UNCHANGED exp
    /\ \A y \in db.colls[n].indexes : y[1] # x[1]
    /\ db' = [db EXCEPT !.colls[n].indexes = @ \cup {x}]

(* The exporter's handle outlives the collection.                           *)
DropCollection(n) ==
    /\ Op
    /\ db' = [colls |-> [m \in DOMAIN db.colls \ {n} |-> db.colls[m]],
              aliases |-> [a \in {b \in DOMAIN db.aliases : db.aliases[b] # n} |->
                              db.aliases[a]]]
    /\ exp' = IF exp.handle = n THEN [exp EXCEPT !.gone = {db.colls[n]}] ELSE exp

(* `met` notes that a listed collection was dropped and an alias has its    *)
(* name now.                                                                *)
CreateAlias(a, n) ==
    /\ Op
    /\ a \notin NamesIn(db)
    /\ db' = [db EXCEPT !.aliases = (a :> n) @@ @]
    /\ exp' = [exp EXCEPT !.met = @ \/ a \in Range(exp.todo)]

-----------------------------------------------------------------------------
(* export_vecdb.                                                            *)

NoHandle == "none"
NoExport == [at |-> "none", todo |-> <<>>, aliases |-> <<>>, handle |-> NoHandle,
             gone |-> {}, read |-> {}, met |-> FALSE,
             entries |-> <<>>, index |-> <<>>, warnings |-> {}]

(* Mutant: the names of the subset are kept as given, aliases among them.   *)
StartExport_Unresolved ==
    /\ exp.at = "none" /\ Counted
    /\ \E S \in (SUBSET NamesIn(db)) \ {{}} :
          exp' = [NoExport EXCEPT !.at = "listed", !.todo = SetToSeq(S)]
    /\ UNCHANGED <<db, dir, imp, out, crashes>>

(* The collections, all or a subset given by names and aliases, resolved    *)
(* early; the aliases are read in a later step.                             *)
StartExport ==
    /\ exp.at = "none" /\ Counted
    /\ \E S \in (SUBSET NamesIn(db)) \ {{}} :
          exp' = [NoExport EXCEPT !.at = "listed",
                                  !.todo = SetToSeq(UNION {Lookup(n) : n \in S})]
    /\ UNCHANGED <<db, dir, imp, out, crashes>>

ReadAliases ==
    /\ exp.at = "listed"
    /\ exp' = [exp EXCEPT !.at = "writing", !.aliases = db.aliases]
    /\ UNCHANGED <<db, dir, imp, out, ops, crashes>>

(* One collection, looked up again by its name and refitted when a text has *)
(* changed (Embed has the refit's own steps); a name that is gone ends the  *)
(* export with nothing published.                                           *)
SettleOne ==
    /\ exp.at = "writing" /\ exp.todo # <<>>
    /\ IF Lookup(Head(exp.todo)) = {}
       THEN exp' = NoExport /\ UNCHANGED db
       ELSE \E m \in Lookup(Head(exp.todo)) :
               /\ db' = [db EXCEPT !.colls[m] = Settled(@)]
               /\ exp' = [exp EXCEPT !.at = "settled", !.handle = m]
    /\ UNCHANGED <<dir, imp, out, ops, crashes>>

(* What the handle reaches, the collection in the database or a dropped one.*)
Handled == IF exp.gone # {} THEN CHOOSE c \in exp.gone : TRUE
           ELSE db.colls[exp.handle]

ReadPoints ==
    /\ exp.at = "settled"
    /\ exp' = [exp EXCEPT !.at = "read", !.read = {Handled}]
    /\ UNCHANGED <<db, dir, imp, out, ops, crashes>>

(* The vocabulary, under a lock of its own, and the collection's record.    *)
ReadVocabulary ==
    /\ exp.at = "read"
    /\ \E r \in exp.read :
          LET n == Head(exp.todo)
              aliases == {a \in DOMAIN exp.aliases : exp.aliases[a] = n}
              c == [Handled EXCEPT !.points = r.points]
              alike == ~r.dirty /\ r.vocab = c.vocab
          IN  exp' = [exp EXCEPT !.at = "writing", !.todo = Tail(@),
                        !.handle = NoHandle, !.gone = {}, !.read = {},
                        !.entries = Append(@, Entry(n, c, aliases, alike, exp.met)),
                        !.index = (n :> Sidecar(c, aliases)) @@ @,
                        !.warnings = @ \cup ExportWarnings(n, c)]
    /\ UNCHANGED <<db, dir, imp, out, ops, crashes>>

(* The first rename; `apart` notes an import that has read the sidecar of   *)
(* another export.                                                          *)
PublishArchive ==
    /\ exp.at = "writing" /\ exp.todo = <<>>
    /\ dir' = [dir EXCEPT !.vecdb = {[entries |-> exp.entries, warned |-> exp.warnings]},
                          !.paired = FALSE]
    /\ exp' = [exp EXCEPT !.at = "published"]
    /\ imp' = [imp EXCEPT !.apart = @ \/ imp.at = "sidecar"]
    /\ UNCHANGED <<db, out, ops, crashes>>

PublishSidecar ==
    /\ exp.at = "published"
    /\ dir' = [dir EXCEPT !.vecidx = {exp.index}, !.paired = TRUE]
    /\ exp' = NoExport
    /\ UNCHANGED <<db, imp, out, ops, crashes>>

(* The end of the process, or an I/O error of a write or of a rename.       *)
CrashExport ==
    /\ exp.at # "none" /\ crashes < MaxCrashes
    /\ exp' = NoExport /\ crashes' = crashes + 1
    /\ UNCHANGED <<db, dir, imp, out, ops>>

-----------------------------------------------------------------------------
(* import_vecdb, and the command around it.                                 *)

NoImport == [at |-> "none", index |-> {}, todo |-> <<>>, warnings |-> {}, report |-> {},
             apart |-> FALSE, io |-> FALSE]
NoOut == [exists |-> FALSE, file |-> <<>>, log |-> <<>>, mem |-> <<>>]

Ended == {"none", "ok", "failed", "crashed"}

(* load_compact: the sidecar, when there is one, and then the archive.  The *)
(* output must not exist, or is removed first when the user forces it; a    *)
(* log left of it has another uuid and is not replayed.                     *)
ReadSidecar ==
    /\ imp.at \in Ended /\ dir.vecdb # {} /\ Counted
    /\ imp' = [NoImport EXCEPT !.at = "sidecar", !.index = dir.vecidx,
                               !.apart = ~dir.paired]
    /\ out' = [NoOut EXCEPT !.exists = TRUE]
    /\ UNCHANGED <<db, dir, exp, crashes>>

Names(entries) == {entries[k].name : k \in DOMAIN entries}

(* Without a sidecar one warning stands for all it would have said.         *)
NoSidecar(entries) ==
    Names(entries) \X {"provider", "created", "indexes", "aliases"}

(* The archive, or the collections of it the user chose.                    *)
ReadArchive ==
    /\ imp.at = "sidecar"
    /\ \E f \in dir.vecdb : \E S \in (SUBSET Names(f.entries)) \ {{}} :
          LET chosen == SelectSeq(f.entries, LAMBDA e : e.name \in S) IN
          imp' = [imp EXCEPT !.at = "loaded", !.todo = chosen,
                     !.warnings = f.warned \cup
                        (IF imp.index = {} THEN NoSidecar(chosen) ELSE {})]
    /\ UNCHANGED <<db, dir, exp, out, ops, crashes>>

(* What the sidecar says of a collection; of an unknown one, nothing.       *)
Aside(n) ==
    LET known == {x \in imp.index : n \in DOMAIN x} IN
    IF known = {} THEN [aliases |-> {}, indexes |-> {}, byo |-> FALSE]
    ELSE (CHOOSE x \in known : TRUE)[n]

Byo(e) == Aside(e.name).byo
Deferred(e) == ~Byo(e) /\ e.config.provider \notin Built

ImportWarnings(e) ==
    Warned(e.name, [provider |-> Deferred(e), policies |-> e.policies # {}])

Refused(e) == "encrypted" \in e.policies

(* Pass 1: every collection is planned, and a policy this build cannot      *)
(* honour refuses the import, before any is created.                        *)
PlanImport ==
    /\ imp.at = "loaded"
    /\ LET entries == Range(imp.todo) IN
       imp' = IF \E e \in entries : Refused(e)
              THEN [imp EXCEPT !.at = "failing"]
              ELSE [imp EXCEPT !.at = "assembling",
                        !.warnings = @ \cup UNION {ImportWarnings(e) : e \in entries}]
    /\ UNCHANGED <<db, dir, exp, out, ops, crashes>>

(* from_server_tokenizer, for a provider that is there.                     *)
RestoredVocab(e) == IF Byo(e) \/ Deferred(e) THEN {} ELSE UNION e.tokenizer

(* The collection an entry becomes: the vocabulary restored before the      *)
(* points, which are installed without folding their texts in; no entry has *)
(* a sparse lane, an auto-embed collection derives its own.                 *)
Received(e) ==
    [provider |-> IF Byo(e) THEN "none" ELSE e.config.provider,
     ready |-> ~Byo(e) /\ ~Deferred(e),
     compression |-> e.config.compression,
     config |-> {}, indexes |-> Aside(e.name).indexes,
     vocab |-> RestoredVocab(e),
     dirty |-> FALSE,
     points |-> [i \in DOMAIN e.points |-> [pay |-> e.points[i], sparse |-> 0]]]

Taken(mem) == DOMAIN mem \cup UNION {mem[n].aliases : n \in DOMAIN mem}

(* Pass 2, one collection: created and its aliases and indexes declared,    *)
(* all journaled; the vocabulary and the points are in memory only.  A name *)
(* that is taken fails it, an alias's after the collection is created.      *)
AssembleOne ==
    /\ imp.at = "assembling" /\ imp.todo # <<>>
    /\ LET e == Head(imp.todo)
           n == e.name
           clash == Aside(n).aliases \cap (Taken(out.mem) \cup {n})
           got == [coll |-> Received(e), aliases |-> Aside(n).aliases, was |-> e.was]
           empty == [got EXCEPT !.coll.points = <<>>, !.coll.vocab = {}]
           bare == [empty EXCEPT !.coll.indexes = {}, !.aliases = @ \ clash]
       IN  \/ /\ n \in Taken(out.mem)
              /\ imp' = [imp EXCEPT !.at = "failing"] /\ UNCHANGED out
           \/ /\ n \notin Taken(out.mem) /\ clash # {}
              /\ imp' = [imp EXCEPT !.at = "failing"]
              /\ out' = [out EXCEPT !.mem = (n :> bare) @@ @,
                                    !.log = (n :> bare) @@ @]
           \/ /\ n \notin Taken(out.mem) /\ clash = {}
              /\ imp' = [imp EXCEPT !.todo = Tail(@), !.report = @ \cup {n}]
              /\ out' = [out EXCEPT !.mem = (n :> got) @@ @,
                                    !.log = (n :> empty) @@ @]
    /\ UNCHANGED <<db, dir, exp, ops, crashes>>

Sealed(o) == [o EXCEPT !.file = o.mem, !.log = <<>>, !.mem = <<>>]

(* db.checkpoint, and the handle dropped.                                   *)
CheckpointImport ==
    /\ imp.at = "assembling" /\ imp.todo = <<>>
    /\ imp' = [imp EXCEPT !.at = "ok"]
    /\ out' = Sealed(out)
    /\ UNCHANGED <<db, dir, exp, ops, crashes>>

(* An I/O error while the pair is read, a collection journaled or the       *)
(* database checkpointed.                                                   *)
IoError ==
    /\ imp.at \in {"sidecar", "loaded", "assembling"} /\ crashes < MaxCrashes
    /\ imp' = [imp EXCEPT !.at = "failing", !.io = TRUE]
    /\ crashes' = crashes + 1
    /\ UNCHANGED <<db, dir, exp, out, ops>>

(* drop(db), whose checkpoint seals what there is, unless it fails.         *)
DropHalf ==
    /\ imp.at = "failing"
    /\ imp' = [imp EXCEPT !.at = "dropped"]
    /\ out' \in {Sealed(out), [out EXCEPT !.mem = <<>>]}
    /\ UNCHANGED <<db, dir, exp, ops, crashes>>

(* The file is removed, as well as that goes: an error is ignored.          *)
RemoveFile ==
    /\ imp.at = "dropped"
    /\ imp' = [imp EXCEPT !.at = "removed"]
    /\ out' \in {out, [out EXCEPT !.exists = FALSE, !.file = <<>>]}
    /\ UNCHANGED <<db, dir, exp, ops, crashes>>

(* And so is the log.                                                       *)
RemoveLog ==
    /\ imp.at = "removed"
    /\ imp' = [imp EXCEPT !.at = "failed"]
    /\ out' \in {out, [out EXCEPT !.log = <<>>]}
    /\ UNCHANGED <<db, dir, exp, ops, crashes>>

CrashImport ==
    /\ imp.at \notin Ended /\ crashes < MaxCrashes
    /\ imp' = [imp EXCEPT !.at = "crashed"]
    /\ out' = [out EXCEPT !.mem = <<>>]
    /\ crashes' = crashes + 1
    /\ UNCHANGED <<db, dir, exp, ops>>

-----------------------------------------------------------------------------

Init ==
    /\ db \in Starts /\ dir \in Servers
    /\ exp = NoExport /\ imp = NoImport /\ out = NoOut
    /\ ops = 0 /\ crashes = 0

Next ==
    \/ \E n \in DOMAIN db.colls, x \in NewPoints : UpsertPoint(n, x[1], x[2])
    \/ \E n \in DOMAIN db.colls, x \in NewIndexes : DeclareIndex(n, x)
    \/ \E n \in DOMAIN db.colls : DropCollection(n)
    \/ \E a \in Name, n \in DOMAIN db.colls : CreateAlias(a, n)
    \/ StartExport \/ ReadAliases \/ SettleOne \/ ReadPoints \/ ReadVocabulary
    \/ PublishArchive \/ PublishSidecar \/ CrashExport
    \/ ReadSidecar \/ ReadArchive \/ PlanImport \/ AssembleOne
    \/ CheckpointImport \/ IoError
    \/ DropHalf \/ RemoveFile \/ RemoveLog \/ CrashImport

Spec == Init /\ [][Next]_vars

-----------------------------------------------------------------------------
(* Properties.                                                              *)

(* An aspect of a collection that arrived as it left.  Points keep their    *)
(* ids and their payloads, but for the text's key; the sparse lane is the   *)
(* user's only where no provider derives it; the text is what a refit of    *)
(* the imported collection finds again.                                     *)
Kept(aspect, was, got) ==
    CASE aspect = "provider" -> got.coll.provider = was.coll.provider
                                /\ (AutoEmbeds(was.coll) => got.coll.ready)
      [] aspect = "compression" -> got.coll.compression = was.coll.compression
      [] aspect = "created" -> was.coll.config \subseteq got.coll.indexes
      [] aspect = "indexes" -> got.coll.indexes = was.coll.indexes
      [] aspect = "aliases" -> got.aliases = was.aliases
      [] aspect = "vocab" -> got.coll.ready => got.coll.vocab = was.coll.vocab
      [] aspect = "policies" -> was.coll.policies = {}
      [] aspect = "points" ->
            /\ DOMAIN got.coll.points = DOMAIN was.coll.points
            /\ \A i \in DOMAIN was.coll.points :
                  Range(was.coll.points[i].pay) = Range(got.coll.points[i].pay)
      [] aspect = "sparse" ->
            ~AutoEmbeds(was.coll) =>
               \A i \in DOMAIN was.coll.points :
                  got.coll.points[i].sparse = was.coll.points[i].sparse
      [] aspect = "text" -> Texts(got.coll) = Texts(was.coll)

(* Of every collection the import reports, the sealed file has each aspect  *)
(* it was read with, or one side has warned of the loss.                    *)
Reported ==
    \A n \in imp.report :
       /\ n \in DOMAIN out.file
       /\ \A a \in Aspects :
             Kept(a, out.file[n].was, out.file[n]) \/ <<n, a>> \in imp.warnings

(* IOP-022, "never silent": a successful import of an archive with its own  *)
(* sidecar lost nothing unreported, whatever the program did between the    *)
(* export's reads.                                                          *)
NothingLostSilently == imp.at = "ok" /\ ~imp.apart => Reported

(* The same for whatever pair an import finds in the directory.  export.rs  *)
(* says of its two renames "both files land only if everything above        *)
(* succeeded"; a crash or an error between them leaves one.                 *)
NeverSilent == imp.at = "ok" => Reported

(* An import that fails for what it read, not for an I/O error, read an     *)
(* archive that VecLite has not written, a pair that does not belong        *)
(* together, or one whose export met an alias under the name of a           *)
(* collection it had listed.                                                *)
OwnArchivesImport ==
    imp.at = "failing" /\ ~imp.io /\ ~imp.apart =>
       \E e \in Range(imp.todo) : ~e.was.ours \/ e.was.met

(* export.rs, "the archive carries exactly the vectors a search here would  *)
(* score": what is archived of a collection is of one settled state.        *)
ArchiveScoresAlike == \A e \in Range(exp.entries) : e.was.alike

(* main.rs, "Never leave a half-imported database behind": an import that   *)
(* ends with an error leaves nothing of it in the file.                     *)
NoHalfImport == imp.at = "failed" => out.file = <<>>

=============================================================================
