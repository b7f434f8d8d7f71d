-------------------------------- MODULE Image --------------------------------
(***************************************************************************)
(* What a database file says: the segments a checkpoint seals a collection *)
(* into, the log entries behind them, and everyone who reads them back --  *)
(* an open that materializes, an open that maps the vectors, deserialize,  *)
(* and `veclite verify`, which promises to find what the others would trip *)
(* on.  One collection, one write at a time, at most one damaged field.    *)
(*                                                                         *)
(* Abstracted: byte encodings (a body is what it decodes to), the CRC (it  *)
(* tells a damaged body from an intact one, never by accident), vectors,   *)
(* posting values; the commit protocol is Pager's and Store's.             *)
(***************************************************************************)
EXTENDS Naturals, FiniteSets, Sequences, SequencesExt, FiniteSetsExt, Functions, TLC

CONSTANTS
    Point,       \* points the program may upsert, [id, vec, pay, sparse]
    Key,         \* keys it may declare an index on
    Payload,     \* payloads
    Depth,       \* payload -> how deep its MessagePack containers nest
    MaxDepth,    \* MAX_MSGPACK_DEPTH
    NoPay,       \* no payload
    MaxOps,      \* operations of the program
    Damages      \* fields of a frame that may be damaged on disk

ASSUME ImageAssumption ==
    /\ MaxOps \in Nat /\ MaxDepth \in Nat
    /\ NoPay \notin Payload
    /\ Depth \in [Payload -> Nat]
    /\ \A p \in Point : p.pay \in Payload \cup {NoPay} /\ IsFiniteSet(p.sparse)
    /\ Damages \subseteq {"root", "type", "codec", "length", "rawLength", "body", "ignored"}

VARIABLES
    mem,     \* the collection in memory, see Fresh
    file,    \* the committed segments: a sequence of frames in replay order
    rooted,  \* the header and the table of contents read back as written
    wal,     \* entries logged since the last checkpoint
    image,   \* the last serialize: [frames, contents], or NoImage
    damaged, ops

vars == <<mem, file, rooted, wal, image, damaged, ops>>

(* The bytes of segment.rs's SegmentType.                                   *)
Config == 1
Vectors == 2
Tombstone == 3
Payloads == 4
Pidx == 5
SparseLane == 6
Hnsw == 7
Vocab == 8
Iddir == 9

(* STG-041's replay rank of a type, the order of a collection's references. *)
ReplayOrder == <<Config, Iddir, Vectors, Tombstone, Payloads, Pidx, SparseLane, Vocab, Hnsw>>

(***************************************************************************)
(* The collection in memory.                                               *)
(***************************************************************************)
Dead == [id |-> "dead"]

(* `slots`: points, whose sparse lane is a set of terms, or Dead; `config`: *)
(* the indexes of its options, `indexes`: those declared in all; `auto`: it *)
(* embeds text, and `vocab` then counts the documents in its vocabulary.    *)
Fresh(auto) ==
    [slots |-> <<>>, config |-> {}, indexes |-> {}, auto |-> auto,
     vocab |-> 0, dirty |-> TRUE]

LiveSlots(m) == {s \in DOMAIN m.slots : m.slots[s] # Dead}
Bury(m, id) ==
    [m EXCEPT !.slots = [s \in DOMAIN @ |->
                            IF @[s] # Dead /\ @[s].id = id THEN Dead ELSE @[s]]]

(* apply_upsert: the old slot dies, the point takes a fresh one.            *)
ApplyUpsert(m, p) ==
    LET b == Bury(m, p.id) IN
    [b EXCEPT !.slots = Append(@, p), !.dirty = TRUE,
              !.vocab = IF m.auto THEN @ + 1 ELSE @]
Delete(m, id) == [Bury(m, id) EXCEPT !.dirty = TRUE]
Declare(m, k) == [m EXCEPT !.indexes = @ \cup {k}, !.dirty = TRUE]

(* live_points: the live slots' points, in slot order.                      *)
LivePoints(m) == SelectSeq(m.slots, LAMBDA p : p # Dead)

(* What a caller can ask of a collection, whatever its slots are.           *)
Contents(m) ==
    [points |-> {m.slots[s] : s \in LiveSlots(m)},
     indexes |-> m.indexes, auto |-> m.auto, vocab |-> m.vocab]

(***************************************************************************)
(* seal: a collection's live points as segments.  Slots are numbered from  *)
(* zero in the file, without the dead ones.                                *)
(***************************************************************************)
Frame(type, said) ==
    [type |-> type, ref |-> type, said |-> said,
     codec |-> TRUE, length |-> TRUE, rawLength |-> TRUE, body |-> TRUE]

Numbered(live) == {k - 1 : k \in DOMAIN live}

(* to_stored; the id directory; the vectors, as they are in memory.         *)
ConfigFrame(m) == Frame(Config, m.auto)
IddirFrame(live) == Frame(Iddir, [n \in Numbered(live) |-> live[n + 1].id])
VectorsFrame(live) == Frame(Vectors, [n \in Numbered(live) |-> live[n + 1].vec])

PayloadFrames(live) ==
    LET has == {n \in Numbered(live) : live[n + 1].pay # NoPay} IN
    IF has = {} THEN <<>>
    ELSE <<Frame(Payloads, [n \in has |-> live[n + 1].pay])>>

(* Mutant: the lane keeps the numbers the slots have in memory.             *)
SparseFrames_InMemory(m, live) ==
    LET used == UNION {m.slots[s].sparse : s \in LiveSlots(m)}
        post == [t \in used |-> {s - 1 : s \in {r \in LiveSlots(m) : t \in m.slots[r].sparse}}]
    IN  IF used = {} THEN <<>> ELSE <<Frame(SparseLane, post)>>

(* sparse_to_postings: term -> the slots whose lane has it.                 *)
SparseFrames(m, live) ==
    LET used == UNION {live[k].sparse : k \in DOMAIN live}
        post == [t \in used |-> {n \in Numbered(live) : t \in live[n + 1].sparse}]
    IN  IF used = {} THEN <<>> ELSE <<Frame(SparseLane, post)>>

(* One PIDX per declared key.                                               *)
PidxFrames(declared) ==
    LET keys == SetToSeq(declared) IN [n \in DOMAIN keys |-> Frame(Pidx, keys[n])]

VocabFrames(m) == IF m.auto /\ m.vocab > 0 THEN <<Frame(Vocab, m.vocab)>> ELSE <<>>

(* The table of contents lists them in replay order.                        *)
Seal(m, declared) ==
    LET live == LivePoints(m) IN
    <<ConfigFrame(m), IddirFrame(live), VectorsFrame(live)>>
    \o PayloadFrames(live) \o PidxFrames(declared)
    \o SparseFrames(m, live) \o VocabFrames(m)

(* write_image, of what serialize seals: the indexes of the options, not    *)
(* those declared since.                                                    *)
WriteImage(m) == Seal(m, m.config)

(***************************************************************************)
(* Reading a frame back.                                                   *)
(***************************************************************************)
Known(type) == type \in 1..9

(* Segment::read: the type must be known, the body must be whole and must   *)
(* decompress to the length the header gives.  The type, the flags and the  *)
(* collection of the header are under no checksum.                          *)
Readable(f) == Known(f.type) /\ f.codec /\ f.length /\ f.rawLength /\ f.body

(* read_image, Pager::read_segment: every segment of the table is read.     *)
AllReadable(fs) == \A k \in DOMAIN fs : Readable(fs[k])

(* FileMap::segment_body, for a VECTORS reference: neither the type on disk *)
(* nor the uncompressed length is looked at.                                *)
Mappable(f) == f.codec /\ f.length /\ f.body

(* A body under the decoder of another type: payload records whose first    *)
(* slot is 0 read as an empty sparse lane, those that start at slot 1, 2 or *)
(* 3 as an index on the empty key; a vocabulary takes any bytes; nobody     *)
(* decodes TOMBSTONE and HNSW.  No other body parses as what it is not.     *)
FirstSlot(f) == Min(DOMAIN f.said)
Decodes(f) ==
    \/ f.type = f.ref
    \/ f.type \in {Tombstone, Hnsw, Vocab}
    \/ f.ref = Payloads /\ f.type = SparseLane /\ FirstSlot(f) = 0
    \/ f.ref = Payloads /\ f.type = Pidx /\ FirstSlot(f) \in 1..3

(* guard_msgpack_depth, for every payload of the block.                     *)
ShallowEnough(f) ==
    f.type = Payloads => \A n \in DOMAIN f.said : Depth[f.said[n]] <= MaxDepth

(* A segment of a type overrides those before it; what was misread as a     *)
(* lane is empty.                                                           *)
Segments(fs, type) == SelectSeq(fs, LAMBDA f : f.type = type)
Said(fs, type, none) ==
    LET of == Segments(fs, type) IN
    IF of = <<>> THEN none
    ELSE IF Last(of).ref = type THEN Last(of).said ELSE <<>>

DeclaredBy(fs) ==
    {IF fs[k].ref = Pidx THEN fs[k].said ELSE "" :
        k \in {j \in DOMAIN fs : fs[j].type = Pidx}}

(* IdDir::decode; the vectors read in, and those left in the map.           *)
IdsIn(fs) == Said(fs, Iddir, <<>>)
VectorsIn(fs) == Said(fs, Vectors, <<>>)
VectorsRegion(f) == f.said

PointAt(fs, vecs, n) ==
    LET pays == Said(fs, Payloads, <<>>)
        terms == Said(fs, SparseLane, <<>>)
    IN  [id |-> IdsIn(fs)[n], vec |-> vecs[n],
         pay |-> IF n \in DOMAIN pays THEN pays[n] ELSE NoPay,
         sparse |-> {t \in DOMAIN terms : n \in terms[t]}]

(* The collection install_points or install_base builds; it matches the     *)
(* file, so it is clean.                                                    *)
Installed(fs, vecs, vocab) ==
    [slots |-> [k \in 1..Cardinality(DOMAIN vecs) |-> PointAt(fs, vecs, k - 1)],
     config |-> DeclaredBy(fs), indexes |-> DeclaredBy(fs),
     auto |-> Said(fs, Config, FALSE), vocab |-> vocab, dirty |-> FALSE]

Failed == [ok |-> FALSE]
Loaded(m) == [ok |-> TRUE, mem |-> m]

Complete(fs, types) ==
    /\ \A t \in types : Segments(fs, t) # <<>>
    /\ \A k \in DOMAIN fs : Decodes(fs[k]) /\ ShallowEnough(fs[k])

(* seal::load: CONFIG, VECTORS and IDDIR must be there.                     *)
Load(fs) ==
    IF Complete(fs, {Config, Vectors, Iddir})
    THEN Loaded(Installed(fs, VectorsIn(fs), Said(fs, Vocab, 0)))
    ELSE Failed

(* seal::load_based, of the other segments: the vectors stay in the map, and*)
(* VOCAB is not for this tier.                                              *)
LoadBased(rest, vecs) ==
    IF Complete(rest, {Config, Iddir}) THEN Loaded(Installed(rest, vecs, 0)) ELSE Failed

(***************************************************************************)
(* The readers.                                                            *)
(***************************************************************************)
(* Persistence::open: VECTORS are mapped when asked for and the collection  *)
(* does not embed text; everything else is read and decoded.                *)
LoadFile(fs, tier) ==
    LET vecs == SelectSeq(fs, LAMBDA f : f.ref = Vectors)
        rest == SelectSeq(fs, LAMBDA f : f.ref # Vectors)
    IN  IF ~rooted \/ ~AllReadable(rest) THEN Failed
        ELSE IF tier = "mapped" /\ Complete(rest, {Config, Iddir}) /\ ~Said(rest, Config, TRUE)
             THEN IF Mappable(vecs[1]) THEN LoadBased(rest, VectorsRegion(vecs[1])) ELSE Failed
             ELSE IF AllReadable(vecs) THEN Load(fs) ELSE Failed

(* wal_body::decode guards the whole entry, in which a payload lies two     *)
(* containers deep: the batch and the point.                                *)
Replayable(e) ==
    e.op = "upsert" /\ e.point.pay # NoPay => Depth[e.point.pay] + 2 <= MaxDepth

(* apply_wal_entry; replay_upsert folds the document in again.              *)
ApplyEntry(m, e) ==
    CASE e.op = "upsert"  -> ApplyUpsert(m, e.point)
      [] e.op = "delete"  -> Delete(m, e.id)
      [] e.op = "declare" -> Declare(m, e.key)

(* An entry that does not decode fails the open.                            *)
Open(tier) ==
    LET l == LoadFile(file, tier) IN
    IF l.ok /\ \A k \in DOMAIN wal : Replayable(wal[k])
    THEN Loaded(FoldLeft(ApplyEntry, l.mem, wal)) ELSE Failed

(* deserialize: every segment is read, then loaded.                         *)
Deserialize(fs) ==
    IF AllReadable(fs) THEN Load(fs) ELSE Failed

(* Mutant: a frame of another type than the table of contents lists passes. *)
FrameFinding_AnyType(f) == ~Readable(f)

(* verify_file, for one frame: it reads, and is what the table says.        *)
FrameFinding(f) == ~Readable(f) \/ f.type # f.ref

(* verify_file: the root, every frame, and -- of a collection whose frames  *)
(* are intact -- whether its state reconstructs.                            *)
Findings ==
    IF ~rooted THEN {"root"}
    ELSE IF \E k \in DOMAIN file : FrameFinding(file[k]) THEN {"frame"}
    ELSE IF ~Load(file).ok THEN {"state"} ELSE {}

(***************************************************************************)
(* Behaviour.                                                              *)
(***************************************************************************)
NoImage == [frames |-> <<>>, contents |-> Contents(Fresh(FALSE))]

Init ==
    /\ \E auto \in BOOLEAN : mem = [Fresh(auto) EXCEPT !.dirty = FALSE]
    /\ file = Seal(mem, {}) /\ rooted = TRUE
    /\ wal = <<>> /\ image = NoImage
    /\ damaged = FALSE /\ ops = 0

Operate ==
    /\ ops < MaxOps /\ ~damaged
    /\ ops' = ops + 1
    /\ UNCHANGED <<rooted, damaged>>

Logged(e) ==
    /\ Operate
    /\ wal' = Append(wal, e) /\ mem' = ApplyEntry(mem, e)
    /\ UNCHANGED <<file, image>>

(* upsert, of any payload; delete of a live id; create_payload_index.       *)
Upsert(p) == Logged([op |-> "upsert", point |-> p])
DeletePoint(id) ==
    /\ \E s \in LiveSlots(mem) : mem.slots[s].id = id
    /\ Logged([op |-> "delete", id |-> id])
CreatePayloadIndex(k) ==
    /\ k \notin mem.indexes
    /\ Logged([op |-> "declare", key |-> k])

(* A checkpoint of a collection written since: clean ones are carried       *)
(* forward, which leaves their frames as they are.                          *)
Checkpoint ==
    /\ mem.dirty /\ Operate
    /\ file' = Seal(mem, mem.indexes) /\ wal' = <<>>
    /\ mem' = [mem EXCEPT !.dirty = FALSE]
    /\ UNCHANGED image

(* A crash or a close without a checkpoint, then an open.                   *)
Reopen(tier) ==
    /\ Operate /\ Open(tier).ok
    /\ mem' = Open(tier).mem
    /\ UNCHANGED <<file, wal, image>>

Serialize ==
    /\ Operate
    /\ image' = [frames |-> WriteImage(mem),
                 contents |-> [Contents(mem) EXCEPT !.indexes = mem.config]]
    /\ UNCHANGED <<mem, file, wal>>

(* What one flipped bit makes of a type byte.                               *)
Flips(type) ==
    {IF (type \div b) % 2 = 1 THEN type - b ELSE type + b : b \in {1, 2, 4, 8, 16}}

Hurt(f, field) ==
    IF field = "type" THEN {[f EXCEPT !.type = t] : t \in Flips(f.type)}
    ELSE IF field = "ignored" THEN {f}      \* the flags, the collection's id
    ELSE {[f EXCEPT ![field] = FALSE]}

(* The medium damages one field of the file at rest.                        *)
Damage ==
    /\ ~damaged /\ damaged' = TRUE
    /\ \/ "root" \in Damages /\ rooted' = FALSE /\ UNCHANGED file
       \/ \E k \in DOMAIN file, field \in Damages \ {"root"} :
             \E f \in Hurt(file[k], field) :
                file' = [file EXCEPT ![k] = f] /\ UNCHANGED rooted
    /\ UNCHANGED <<mem, wal, image, ops>>

Next ==
    \/ \E p \in Point : Upsert(p) \/ DeletePoint(p.id)
    \/ \E k \in Key : CreatePayloadIndex(k)
    \/ Checkpoint \/ Serialize \/ Damage
    \/ \E tier \in {"materialized", "mapped"} : Reopen(tier)

Spec == Init /\ [][Next]_vars

-----------------------------------------------------------------------------

(* Every open of the file succeeds and serves what was acknowledged.        *)
OpensAsAcked ==
    \A tier \in {"materialized", "mapped"} :
        Open(tier).ok /\ Contents(Open(tier).mem) = Contents(mem)

(* No entry of the log has a payload the replay refuses to decode.          *)
LogDecodes == \A k \in DOMAIN wal : Replayable(wal[k])

(* What was acknowledged can be read back, by every reader: an undamaged    *)
(* file opens on both tiers with the contents of the collection in memory,  *)
(* however its slots were renumbered since and whatever is still in the log,*)
(* and an image holds what the collection held when it was taken.  Payloads *)
(* deeper than the replay decodes are excepted while they are in the log    *)
(* alone; a checkpoint has them readable again.                             *)
AcceptedIsRecoverable ==
    /\ ~damaged /\ LogDecodes => OpensAsAcked
    /\ image # NoImage =>
         LET l == Deserialize(image.frames) IN
         l.ok /\ Contents(l.mem) = image.contents

(* SPEC-006 FLT-002, "Nested objects/arrays are stored verbatim and         *)
(* returned intact", of any payload an upsert has accepted.                 *)
NestedStoredVerbatim == ~damaged => OpensAsAcked

(* A clean verdict can be relied on: when verify finds nothing in a file -- *)
(* damaged or not -- every open of it succeeds and serves what was          *)
(* acknowledged.  verify counts the log's entries without decoding them.    *)
CleanVerdictOpens == Findings = {} /\ LogDecodes => OpensAsAcked

(* STG-021: corruption is Corrupt, never a wrong answer.                    *)
NeverWrongAnswer ==
    \A tier \in {"materialized", "mapped"} :
        Open(tier).ok => Contents(Open(tier).mem) = Contents(mem)

=============================================================================
