------------------------------- MODULE Pager -------------------------------
(***************************************************************************)
(* The root-pointer-swap commit protocol of storage/pager.rs (STG-050) on  *)
(* one `.veclite` file, with the page cache between the process and the    *)
(* disk, I/O errors, kill -9, power loss and reopening.                    *)
(*                                                                         *)
(* The file is a header page and blocks at offsets 1..MaxOff; a segment    *)
(* and a TOC take one block each, and a collection one segment.  `blk` and *)
(* `hdr` are what a read returns (the page cache), `dblk` and `dhdr` what  *)
(* is on the platter.  A CRC is modelled as collision free: the header's   *)
(* toc_crc32 is the TOC it was computed from, and a block torn by a power  *)
(* loss passes no CRC.  The 4 KiB header page is written atomically, the   *)
(* assumption STG-011 states.                                              *)
(***************************************************************************)
EXTENDS Naturals, FiniteSets

CONSTANTS
    Coll,       \* collection ids
    Body,       \* what a segment can hold
    Images,     \* what the caller may ask to store: a body per live collection
    MaxOff,     \* capacity of the volume, in blocks: a write beyond it is ENOSPC
    MaxGen,     \* bound on the generation counter
    FailSteps   \* the steps of `checkpoint` whose I/O call may return an error

Steps == {"segments", "toc", "syncToc", "header", "syncHeader"}

ASSUME PagerAssumption ==
    /\ MaxOff \in Nat /\ MaxOff >= 1
    /\ MaxGen \in Nat
    /\ FailSteps \subseteq Steps
    /\ Images \subseteq UNION {[S -> Body] : S \in SUBSET Coll}

VARIABLES
    hdr,    \* header in the page cache: the TOC's offset and its CRC (the TOC)
    dhdr,   \* header on disk
    blk,    \* blocks in the page cache
    dblk,   \* blocks on disk
    pc,     \* where `checkpoint` is; "idle", "down" or "corrupt" outside it
    tail,   \* Pager::tail, the next append offset
    gen,    \* Journal::generation
    toc,    \* segment references of the TOC last returned to the caller
    known,  \* what the caller's collections held when it was returned
    image,  \* checkpoint argument: what each collection holds now
    todo,   \* collections whose segment is still to be appended
    cur,    \* `cur` / `toc_start` of the running checkpoint
    refs,   \* live_segments of the TOC being built
    may     \* history: contents a recovery may return

fileVars == <<hdr, dhdr, blk, dblk>>
jobVars  == <<image, todo, cur, refs>>
vars     == <<hdr, dhdr, blk, dblk, pc, tail, gen, toc, known,
              image, todo, cur, refs, may>>

-----------------------------------------------------------------------------
(* What the file holds.                                                     *)

Off      == 1..MaxOff
Refs     == UNION {[S -> Off] : S \in SUBSET Coll}
Contents == UNION {[S -> Body] : S \in SUBSET Coll}

Seg(c, b) == [kind |-> "seg", coll |-> c, body |-> b]
Toc(g, r) == [kind |-> "toc", gen |-> g, refs |-> r]
Hole      == [kind |-> "hole"]      \* never written
Torn      == [kind |-> "torn"]      \* part of a write reached the disk

Tocs    == {Toc(g, r) : g \in 0..MaxGen, r \in Refs}
Block   == {Seg(c, b) : c \in Coll, b \in Body} \cup Tocs \cup {Hole, Torn}
Headers == [off : Off, toc : Tocs]

Empty == [c \in {} |-> c]

(* Every block the header leads to.                                         *)
Chain(h) == {h.off} \cup {h.toc.refs[c] : c \in DOMAIN h.toc.refs}

(* read_committed, then read_segment on every reference: the TOC must pass  *)
(* the header's CRC and each segment its own.  A segment does not name the  *)
(* checkpoint it was written for, so an intact but wrong one goes unnoticed.*)
Valid(h, b) ==
    /\ b[h.off] = h.toc
    /\ \A c \in DOMAIN h.toc.refs : b[h.toc.refs[c]].kind = "seg"

Content(h, b) == [c \in DOMAIN h.toc.refs |-> b[h.toc.refs[c]].body]

-----------------------------------------------------------------------------
(* What a power loss can leave of the page cache.                           *)

Dirty == {o \in Off : blk[o] # dblk[o]}
Fates == [Dirty -> {"old", "new", "torn"}]

Survive(f) ==
    [o \in Off |-> IF o \notin Dirty \/ f[o] = "new" THEN blk[o]
                   ELSE IF f[o] = "old" THEN dblk[o] ELSE Torn]

-----------------------------------------------------------------------------
(* Pager::create left a durable generation-0 file with an empty TOC.        *)
Init ==
    /\ hdr = [off |-> 1, toc |-> Toc(0, Empty)]
    /\ dhdr = hdr
    /\ blk = [o \in Off |-> IF o = 1 THEN Toc(0, Empty) ELSE Hole]
    /\ dblk = blk
    /\ pc = "idle" /\ tail = 2 /\ gen = 0
    /\ toc = Empty /\ known = Empty
    /\ image = Empty /\ todo = {} /\ cur = 1 /\ refs = Empty
    /\ may = {Empty}

(* No checkpoint is running.                                                *)
NoJob == image' = Empty /\ todo' = {} /\ cur' = 1 /\ refs' = Empty

(* Mutant: a commit reuses the current generation.                          *)
NextGen_Stale == gen

(* Persistence::commit: `j.generation += 1`.                                *)
NextGen == gen + 1

(* Persistence::commit takes the next generation and calls checkpoint.  The *)
(* caller passes, per collection, what it holds, or (clean_reuse) only the  *)
(* references of a collection unchanged since the TOC it was given.         *)
BeginCheckpoint(img, reused) ==
    /\ pc = "idle" /\ gen < MaxGen
    /\ reused \subseteq {c \in DOMAIN img \cap DOMAIN known : img[c] = known[c]}
    /\ gen' = NextGen
    /\ image' = img
    /\ todo' = DOMAIN img \ reused
    /\ refs' = [c \in reused |-> toc[c]]
    /\ cur' = tail
    /\ may' = may \cup {img}
    /\ pc' = "segments"
    /\ UNCHANGED <<hdr, dhdr, blk, dblk, tail, toc, known>>

(* (1) append one new segment at `cur`.                                     *)
AppendSegment(c) ==
    /\ pc = "segments" /\ c \in todo /\ cur \in Off
    /\ blk' = [blk EXCEPT ![cur] = Seg(c, image[c])]
    /\ refs' = [x \in DOMAIN refs \cup {c} |-> IF x = c THEN cur ELSE refs[x]]
    /\ cur' = cur + 1
    /\ todo' = todo \ {c}
    /\ UNCHANGED <<hdr, dhdr, dblk, pc, tail, gen, toc, known, image, may>>

(* fsync: everything in the page cache is on disk when it returns.          *)
SyncAll == dblk' = blk /\ dhdr' = hdr /\ UNCHANGED <<blk, hdr>>

(* (2) fsync the segments.                                                  *)
SyncSegments ==
    /\ pc = "segments" /\ todo = {}
    /\ SyncAll
    /\ pc' = "toc"
    /\ UNCHANGED <<tail, gen, toc, known, image, todo, cur, refs, may>>

(* (3) append the TOC.                                                      *)
AppendToc ==
    /\ pc = "toc" /\ cur \in Off
    /\ blk' = [blk EXCEPT ![cur] = Toc(gen, refs)]
    /\ pc' = "syncToc"
    /\ UNCHANGED <<hdr, dhdr, dblk, tail, gen, toc, known, jobVars, may>>

(* Mutant: the header is written before the TOC is on disk.                 *)
SyncToc_Skipped ==
    /\ pc = "syncToc"
    /\ pc' = "header"
    /\ UNCHANGED <<fileVars, tail, gen, toc, known, jobVars, may>>

(* (4) fsync the TOC.                                                       *)
SyncToc ==
    /\ pc = "syncToc"
    /\ SyncAll
    /\ pc' = "header"
    /\ UNCHANGED <<tail, gen, toc, known, jobVars, may>>

NewHeader == [off |-> cur, toc |-> Toc(gen, refs)]

(* (5) rewrite the header page in place.                                    *)
WriteHeader ==
    /\ pc = "header"
    /\ hdr' = NewHeader
    /\ pc' = "syncHeader"
    /\ UNCHANGED <<dhdr, blk, dblk, tail, gen, toc, known, jobVars, may>>

(* Mutants: off by one, either way.                                         *)
TailAfter_Before(o) == o
TailAfter_Beyond(o) == o + 2

(* The append offset behind a TOC.                                          *)
TailAfter(o) == o + 1

(* (6) fsync the header; only now does `tail` advance and the caller get    *)
(* the TOC it records for carry-forward.                                    *)
SyncHeader ==
    /\ pc = "syncHeader"
    /\ SyncAll
    /\ tail' = TailAfter(cur)
    /\ toc' = refs
    /\ known' = image
    /\ may' = {image}
    /\ pc' = "idle"
    /\ NoJob
    /\ UNCHANGED gen

(* An I/O call of the current step returns an error and `?` leaves          *)
(* checkpoint: the generation stays taken, `tail` stays where it was, and   *)
(* what the failed write did is unknown.                                    *)
FailCheckpoint ==
    /\ \/ pc \in FailSteps
       \/ pc \in {"segments", "toc"} /\ cur \notin Off
    /\ \/ UNCHANGED <<blk, hdr>>
       \/ /\ pc \in {"segments", "toc"} /\ cur \in Off
          /\ blk' = [blk EXCEPT ![cur] = Torn]
          /\ UNCHANGED hdr
       \/ pc = "header" /\ hdr' = NewHeader /\ UNCHANGED blk
    /\ pc' = "idle"
    /\ NoJob
    /\ UNCHANGED <<dhdr, dblk, tail, gen, toc, known, may>>

(* The operating system writes a dirty page back when it likes.             *)
Writeback ==
    /\ \/ \E o \in Dirty : dblk' = [dblk EXCEPT ![o] = blk[o]] /\ UNCHANGED dhdr
       \/ hdr # dhdr /\ dhdr' = hdr /\ UNCHANGED dblk
    /\ UNCHANGED <<hdr, blk, pc, tail, gen, toc, known, jobVars, may>>

(* The process ends and its memory with it.                                 *)
ProcessGone ==
    /\ pc' = "down"
    /\ tail' = 1 /\ gen' = 0 /\ toc' = Empty /\ known' = Empty
    /\ NoJob
    /\ UNCHANGED may

(* kill -9: the process is gone, the page cache is not.                     *)
Kill ==
    /\ pc \in Steps \cup {"idle"}
    /\ ProcessGone
    /\ UNCHANGED fileVars

(* Power loss: every dirty page is old, new or torn; the header page is     *)
(* old or new.                                                              *)
PowerLoss ==
    /\ pc # "corrupt"
    /\ \E f \in Fates, h \in {hdr, dhdr} :
          /\ blk' = Survive(f) /\ dblk' = Survive(f)
          /\ hdr' = h /\ dhdr' = h
    /\ ProcessGone

(* Pager::open and Persistence::open: validate the chain, load every        *)
(* collection, append after the committed TOC from now on.                  *)
Open ==
    /\ pc = "down"
    /\ IF Valid(hdr, blk)
       THEN /\ pc' = "idle"
            /\ tail' = TailAfter(hdr.off)
            /\ gen' = hdr.toc.gen
            /\ toc' = hdr.toc.refs
            /\ known' = Content(hdr, blk)
       ELSE pc' = "corrupt" /\ UNCHANGED <<tail, gen, toc, known>>
    /\ UNCHANGED <<fileVars, jobVars, may>>

Next ==
    \/ \E img \in Images : \E reused \in SUBSET DOMAIN img : BeginCheckpoint(img, reused)
    \/ \E c \in Coll : AppendSegment(c)
    \/ SyncSegments \/ AppendToc \/ SyncToc \/ WriteHeader \/ SyncHeader
    \/ FailCheckpoint \/ Writeback \/ Kill \/ PowerLoss \/ Open

Spec == Init /\ [][Next]_vars

-----------------------------------------------------------------------------
(* Properties.                                                              *)

(* Every variable keeps its shape: offsets stay within one past the volume, *)
(* and the block maps stay total.                                           *)
TypeOK ==
    /\ hdr \in Headers /\ dhdr \in Headers
    /\ blk \in [Off -> Block] /\ dblk \in [Off -> Block]
    /\ pc \in Steps \cup {"idle", "down", "corrupt"}
    /\ tail \in 1..(MaxOff + 1) /\ gen \in 0..MaxGen /\ cur \in 1..(MaxOff + 1)
    /\ toc \in Refs /\ refs \in Refs
    /\ known \in Contents /\ image \in Contents /\ may \in SUBSET Contents
    /\ todo \in SUBSET Coll

(* STG-050 / WAL-032: whatever the power loss leaves of the cache at this   *)
(* very moment, the file opens, and holds either what the last completed    *)
(* checkpoint stored or what one begun since asked for, collection by       *)
(* collection, never a mixture.                                             *)
RecoverPreOrPost ==
    \A h \in {hdr, dhdr} : \A f \in Fates :
        Valid(h, Survive(f)) /\ Content(h, Survive(f)) \in may

(* STG-051, "the header swap discipline makes this state unreachable except *)
(* by external damage": an open never finds a TOC that fails the header's   *)
(* CRC.  A failing fsync of the header leaves `tail` behind its chain.      *)
NeverCorrupt == pc # "corrupt"

(* "nothing committed is ever overwritten": no step, a crash included,      *)
(* changes a block that the cached or the durable header leads to.          *)
CommittedNeverOverwritten ==
    [][\A o \in Chain(hdr) \cup Chain(dhdr) : blk'[o] = blk[o]]_vars

(* "generation must exceed the previous one (monotonic)": a header swap     *)
(* goes to a later generation; only a power loss goes back, and then to     *)
(* the header that was on disk.                                             *)
GenerationMonotonic ==
    [][hdr' # hdr => hdr'.toc.gen > hdr.toc.gen \/ hdr' = dhdr]_vars

-----------------------------------------------------------------------------
(* The inductive invariant behind the safety properties.                    *)

(* A header's chain lies at or below its TOC, is on disk as it is in the    *)
(* cache, and decodes to a content a recovery may return.                   *)
Sound(h, cache, disk, allowed) ==
    /\ Valid(h, cache)
    /\ Content(h, cache) \in allowed
    /\ \A o \in Chain(h) : o <= h.off /\ cache[o] = disk[o]

ChainsSound ==
    /\ Sound(hdr, blk, dblk, may) /\ Sound(dhdr, blk, dblk, may)
    /\ dhdr.off <= hdr.off

(* Appends go beyond everything the header leads to.                        *)
TailBeyondChain ==
    pc \in (Steps \ {"syncHeader"}) \cup {"idle"} => hdr.off < tail

(* The references the caller may carry forward lead to settled segments     *)
(* that hold what the caller thinks they hold.                              *)
CallerRefsSound ==
    /\ DOMAIN toc = DOMAIN known
    /\ \A c \in DOMAIN known :
          /\ toc[c] < tail
          /\ blk[toc[c]] = dblk[toc[c]]
          /\ blk[toc[c]].kind = "seg" /\ blk[toc[c]].body = known[c]

(* What the running checkpoint has written so far.                          *)
JobSound ==
    pc \in Steps =>
      /\ image \in may
      /\ tail <= cur
      /\ DOMAIN refs \cup todo = DOMAIN image
      /\ \A c \in DOMAIN refs : /\ refs[c] < cur
                               /\ blk[refs[c]].kind = "seg"
                               /\ blk[refs[c]].body = image[c]
      /\ pc # "segments" => /\ todo = {}
                            /\ \A c \in DOMAIN refs : blk[refs[c]] = dblk[refs[c]]
      /\ pc \in {"syncToc", "header", "syncHeader"} =>
            cur \in Off /\ blk[cur] = Toc(gen, refs)
      /\ pc \in {"header", "syncHeader"} => blk[cur] = dblk[cur]
      /\ pc = "syncHeader" => hdr = NewHeader

IInv == TypeOK /\ ChainsSound /\ TailBeyondChain /\ CallerRefsSound /\ JobSound /\ NeverCorrupt

=============================================================================
