----------------------------- MODULE PagerProof -----------------------------
(***************************************************************************)
(* Proofs about Pager for every volume size, set of collections, bodies    *)
(* and failing steps, as long as the header page's write and fsync do not  *)
(* fail (HeaderReliable).                                                  *)
(***************************************************************************)
EXTENDS Pager, TLAPS

HeaderReliable == FailSteps \cap {"header", "syncHeader"} = {}

-----------------------------------------------------------------------------
(* Shapes of references, contents and blocks.                               *)

(* An element of Refs is a function from some collections to offsets.       *)
LEMMA RefsShape ==
    ASSUME NEW r PROVE
    r \in Refs <=> r \in [DOMAIN r -> Off] /\ DOMAIN r \subseteq Coll
BY DEF Refs

(* Likewise for contents.                                                   *)
LEMMA ContentsShape ==
    ASSUME NEW k PROVE
    k \in Contents <=> k \in [DOMAIN k -> Body] /\ DOMAIN k \subseteq Coll
BY DEF Contents

(* A TOC is a TOC block, and its parts have their types.                    *)
LEMMA TocShape ==
    ASSUME NEW t \in Tocs
    PROVE  /\ t.gen \in 0..MaxGen /\ t.refs \in Refs /\ t.kind = "toc"
           /\ t \in Block
BY DEF Tocs, Toc, Block

(* A TOC built from a generation and references is a TOC.                   *)
LEMMA TocType ==
    ASSUME NEW g \in 0..MaxGen, NEW r \in Refs
    PROVE  Toc(g, r) \in Tocs /\ Toc(g, r).refs = r /\ Toc(g, r).gen = g
BY DEF Tocs, Toc

(* A block whose kind is "seg" carries a body.                              *)
LEMMA SegShape ==
    ASSUME NEW b \in Block, b.kind = "seg" PROVE b.body \in Body
BY DEF Block, Tocs, Toc, Seg, Hole, Torn

(* A segment is a block with its kind and body; so is a torn block.         *)
LEMMA SegType ==
    ASSUME NEW c \in Coll, NEW x \in Body
    PROVE  Seg(c, x) \in Block /\ Seg(c, x).kind = "seg" /\ Seg(c, x).body = x
BY DEF Block, Seg

(* A torn block is a block.                                                 *)
LEMMA TornType == Torn \in Block
BY DEF Block

(* The empty map is a reference map and a content.                          *)
LEMMA EmptyShape == Empty \in Refs /\ Empty \in Contents /\ DOMAIN Empty = {}
<1>1. DOMAIN Empty = {}
  BY DEF Empty
<1>2. Empty \in [{} -> Off] /\ Empty \in [{} -> Body]
  BY DEF Empty
<1> QED
  BY <1>1, <1>2, RefsShape, ContentsShape

(* The chain of a header stays within the volume.                           *)
LEMMA ChainInOff ==
    ASSUME NEW h \in Headers PROVE Chain(h) \subseteq Off
<1>1. h.off \in Off /\ h.toc \in Tocs
  BY DEF Headers
<1>2. h.toc.refs \in [DOMAIN h.toc.refs -> Off]
  BY <1>1, TocShape, RefsShape
<1> QED
  BY <1>1, <1>2 DEF Chain

(* A chain stays sound when none of its blocks changes and its content is   *)
(* still one a recovery may return.                                         *)
LEMMA SoundKept ==
    ASSUME NEW h, NEW b, NEW d, NEW m, NEW b2, NEW d2, NEW m2,
           Sound(h, b, d, m),
           \A o \in Chain(h) : b2[o] = b[o] /\ d2[o] = b[o],
           Content(h, b) \in m2
    PROVE  Sound(h, b2, d2, m2) /\ Content(h, b2) = Content(h, b)
<1>1. Content(h, b2) = Content(h, b)
  BY DEF Content, Chain
<1> QED
  BY <1>1 DEF Sound, Valid, Chain

(* What a sound chain decodes to is a content.                              *)
LEMMA ContentType ==
    ASSUME NEW h \in Headers, NEW b \in [Off -> Block], Valid(h, b)
    PROVE  Content(h, b) \in Contents /\ DOMAIN Content(h, b) = DOMAIN h.toc.refs
<1>1. h.toc.refs \in [DOMAIN h.toc.refs -> Off] /\ DOMAIN h.toc.refs \subseteq Coll
  BY TocShape, RefsShape DEF Headers
<1>2. \A c \in DOMAIN h.toc.refs : b[h.toc.refs[c]].body \in Body
  BY <1>1, SegShape DEF Valid
<1>3. DOMAIN Content(h, b) = DOMAIN h.toc.refs
  BY DEF Content
<1>4. Content(h, b) \in [DOMAIN h.toc.refs -> Body]
  BY <1>2 DEF Content
<1> QED
  BY <1>1, <1>3, <1>4, ContentsShape

(* A power loss spares every block that is on disk as it is in the cache.   *)
LEMMA SurviveSpares ==
    ASSUME TypeOK, NEW f \in Fates
    PROVE  /\ Survive(f) \in [Off -> Block]
           /\ \A o \in Off : blk[o] = dblk[o] => Survive(f)[o] = blk[o]
BY TornType DEF TypeOK, Survive, Dirty, Fates

-----------------------------------------------------------------------------
(* The invariant is inductive.                                              *)

(* The file Pager::create leaves satisfies it.                              *)
LEMMA InitIInv == Init => IInv
<1> SUFFICES ASSUME Init PROVE IInv
  OBVIOUS
<1>1. 1 \in Off /\ 0 \in 0..MaxGen
  BY PagerAssumption DEF Off
<1>2. Toc(0, Empty) \in Tocs /\ Toc(0, Empty) \in Block /\ Toc(0, Empty).refs = Empty
  BY <1>1, EmptyShape, TocType, TocShape
<1>3. TypeOK
  <2>1. hdr \in Headers /\ dhdr \in Headers
    BY <1>1, <1>2 DEF Init, Headers
  <2>2. blk \in [Off -> Block] /\ dblk \in [Off -> Block]
    BY <1>2 DEF Init, Block
  <2>3. tail \in 1..(MaxOff + 1) /\ gen \in 0..MaxGen /\ cur \in 1..(MaxOff + 1)
    BY <1>1, PagerAssumption DEF Init
  <2> QED
    BY <2>1, <2>2, <2>3, EmptyShape DEF Init, TypeOK
<1>4. blk = dblk /\ hdr = dhdr /\ hdr.off = 1 /\ hdr.toc.refs = Empty /\ hdr.toc = blk[1]
  BY <1>1, <1>2 DEF Init
<1>5. Content(hdr, blk) = Empty
  BY <1>4, EmptyShape DEF Content, Empty
<1>6. ChainsSound
  BY <1>1, <1>4, <1>5, EmptyShape DEF ChainsSound, Sound, Valid, Chain, Init
<1> QED
  BY <1>3, <1>4, <1>6, EmptyShape
     DEF IInv, TailBeyondChain, CallerRefsSound, JobSound, NeverCorrupt, Init, Steps

(* BeginCheckpoint leaves the file alone; the references carried forward    *)
(* lead to segments that hold what the image asks for.                      *)
LEMMA BeginKeeps ==
    ASSUME IInv, NEW img \in Images, NEW reused \in SUBSET DOMAIN img,
           BeginCheckpoint(img, reused)
    PROVE  IInv'
<1> USE DEF IInv
<1>1. img \in Contents /\ img \in [DOMAIN img -> Body] /\ DOMAIN img \subseteq Coll
  BY PagerAssumption, ContentsShape DEF Contents
<1>2. /\ toc \in [DOMAIN known -> Off] /\ DOMAIN known \subseteq Coll
      /\ reused \subseteq DOMAIN known
      /\ \A c \in reused : img[c] = known[c]
  BY RefsShape, ContentsShape DEF TypeOK, CallerRefsSound, BeginCheckpoint, NextGen
<1>3. refs' \in Refs /\ DOMAIN refs' = reused
  BY <1>1, <1>2, RefsShape DEF BeginCheckpoint, NextGen
<1>4. TypeOK'
  <2>1. gen' \in 0..MaxGen /\ cur' \in 1..(MaxOff + 1) /\ may' \in SUBSET Contents
    BY <1>1, PagerAssumption DEF TypeOK, BeginCheckpoint, NextGen
  <2>2. todo' \in SUBSET Coll /\ image' \in Contents /\ pc' = "segments"
    BY <1>1 DEF BeginCheckpoint, NextGen
  <2> QED
    BY <1>3, <2>1, <2>2 DEF TypeOK, BeginCheckpoint, NextGen, Steps
<1>5. ChainsSound'
  BY DEF ChainsSound, Sound, BeginCheckpoint, NextGen
<1>6. TailBeyondChain' /\ CallerRefsSound' /\ NeverCorrupt'
  BY DEF TailBeyondChain, CallerRefsSound, NeverCorrupt, BeginCheckpoint, NextGen, Steps
<1>7. JobSound'
  <2>1. image' \in may' /\ tail' <= cur' /\ reused \cup todo' = DOMAIN img
    <3>1. tail \in Nat
      BY PagerAssumption DEF TypeOK
    <3>2. image' \in may' /\ tail' <= cur'
      BY <3>1 DEF BeginCheckpoint
    <3>3. reused \cup todo' = DOMAIN img
      BY DEF BeginCheckpoint
    <3> QED
      BY <3>2, <3>3
  <2>2. \A c \in reused : /\ refs'[c] < cur'
                          /\ blk'[refs'[c]].kind = "seg"
                          /\ blk'[refs'[c]].body = image'[c]
    BY <1>2 DEF BeginCheckpoint, NextGen, CallerRefsSound
  <2> QED
    BY <1>3, <2>1, <2>2 DEF JobSound, BeginCheckpoint, NextGen
<1> QED
  BY <1>4, <1>5, <1>6, <1>7

(* A write at `cur` touches no block that a header or the caller leads to.  *)
LEMMA AppendSpares ==
    ASSUME IInv, pc \in {"segments", "toc"}, cur \in Off, NEW b \in Block,
           blk' = [blk EXCEPT ![cur] = b], UNCHANGED <<hdr, dhdr, dblk, may>>
    PROVE  /\ ChainsSound'
           /\ cur \notin Chain(hdr) \cup Chain(dhdr)
           /\ blk' \in [Off -> Block]
           /\ \A c \in DOMAIN known : blk'[toc[c]] = blk[toc[c]]
           /\ \A o \in Off : o # cur => blk'[o] = blk[o]
<1> USE DEF IInv
<1>1. hdr.off < tail /\ tail <= cur /\ dhdr.off <= hdr.off
  BY DEF TailBeyondChain, JobSound, ChainsSound, Steps
<1>2. /\ hdr \in Headers /\ dhdr \in Headers /\ blk \in [Off -> Block]
      /\ cur \in Nat /\ tail \in Nat
  BY PagerAssumption DEF TypeOK
<1>3. \A h \in {hdr, dhdr} : /\ Chain(h) \subseteq Off
                             /\ h.off \in Nat
                             /\ Sound(h, blk, dblk, may)
                             /\ cur \notin Chain(h)
  <2> SUFFICES ASSUME NEW h \in {hdr, dhdr}
               PROVE  /\ Chain(h) \subseteq Off /\ h.off \in Nat
                      /\ Sound(h, blk, dblk, may) /\ cur \notin Chain(h)
    OBVIOUS
  <2>1. Chain(h) \subseteq Off /\ hdr.off \in Nat /\ dhdr.off \in Nat
    BY <1>2, ChainInOff, PagerAssumption DEF Headers, Off
  <2>2. Sound(h, blk, dblk, may)
    BY DEF ChainsSound
  <2>3. \A o \in Chain(h) : o <= h.off
    BY <2>2 DEF Sound
  <2> QED
    BY <1>1, <1>2, <2>1, <2>2, <2>3
<1>4. \A o \in Off : o # cur => blk'[o] = blk[o]
  BY <1>2
<1>5. \A h \in {hdr, dhdr} : Sound(h, blk', dblk', may')
  <2> SUFFICES ASSUME NEW h \in {hdr, dhdr} PROVE Sound(h, blk', dblk, may)
    OBVIOUS
  <2>1. \A o \in Chain(h) : blk'[o] = blk[o] /\ dblk[o] = blk[o]
    BY <1>3, <1>4 DEF Sound
  <2> QED
    BY <1>3, <2>1, SoundKept DEF Sound
<1>6. \A c \in DOMAIN known : blk'[toc[c]] = blk[toc[c]]
  <2> SUFFICES ASSUME NEW c \in DOMAIN known PROVE blk'[toc[c]] = blk[toc[c]]
    OBVIOUS
  <2>1. toc[c] \in Off /\ toc[c] < tail
    BY RefsShape DEF TypeOK, CallerRefsSound
  <2> QED
    BY <1>1, <1>2, <1>4, <2>1 DEF Off
<1>7. blk' \in [Off -> Block]
  BY <1>2
<1> QED
  BY <1>1, <1>3, <1>4, <1>5, <1>6, <1>7 DEF ChainsSound

(* (1) A segment appended at `cur`.                                         *)
LEMMA AppendSegmentKeeps ==
    ASSUME IInv, NEW c \in Coll, AppendSegment(c) PROVE IInv'
<1> USE DEF IInv
<1>0. pc = "segments" /\ pc' = "segments"
  BY DEF AppendSegment
<1>1. /\ image \in [DOMAIN image -> Body] /\ c \in DOMAIN image
      /\ cur \in Nat /\ tail \in Nat /\ tail <= cur
  BY <1>0, ContentsShape, PagerAssumption DEF TypeOK, JobSound, AppendSegment, Steps, Off
<1>2. /\ Seg(c, image[c]) \in Block
      /\ Seg(c, image[c]).kind = "seg" /\ Seg(c, image[c]).body = image[c]
  BY <1>1, SegType
<1>3. /\ ChainsSound' /\ blk' \in [Off -> Block]
      /\ \A k \in DOMAIN known : blk'[toc[k]] = blk[toc[k]]
      /\ \A o \in Off : o # cur => blk'[o] = blk[o]
  BY <1>2, AppendSpares DEF AppendSegment
<1>4. refs \in [DOMAIN refs -> Off] /\ DOMAIN refs \subseteq Coll
  BY RefsShape DEF TypeOK
<1>5. DOMAIN refs' = DOMAIN refs \cup {c} /\ refs' \in Refs
  BY <1>4, RefsShape DEF AppendSegment
<1>6. TypeOK'
  <2>1. cur' \in 1..(MaxOff + 1) /\ todo' \in SUBSET Coll
    BY PagerAssumption DEF TypeOK, AppendSegment, Off
  <2> QED
    BY <1>3, <1>5, <2>1 DEF TypeOK, AppendSegment
<1>7. TailBeyondChain' /\ CallerRefsSound' /\ NeverCorrupt'
  BY <1>3 DEF TailBeyondChain, CallerRefsSound, NeverCorrupt, AppendSegment
<1>8. JobSound'
  <2>1. /\ image' \in may' /\ tail' <= cur' /\ DOMAIN refs' \cup todo' = DOMAIN image'
    <3>1. cur <= cur + 1 /\ tail <= cur + 1
      BY <1>1
    <3>2. DOMAIN refs \cup todo = DOMAIN image /\ image \in may
      BY <1>0 DEF JobSound, Steps
    <3> QED
      BY <1>5, <3>1, <3>2 DEF AppendSegment
  <2>2. \A k \in DOMAIN refs' : /\ refs'[k] < cur'
                                /\ blk'[refs'[k]].kind = "seg"
                                /\ blk'[refs'[k]].body = image'[k]
    <3> SUFFICES ASSUME NEW k \in DOMAIN refs'
                 PROVE  /\ refs'[k] < cur'
                        /\ blk'[refs'[k]].kind = "seg"
                        /\ blk'[refs'[k]].body = image'[k]
      OBVIOUS
    <3>1. CASE k = c
      <4>1. refs'[k] = cur /\ blk'[cur] = Seg(c, image[c]) /\ cur' = cur + 1 /\ image' = image
        BY <1>5, <3>1 DEF AppendSegment, TypeOK
      <4> QED
        BY <1>1, <1>2, <3>1, <4>1
    <3>2. CASE k # c
      <4>1. k \in DOMAIN refs /\ refs'[k] = refs[k] /\ cur' = cur + 1 /\ image' = image
        BY <1>5, <3>2 DEF AppendSegment
      <4>2. refs[k] < cur /\ refs[k] \in Off
        BY <1>0, <1>4, <4>1 DEF JobSound, Steps
      <4>3. refs[k] # cur /\ refs[k] < cur + 1
        BY <1>1, <4>2 DEF Off
      <4> QED
        BY <1>0, <1>3, <4>1, <4>2, <4>3 DEF JobSound, Steps
    <3> QED
      BY <3>1, <3>2
  <2> QED
    BY <1>0, <2>1, <2>2 DEF JobSound
<1> QED
  BY <1>3, <1>6, <1>7, <1>8

(* An fsync makes every chain durable without changing what it decodes to.  *)
LEMMA SyncKeepsChain ==
    ASSUME IInv, SyncAll, NEW h, Sound(h, blk, dblk, may),
           Content(h, blk) \in may'
    PROVE  Sound(h, blk', dblk', may')
BY SoundKept DEF SyncAll, Sound

(* (2) The segments are durable.                                            *)
LEMMA SyncSegmentsKeeps ==
    ASSUME IInv, SyncSegments PROVE IInv'
<1> USE DEF IInv
<1>1. Sound(hdr, blk', dblk', may') /\ Sound(dhdr, blk', dblk', may')
  BY SyncKeepsChain DEF ChainsSound, SyncSegments, Sound
<1>2. ChainsSound'
  <2>1. hdr.off <= hdr.off
    BY PagerAssumption DEF TypeOK, Headers, Off
  <2> QED
    BY <1>1, <2>1 DEF ChainsSound, SyncSegments, SyncAll
<1>3. TypeOK'
  BY DEF TypeOK, SyncSegments, SyncAll, Steps
<1>4. TailBeyondChain' /\ CallerRefsSound' /\ NeverCorrupt'
  BY DEF TailBeyondChain, CallerRefsSound, NeverCorrupt, SyncSegments, SyncAll, Steps
<1>5. JobSound'
  BY DEF JobSound, SyncSegments, SyncAll, Steps
<1> QED
  BY <1>2, <1>3, <1>4, <1>5

(* (3) The TOC appended at `cur`.                                           *)
LEMMA AppendTocKeeps ==
    ASSUME IInv, AppendToc PROVE IInv'
<1> USE DEF IInv
<1>0. pc = "toc" /\ pc' = "syncToc"
  BY DEF AppendToc, jobVars
<1>1. Toc(gen, refs) \in Block
  BY TocType, TocShape DEF TypeOK
<1>2. /\ ChainsSound' /\ blk' \in [Off -> Block]
      /\ \A c \in DOMAIN known : blk'[toc[c]] = blk[toc[c]]
      /\ \A o \in Off : o # cur => blk'[o] = blk[o]
  BY <1>1, AppendSpares DEF AppendToc, jobVars
<1>3. TypeOK'
  BY <1>2 DEF TypeOK, AppendToc, jobVars, Steps
<1>4. TailBeyondChain' /\ CallerRefsSound' /\ NeverCorrupt'
  BY <1>2 DEF TailBeyondChain, CallerRefsSound, NeverCorrupt, AppendToc, jobVars, Steps
<1>5. JobSound'
  <2>1. \A c \in DOMAIN refs : refs[c] \in Off /\ refs[c] # cur
    BY <1>0, RefsShape, PagerAssumption DEF TypeOK, JobSound, Steps, Off
  <2>2. blk'[cur] = Toc(gen, refs) /\ cur \in Off
    BY DEF AppendToc, jobVars, TypeOK
  <2> QED
    BY <1>0, <1>2, <2>1, <2>2 DEF JobSound, AppendToc, jobVars, Steps
<1> QED
  BY <1>2, <1>3, <1>4, <1>5

(* (4) The TOC is durable.                                                  *)
LEMMA SyncTocKeeps ==
    ASSUME IInv, SyncToc PROVE IInv'
<1> USE DEF IInv
<1>1. Sound(hdr, blk', dblk', may') /\ Sound(dhdr, blk', dblk', may')
  BY SyncKeepsChain DEF ChainsSound, SyncToc, jobVars, Sound
<1>2. ChainsSound'
  <2>1. hdr.off <= hdr.off
    BY PagerAssumption DEF TypeOK, Headers, Off
  <2> QED
    BY <1>1, <2>1 DEF ChainsSound, SyncToc, jobVars, SyncAll
<1>3. TypeOK'
  BY DEF TypeOK, SyncToc, jobVars, SyncAll, Steps
<1>4. TailBeyondChain' /\ CallerRefsSound' /\ NeverCorrupt'
  BY DEF TailBeyondChain, CallerRefsSound, NeverCorrupt, SyncToc, jobVars, SyncAll, Steps
<1>5. JobSound'
  BY DEF JobSound, SyncToc, jobVars, SyncAll, Steps
<1> QED
  BY <1>2, <1>3, <1>4, <1>5

(* The chain a finished job's header names is sound and decodes to its image.*)
LEMMA NewHeaderSound ==
    ASSUME IInv, pc \in {"header", "syncHeader"}
    PROVE  /\ NewHeader \in Headers
           /\ NewHeader.off = cur /\ NewHeader.toc = Toc(gen, refs)
           /\ Content(NewHeader, blk) = image
           /\ Sound(NewHeader, blk, dblk, may)
<1> USE DEF IInv
<1>1. /\ Toc(gen, refs) \in Tocs /\ Toc(gen, refs).refs = refs
      /\ refs \in [DOMAIN refs -> Off] /\ image \in [DOMAIN image -> Body]
  BY TocType, RefsShape, ContentsShape DEF TypeOK
<1>2. /\ cur \in Off /\ blk[cur] = Toc(gen, refs) /\ blk[cur] = dblk[cur]
      /\ DOMAIN refs = DOMAIN image /\ image \in may
      /\ \A c \in DOMAIN refs : /\ refs[c] < cur
                               /\ blk[refs[c]].kind = "seg"
                               /\ blk[refs[c]].body = image[c]
                               /\ blk[refs[c]] = dblk[refs[c]]
  BY DEF JobSound, Steps
<1>3. /\ NewHeader \in Headers /\ NewHeader.off = cur
      /\ NewHeader.toc = Toc(gen, refs) /\ NewHeader.toc.refs = refs
  BY <1>1, <1>2 DEF NewHeader, Headers
<1>4. Content(NewHeader, blk) = image
  <2>1. Content(NewHeader, blk) = [c \in DOMAIN image |-> blk[refs[c]].body]
    BY <1>2, <1>3 DEF Content
  <2>2. image = [c \in DOMAIN image |-> image[c]]
    BY <1>1
  <2>3. \A c \in DOMAIN image : blk[refs[c]].body = image[c]
    BY <1>2
  <2> QED
    BY <2>1, <2>2, <2>3
<1>5. Valid(NewHeader, blk)
  BY <1>1, <1>2, <1>3 DEF Valid
<1>6. \A o \in Chain(NewHeader) : o <= cur /\ blk[o] = dblk[o]
  <2>1. cur \in Nat /\ \A c \in DOMAIN refs : refs[c] \in Nat
    BY <1>1, <1>2, PagerAssumption DEF Off
  <2> QED
    BY <1>1, <1>2, <1>3, <2>1 DEF Chain
<1> QED
  BY <1>2, <1>3, <1>4, <1>5, <1>6 DEF Sound

(* (5) The header points at the new TOC in the page cache.                  *)
LEMMA WriteHeaderKeeps ==
    ASSUME IInv, WriteHeader PROVE IInv'
<1> USE DEF IInv
<1>0. pc = "header" /\ pc' = "syncHeader" /\ hdr' = NewHeader
  BY DEF WriteHeader, jobVars
<1>1. /\ NewHeader \in Headers /\ NewHeader.off = cur
      /\ Sound(NewHeader, blk, dblk, may)
  BY <1>0, NewHeaderSound
<1>2. TypeOK'
  BY <1>0, <1>1 DEF TypeOK, WriteHeader, jobVars, Steps
<1>3. ChainsSound'
  <2>1. dhdr.off <= cur
    <3>1. hdr.off < tail /\ tail <= cur /\ dhdr.off <= hdr.off
      BY <1>0 DEF TailBeyondChain, JobSound, ChainsSound, Steps
    <3>2. hdr.off \in Nat /\ dhdr.off \in Nat /\ tail \in Nat /\ cur \in Nat
      BY PagerAssumption DEF TypeOK, Headers, Off
    <3> QED
      BY <3>1, <3>2
  <2> QED
    BY <1>0, <1>1, <2>1 DEF ChainsSound, WriteHeader, jobVars
<1>4. TailBeyondChain' /\ CallerRefsSound' /\ NeverCorrupt'
  BY <1>0 DEF TailBeyondChain, CallerRefsSound, NeverCorrupt, WriteHeader, jobVars, Steps
<1>5. JobSound'
  BY <1>0 DEF JobSound, WriteHeader, jobVars, NewHeader, Steps
<1> QED
  BY <1>2, <1>3, <1>4, <1>5

(* No job is running afterwards.                                            *)
LEMMA NoJobShape ==
    ASSUME NoJob
    PROVE  /\ image' \in Contents /\ todo' \in SUBSET Coll
           /\ cur' \in 1..(MaxOff + 1) /\ refs' \in Refs
BY EmptyShape, PagerAssumption DEF NoJob

(* (6) The header is durable, and the caller learns the new references.     *)
LEMMA SyncHeaderKeeps ==
    ASSUME IInv, SyncHeader PROVE IInv'
<1> USE DEF IInv
<1>0. /\ pc = "syncHeader" /\ pc' = "idle"
      /\ hdr' = hdr /\ dhdr' = hdr /\ blk' = blk /\ dblk' = blk
      /\ tail' = cur + 1 /\ toc' = refs /\ known' = image /\ may' = {image}
  BY DEF SyncHeader, TailAfter, SyncAll
<1>1. /\ hdr = NewHeader /\ cur \in Off /\ cur \in Nat /\ DOMAIN refs = DOMAIN image
      /\ \A c \in DOMAIN refs : /\ refs[c] < cur
                               /\ blk[refs[c]].kind = "seg"
                               /\ blk[refs[c]].body = image[c]
  <2>1. /\ hdr = NewHeader /\ cur \in Off /\ DOMAIN refs \cup todo = DOMAIN image /\ todo = {}
        /\ \A c \in DOMAIN refs : /\ refs[c] < cur
                                 /\ blk[refs[c]].kind = "seg"
                                 /\ blk[refs[c]].body = image[c]
    BY <1>0 DEF JobSound, Steps
  <2>2. cur \in Nat
    BY PagerAssumption DEF TypeOK
  <2> QED
    BY <2>1, <2>2
<1>2. /\ NewHeader.off = cur /\ Content(NewHeader, blk) = image
      /\ Sound(NewHeader, blk, dblk, may)
  BY <1>0, NewHeaderSound
<1>3. Sound(NewHeader, blk, blk, {image})
  BY <1>2 DEF Sound
<1>4. ChainsSound'
  BY <1>0, <1>1, <1>2, <1>3 DEF ChainsSound
<1>5. TypeOK'
  <2>1. tail' \in 1..(MaxOff + 1)
    BY <1>0, <1>1, PagerAssumption DEF Off
  <2>2. image' \in Contents /\ todo' \in SUBSET Coll /\ cur' \in 1..(MaxOff + 1) /\ refs' \in Refs
    BY NoJobShape DEF SyncHeader, TailAfter
  <2>3. gen' = gen
    BY DEF SyncHeader, TailAfter
  <2> QED
    BY <1>0, <2>1, <2>2, <2>3 DEF TypeOK
<1>6. TailBeyondChain'
  BY <1>0, <1>1, <1>2 DEF TailBeyondChain
<1>7. CallerRefsSound'
  <2>1. \A c \in DOMAIN refs : refs[c] \in Nat
    BY RefsShape, PagerAssumption DEF TypeOK, Off
  <2>2. \A c \in DOMAIN refs : refs[c] < cur + 1
    BY <1>1, <2>1
  <2> QED
    BY <1>0, <1>1, <2>2 DEF CallerRefsSound
<1>8. JobSound' /\ NeverCorrupt'
  BY <1>0 DEF JobSound, NeverCorrupt, Steps
<1> QED
  BY <1>4, <1>5, <1>6, <1>7, <1>8

(* A failed step other than the header's leaves every chain as it was.      *)
LEMMA FailKeeps ==
    ASSUME HeaderReliable, IInv, FailCheckpoint PROVE IInv'
<1> USE DEF IInv
<1>0. /\ pc \in {"segments", "toc", "syncToc"} /\ pc' = "idle" /\ NoJob
      /\ UNCHANGED <<hdr, dhdr, dblk, tail, gen, toc, known, may>>
  BY PagerAssumption DEF HeaderReliable, FailCheckpoint, Steps
<1>1. /\ ChainsSound' /\ blk' \in [Off -> Block]
      /\ \A c \in DOMAIN known : blk'[toc[c]] = blk[toc[c]]
  <2>1. CASE blk' = blk
    BY <1>0, <2>1 DEF ChainsSound, TypeOK
  <2>2. CASE blk' # blk
    <3>1. pc \in {"segments", "toc"} /\ cur \in Off /\ blk' = [blk EXCEPT ![cur] = Torn]
      BY <1>0, <2>2 DEF FailCheckpoint
    <3> QED
      BY <1>0, <3>1, TornType, AppendSpares
  <2> QED
    BY <2>1, <2>2
<1>2. TypeOK'
  BY <1>0, <1>1, NoJobShape DEF TypeOK
<1>3. TailBeyondChain' /\ CallerRefsSound'
  BY <1>0, <1>1 DEF TailBeyondChain, CallerRefsSound, Steps
<1>4. JobSound' /\ NeverCorrupt'
  BY <1>0 DEF JobSound, NeverCorrupt, Steps
<1> QED
  BY <1>1, <1>2, <1>3, <1>4

(* A page written back agrees with the cache.                               *)
LEMMA WritebackKeeps ==
    ASSUME IInv, Writeback PROVE IInv'
<1> USE DEF IInv
<1>0. /\ UNCHANGED <<hdr, blk, pc, tail, gen, toc, known, image, todo, cur, refs, may>>
      /\ dhdr' = dhdr \/ dhdr' = hdr
  BY DEF Writeback, jobVars
<1>1. /\ dblk' \in [Off -> Block]
      /\ \A o \in Off : blk[o] = dblk[o] => dblk'[o] = blk[o]
  <2>1. CASE dblk' = dblk
    BY <2>1 DEF TypeOK
  <2>2. CASE \E o \in Dirty : dblk' = [dblk EXCEPT ![o] = blk[o]]
    BY <2>2 DEF TypeOK, Dirty
  <2> QED
    BY <2>1, <2>2 DEF Writeback
<1>2. TypeOK'
  BY <1>0, <1>1 DEF TypeOK
<1>3. \A h \in {hdr, dhdr} : Sound(h, blk, dblk', may)
  <2> SUFFICES ASSUME NEW h \in {hdr, dhdr} PROVE Sound(h, blk, dblk', may)
    OBVIOUS
  <2>1. h \in Headers /\ Sound(h, blk, dblk, may)
    BY DEF TypeOK, ChainsSound
  <2> QED
    BY <1>1, <2>1, ChainInOff DEF Sound
<1>4. ChainsSound'
  <2>1. hdr.off <= hdr.off
    BY PagerAssumption DEF TypeOK, Headers, Off
  <2> QED
    BY <1>0, <1>3, <2>1 DEF ChainsSound
<1>5. CallerRefsSound'
  <2>1. \A c \in DOMAIN known : toc[c] \in Off
    BY RefsShape DEF TypeOK, CallerRefsSound
  <2> QED
    BY <1>0, <1>1, <2>1 DEF CallerRefsSound
<1>6. JobSound'
  <2>1. \A c \in DOMAIN refs : refs[c] \in Off
    BY RefsShape DEF TypeOK
  <2> QED
    BY <1>0, <1>1, <2>1 DEF JobSound, NewHeader
<1>7. TailBeyondChain' /\ NeverCorrupt'
  BY <1>0 DEF TailBeyondChain, NeverCorrupt
<1> QED
  BY <1>2, <1>4, <1>5, <1>6, <1>7

(* What the process knew is gone.                                           *)
LEMMA ProcessGoneKeeps ==
    ASSUME ProcessGone
    PROVE  /\ tail' \in 1..(MaxOff + 1) /\ gen' \in 0..MaxGen
           /\ toc' \in Refs /\ known' \in Contents
           /\ image' \in Contents /\ todo' \in SUBSET Coll
           /\ cur' \in 1..(MaxOff + 1) /\ refs' \in Refs
           /\ pc' \in Steps \cup {"idle", "down", "corrupt"} /\ may' = may
           /\ TailBeyondChain' /\ CallerRefsSound' /\ JobSound' /\ NeverCorrupt'
<1>1. pc' = "down" /\ toc' = Empty /\ known' = Empty /\ tail' = 1 /\ gen' = 0 /\ may' = may
  BY DEF ProcessGone
<1>2. TailBeyondChain' /\ JobSound' /\ NeverCorrupt'
  BY <1>1 DEF TailBeyondChain, JobSound, NeverCorrupt, Steps
<1>3. CallerRefsSound'
  BY <1>1, EmptyShape DEF CallerRefsSound
<1> QED
  BY <1>1, <1>2, <1>3, EmptyShape, NoJobShape, PagerAssumption DEF ProcessGone

(* kill -9 leaves the file to the page cache.                               *)
LEMMA KillKeeps ==
    ASSUME IInv, Kill PROVE IInv'
<1> USE DEF IInv
<1>1. hdr' = hdr /\ dhdr' = dhdr /\ blk' = blk /\ dblk' = dblk /\ ProcessGone
  BY DEF Kill, fileVars
<1>2. TypeOK'
  BY <1>1, ProcessGoneKeeps DEF TypeOK
<1>3. ChainsSound'
  BY <1>1, ProcessGoneKeeps DEF ChainsSound
<1> QED
  BY <1>1, <1>2, <1>3, ProcessGoneKeeps

(* Power loss: the chains' blocks are on disk, so they survive it.          *)
LEMMA PowerLossKeeps ==
    ASSUME IInv, PowerLoss PROVE IInv'
<1> USE DEF IInv
<1>1. PICK f \in Fates, h \in {hdr, dhdr} :
        /\ blk' = Survive(f) /\ dblk' = Survive(f) /\ hdr' = h /\ dhdr' = h
  BY DEF PowerLoss
<1>2. ProcessGone
  BY DEF PowerLoss
<1>3. /\ Survive(f) \in [Off -> Block]
      /\ \A o \in Off : blk[o] = dblk[o] => Survive(f)[o] = blk[o]
  BY SurviveSpares
<1>4. h \in Headers /\ Sound(h, blk, dblk, may)
  BY DEF TypeOK, ChainsSound
<1>5. Sound(h, Survive(f), Survive(f), may)
  <2>1. \A o \in Chain(h) : Survive(f)[o] = blk[o]
    BY <1>3, <1>4, ChainInOff DEF Sound
  <2> QED
    BY <1>4, <2>1, SoundKept DEF Sound
<1>6. ChainsSound'
  <2>1. h.off <= h.off
    BY <1>4, PagerAssumption DEF Headers, Off
  <2> QED
    BY <1>1, <1>2, <1>5, <2>1, ProcessGoneKeeps DEF ChainsSound
<1>7. TypeOK'
  BY <1>1, <1>2, <1>3, <1>4, ProcessGoneKeeps DEF TypeOK
<1> QED
  BY <1>2, <1>6, <1>7, ProcessGoneKeeps

(* Open finds a sound chain, and appends beyond it from now on.             *)
LEMMA OpenKeeps ==
    ASSUME IInv, Open PROVE IInv'
<1> USE DEF IInv
<1>1. Sound(hdr, blk, dblk, may) /\ Valid(hdr, blk) /\ hdr \in Headers /\ blk \in [Off -> Block]
  BY DEF ChainsSound, Sound, TypeOK
<1>2. /\ pc' = "idle" /\ tail' = hdr.off + 1 /\ gen' = hdr.toc.gen
      /\ toc' = hdr.toc.refs /\ known' = Content(hdr, blk)
      /\ UNCHANGED <<hdr, dhdr, blk, dblk, image, todo, cur, refs, may>>
  BY <1>1 DEF Open, TailAfter, fileVars, jobVars
<1>3. hdr.toc \in Tocs /\ hdr.off \in Off /\ hdr.off \in Nat
  BY <1>1, PagerAssumption DEF Headers, Off
<1>4. /\ hdr.toc.gen \in 0..MaxGen /\ hdr.toc.refs \in Refs
      /\ Content(hdr, blk) \in Contents
      /\ DOMAIN Content(hdr, blk) = DOMAIN hdr.toc.refs
  BY <1>1, <1>3, TocShape, ContentType
<1>5. TypeOK'
  <2>1. tail' \in 1..(MaxOff + 1)
    BY <1>2, <1>3, PagerAssumption DEF Off
  <2> QED
    BY <1>2, <1>4, <2>1 DEF TypeOK
<1>6. ChainsSound'
  BY <1>2 DEF ChainsSound
<1>7. TailBeyondChain'
  BY <1>2, <1>3 DEF TailBeyondChain
<1>8. CallerRefsSound'
  <2> SUFFICES ASSUME NEW c \in DOMAIN hdr.toc.refs
               PROVE  /\ hdr.toc.refs[c] < hdr.off + 1
                      /\ blk[hdr.toc.refs[c]] = dblk[hdr.toc.refs[c]]
                      /\ blk[hdr.toc.refs[c]].kind = "seg"
                      /\ blk[hdr.toc.refs[c]].body = Content(hdr, blk)[c]
    BY <1>2, <1>4 DEF CallerRefsSound
  <2>1. hdr.toc.refs[c] \in Chain(hdr)
    BY DEF Chain
  <2>2. hdr.toc.refs[c] <= hdr.off /\ hdr.toc.refs[c] \in Nat
    BY <1>1, <2>1, ChainInOff, PagerAssumption DEF Sound, Off
  <2>3. hdr.toc.refs[c] < hdr.off + 1
    BY <1>3, <2>2
  <2> QED
    BY <1>1, <2>1, <2>3 DEF Sound, Valid, Content
<1>9. JobSound' /\ NeverCorrupt'
  BY <1>2 DEF JobSound, NeverCorrupt, Steps
<1> QED
  BY <1>5, <1>6, <1>7, <1>8, <1>9

-----------------------------------------------------------------------------
(* Theorems.                                                                *)

(* Every step of the pager, the operating system and the crashes keeps it.  *)
LEMMA NextKeeps ==
    ASSUME HeaderReliable, IInv, [Next]_vars PROVE IInv'
<1>1. ASSUME NEW img \in Images, NEW reused \in SUBSET DOMAIN img,
             BeginCheckpoint(img, reused)
      PROVE  IInv'
  BY <1>1, BeginKeeps
<1>2. ASSUME NEW c \in Coll, AppendSegment(c) PROVE IInv'
  BY <1>2, AppendSegmentKeeps
<1>3. ASSUME UNCHANGED vars PROVE IInv'
  BY <1>3 DEF vars, IInv, TypeOK, ChainsSound, TailBeyondChain, CallerRefsSound,
              JobSound, NeverCorrupt, NewHeader
<1> QED
  BY <1>1, <1>2, <1>3, SyncSegmentsKeeps, AppendTocKeeps, SyncTocKeeps,
     WriteHeaderKeeps, SyncHeaderKeeps, FailKeeps, WritebackKeeps, KillKeeps,
     PowerLossKeeps, OpenKeeps
     DEF Next

(* The invariant holds in every state of every behaviour.                   *)
THEOREM Invariance == ASSUME HeaderReliable PROVE Spec => []IInv
<1>1. Init => IInv
  BY InitIInv
<1>2. IInv /\ [Next]_vars => IInv'
  BY NextKeeps
<1> QED
  BY <1>1, <1>2, PTL DEF Spec

(* Offsets stay within the volume and every variable keeps its shape.       *)
THEOREM TypeCorrect == ASSUME HeaderReliable PROVE Spec => []TypeOK
<1>1. IInv => TypeOK
  BY DEF IInv
<1> QED
  BY <1>1, Invariance, PTL

(* A sound chain survives whatever the power loss does.                     *)
LEMMA SoundRecovers == IInv => RecoverPreOrPost
<1> SUFFICES ASSUME IInv, NEW h \in {hdr, dhdr}, NEW f \in Fates
             PROVE  Valid(h, Survive(f)) /\ Content(h, Survive(f)) \in may
  BY DEF RecoverPreOrPost
<1>1. h \in Headers /\ Sound(h, blk, dblk, may)
  BY DEF IInv, TypeOK, ChainsSound
<1>2. \A o \in Chain(h) : Survive(f)[o] = blk[o]
  BY <1>1, ChainInOff, SurviveSpares DEF IInv, Sound
<1>3. Sound(h, Survive(f), Survive(f), may)
  BY <1>1, <1>2, SoundKept DEF Sound
<1> QED
  BY <1>3 DEF Sound

(* A crash at any moment leaves a file that opens and holds what the last   *)
(* completed checkpoint stored or what a later one asked for.               *)
THEOREM CrashRecovery == ASSUME HeaderReliable PROVE Spec => []RecoverPreOrPost
BY SoundRecovers, Invariance, PTL

(* No open finds a TOC that fails the header's CRC.                         *)
THEOREM OpenSucceeds == ASSUME HeaderReliable PROVE Spec => []NeverCorrupt
<1>1. IInv => NeverCorrupt
  BY DEF IInv
<1> QED
  BY <1>1, Invariance, PTL

(* Nothing a header leads to is ever overwritten, in the cache or by a      *)
(* power loss: every append goes to `cur`, beyond every chain.              *)
THEOREM NothingCommittedIsOverwritten ==
    ASSUME HeaderReliable PROVE Spec => CommittedNeverOverwritten
<1>1. ASSUME IInv, [Next]_vars, NEW o \in Chain(hdr) \cup Chain(dhdr)
      PROVE  blk'[o] = blk[o]
  <2> USE <1>1 DEF IInv
  <2>1. o \in Off /\ blk[o] = dblk[o]
    BY ChainInOff DEF TypeOK, ChainsSound, Sound
  <2>2. ASSUME pc \in {"segments", "toc"}, cur \in Off, NEW b \in Block,
               blk' = [blk EXCEPT ![cur] = b], UNCHANGED <<hdr, dhdr, dblk, may>>
        PROVE  blk'[o] = blk[o]
    BY <2>1, <2>2, AppendSpares
  <2>3. ASSUME NEW c \in Coll, AppendSegment(c) PROVE blk'[o] = blk[o]
    <3>1. image[c] \in Body
      BY <2>3, ContentsShape DEF TypeOK, JobSound, AppendSegment, Steps
    <3> QED
      BY <2>2, <2>3, <3>1, SegType DEF AppendSegment
  <2>4. CASE AppendToc
    BY <2>2, <2>4, TocType, TocShape DEF TypeOK, AppendToc
  <2>5. CASE FailCheckpoint
    BY <2>2, <2>5, TornType DEF FailCheckpoint
  <2>6. CASE PowerLoss
    BY <2>1, <2>6, SurviveSpares DEF PowerLoss
  <2>7. ASSUME NEW img \in Images, NEW reused \in SUBSET DOMAIN img,
               BeginCheckpoint(img, reused)
        PROVE  blk'[o] = blk[o]
    BY <2>7 DEF BeginCheckpoint, NextGen
  <2>8. CASE SyncSegments \/ SyncToc \/ SyncHeader
    BY <2>8 DEF SyncSegments, SyncToc, SyncHeader, TailAfter, SyncAll
  <2>9. CASE WriteHeader \/ Writeback \/ Kill \/ Open \/ UNCHANGED vars
    BY <2>9 DEF WriteHeader, Writeback, Kill, Open, TailAfter, fileVars, vars
  <2> QED
    BY <2>3, <2>4, <2>5, <2>6, <2>7, <2>8, <2>9 DEF Next
<1>2. IInv /\ [Next]_vars =>
        [\A o \in Chain(hdr) \cup Chain(dhdr) : blk'[o] = blk[o]]_vars
  BY <1>1
<1> QED
  BY <1>2, Invariance, PTL DEF Spec, CommittedNeverOverwritten

-----------------------------------------------------------------------------
(* Generations.                                                             *)

(* The counter is never behind the header, and ahead of it until the        *)
(* running checkpoint has written its own.                                  *)
GenAhead ==
    /\ pc \in {"idle", "syncHeader"} => hdr.toc.gen <= gen
    /\ pc \in Steps \ {"syncHeader"} => hdr.toc.gen < gen

(* What a header's TOC says of its generation is a number.                  *)
LEMMA GenNumber == ASSUME TypeOK PROVE hdr.toc.gen \in Nat /\ gen \in Nat
<1>1. hdr.toc \in Tocs /\ gen \in 0..MaxGen
  BY DEF TypeOK, Headers
<1> QED
  BY <1>1, TocShape

(* The header the checkpoint writes carries the counter.                    *)
LEMMA NewHeaderGen == NewHeader.toc.gen = gen
BY DEF NewHeader, Toc

(* Every step keeps the counter ahead.                                      *)
LEMMA GenAheadKeeps ==
    ASSUME TypeOK, GenAhead, [Next]_vars PROVE GenAhead'
<1> USE GenNumber DEF GenAhead, Steps
<1>1. ASSUME NEW img \in Images, NEW reused \in SUBSET DOMAIN img,
             BeginCheckpoint(img, reused)
      PROVE  GenAhead'
  BY <1>1 DEF BeginCheckpoint, NextGen
<1>2. ASSUME NEW c \in Coll, AppendSegment(c) PROVE GenAhead'
  BY <1>2 DEF AppendSegment
<1>3. CASE SyncSegments \/ AppendToc \/ SyncToc
  BY <1>3 DEF SyncSegments, AppendToc, SyncToc, SyncAll
<1>4. CASE WriteHeader
  BY <1>4, NewHeaderGen DEF WriteHeader
<1>5. CASE SyncHeader
  BY <1>5 DEF SyncHeader, SyncAll
<1>6. CASE FailCheckpoint
  <2>1. pc \in Steps /\ pc' = "idle" /\ gen' = gen
    BY <1>6, PagerAssumption DEF FailCheckpoint
  <2>2. CASE UNCHANGED hdr
    <3>1. hdr.toc.gen <= gen
      BY <2>1
    <3> QED
      BY <2>1, <2>2, <3>1
  <2>3. CASE hdr' = NewHeader
    BY <2>1, <2>3, NewHeaderGen
  <2> QED
    BY <1>6, <2>2, <2>3 DEF FailCheckpoint
<1>7. CASE Kill \/ PowerLoss
  BY <1>7 DEF Kill, PowerLoss, ProcessGone
<1>8. CASE Open
  BY <1>8 DEF Open, fileVars
<1>9. CASE Writeback \/ UNCHANGED vars
  BY <1>9 DEF Writeback, vars
<1> QED
  BY <1>1, <1>2, <1>3, <1>4, <1>5, <1>6, <1>7, <1>8, <1>9 DEF Next

(* A header swap goes to a later generation; only a power loss goes back.   *)
THEOREM HeaderGenerationsGrow ==
    ASSUME HeaderReliable PROVE Spec => GenerationMonotonic
<1>1. Init => GenAhead
  BY DEF Init, GenAhead, Toc, Steps
<1>2. IInv /\ GenAhead /\ [Next]_vars => GenAhead'
  BY GenAheadKeeps DEF IInv
<1>3. ASSUME IInv, GenAhead, [Next]_vars, hdr' # hdr
      PROVE  hdr'.toc.gen > hdr.toc.gen \/ hdr' = dhdr
  <2> USE <1>3
  <2>1. CASE hdr' = NewHeader /\ pc = "header"
    BY <2>1, GenNumber, NewHeaderGen DEF IInv, GenAhead, Steps
  <2>2. CASE PowerLoss
    BY <2>2 DEF PowerLoss
  <2>3. WriteHeader => hdr' = NewHeader /\ pc = "header"
    BY DEF WriteHeader
  <2>4. FailCheckpoint => hdr' = NewHeader /\ pc = "header"
    BY DEF FailCheckpoint
  <2>5. ~ \E img \in Images : \E reused \in SUBSET DOMAIN img :
             BeginCheckpoint(img, reused)
    BY DEF BeginCheckpoint
  <2>6. ~ \E c \in Coll : AppendSegment(c)
    BY DEF AppendSegment
  <2>7. ~ (SyncSegments \/ AppendToc \/ SyncToc \/ SyncHeader)
    BY DEF SyncSegments, AppendToc, SyncToc, SyncHeader, SyncAll
  <2>8. ~ (Writeback \/ Kill \/ Open \/ UNCHANGED vars)
    BY DEF Writeback, Kill, Open, fileVars, vars
  <2> QED
    BY <2>1, <2>2, <2>3, <2>4, <2>5, <2>6, <2>7, <2>8 DEF Next
<1>4. IInv /\ GenAhead /\ [Next]_vars =>
        [hdr' # hdr => hdr'.toc.gen > hdr.toc.gen \/ hdr' = dhdr]_vars
  BY <1>3
<1> QED
  BY <1>1, <1>2, <1>4, Invariance, PTL DEF Spec, GenerationMonotonic

=============================================================================
