---------------------------- MODULE LoaderMemory ----------------------------
(***************************************************************************)
(* Two algorithms of rel_loader.c over ranges of guest memory.             *)
(*                                                                         *)
(* The filter of the write journal: generated code calls the journal for   *)
(* stores that start in a marked page of MEM1, and it looks at the linked  *)
(* modules for those within an envelope of their images.  RelLoader's      *)
(* Journaled is what the two promise together.  A module is where its      *)
(* images lie, r and l (0: no L image), the size of its file, and its      *)
(* sections: at is an address of R, or outside the file for bss.           *)
(*                                                                         *)
(* The band carve (MODERNGEKKO_BAND_PROTECT, off by default): the free     *)
(* lists of the game's heaps lose every byte of the bands, the windows     *)
(* reserved for the L images of modules, so that the game's own allocator  *)
(* cannot hand them out.  Spans are [lo, hi); a free block's includes its  *)
(* header.  A free list is the sequence of its blocks.                     *)
(***************************************************************************)
EXTENDS Integers, Sequences, FiniteSets, SequencesExt

CONSTANTS
  PageSize,    \* 2^14
  Mem1,        \* the addresses of MEM1, from 0x80000000: a range lo .. hi - 1
  AddressEnd,  \* past the last address: 2^32
  Bands,       \* s_rel_bands: spans, sorted and disjoint
  Least,       \* the bytes of the smallest block worth keeping: 0x14
  MaxDepth     \* of the walk over the tree of heaps: 8

-----------------------------------------------------------------------------
(* The pages of MEM1 whose stores are journalled.                          *)

Mem1Start == Min(Mem1)
Mem1End   == Max(Mem1) + 1

\* File-backed and not executable: what a store can make stale.
DataSections(m) ==
  {s \in m.sections : s.len # 0 /\ s.at \in m.r .. m.r + m.size - 1 /\ ~s.exec}

Pages(lo, hi) ==
  IF lo >= hi THEN {}
  ELSE (lo - Mem1Start) \div PageSize .. (hi - 1 - Mem1Start) \div PageSize

PagesInMem1(lo, hi) == Pages(Max({lo, Mem1Start}), Min({hi, Mem1End}))

\* The data of a module in R, and the addresses of L it is mirrored to.
ModulePages(m) ==
  LET rEnd == Min({m.r + m.size, Mem1End})
      hi(s) == Min({s.at + s.len, rEnd})
      toL(a) == m.l + (a - m.r)
      data == {s \in DataSections(m) : s.at < rEnd}
      mirrored == {s \in data : m.l # 0 /\ toL(s.at) \in Mem1} IN
  IF m.r < Mem1Start \/ m.r >= rEnd THEN {}
  ELSE UNION ({Pages(s.at, hi(s)) : s \in data}
                \cup {PagesInMem1(toL(s.at), toL(hi(s))) : s \in mirrored})

\* dol are the guarded chunks of the main executable, watched the relocation
\* globals.
MarkedPages(dol, watched, mods) ==
  UNION ({PagesInMem1(d.lo, d.hi) : d \in dol} \cup {Pages(w, w + 1) : w \in watched}
           \cup {ModulePages(m) : m \in mods})

\* rel_loader_rebuild_journal_mask: a store may start in the page before the one
\* it ends in.
Mask(dol, watched, mods) ==
  LET marked == MarkedPages(dol, watched, mods) IN
  marked \cup {p - 1 : p \in marked \ {0}}

Filtered(g, mask) == (g - Mem1Start) \div PageSize \in mask

-----------------------------------------------------------------------------
(* The envelope.                                                           *)

WithL(mods) == {m \in mods : m.l # 0}

BoundsValid(mods) ==
  \A m \in mods : m.r + m.size < AddressEnd
                    /\ (m.l # 0 => m.l + m.size < AddressEnd)

\* rel_loader_journal_may_touch_module, for the store of n bytes at g.
MayTouch(mods, inChunk, g, n) ==
  \/ ~BoundsValid(mods) \/ g + n >= AddressEnd
  \/ mods # {} /\ g \in Min({m.r : m \in mods}) .. Max({m.r + m.size : m \in mods}) - 1
  \/ /\ ~inChunk /\ WithL(mods) # {}
     /\ g + n > Min({m.l : m \in WithL(mods)})
     /\ g < Max({m.l + m.size : m \in WithL(mods)})

-----------------------------------------------------------------------------
(* What the scan of the modules acts on.                                   *)

\* A store that starts in R's data is mirrored to L.
Mirrors(m, g) ==
  /\ g \in m.r .. m.r + m.size - 1
  /\ \E s \in DataSections(m) : g \in s.at .. s.at + s.len - 1

\* A store that meets L's data, by other code than a module's, is marked.
MarksDirty(m, inChunk, g, n) ==
  /\ ~inChunk /\ m.l # 0
  /\ g \notin m.r .. m.r + m.size - 1
  /\ g + n > m.l /\ g < m.l + m.size
  /\ \E s \in DataSections(m) :
       LET at == m.l + (s.at - m.r) IN g + n > at /\ g < at + s.len

\* A store into MEM1 the scan would act on reaches it.
NoneHidden(dol, watched, mods, inChunk, g, n) ==
  ({g, g + n - 1} \subseteq Mem1
     /\ \E m \in mods : Mirrors(m, g) \/ MarksDirty(m, inChunk, g, n))
    => Filtered(g, Mask(dol, watched, mods)) /\ MayTouch(mods, inChunk, g, n)

-----------------------------------------------------------------------------
(* The band carve.                                                         *)

Size(s) == s.hi - s.lo

\* The first band that ends past lo, by bisection, or 0 if it starts at hi or
\* later or there is none.
FirstOver(lo, hi) ==
  LET Ends == 1 .. Len(Bands) + 1
      narrow[i, j \in Ends] ==
        LET mid == (i + j) \div 2 IN
        IF i >= j THEN i
        ELSE IF Bands[mid].hi > lo THEN narrow[i, mid] ELSE narrow[mid + 1, j]
      first == narrow[1, Len(Bands) + 1]
  IN IF first > Len(Bands) \/ (first <= Len(Bands) /\ Bands[first].lo >= hi)
     THEN 0 ELSE first

Piece(lo, hi) == IF hi - lo >= Least THEN <<[lo |-> lo, hi |-> hi]>> ELSE <<>>

\* The walk passes a band: what lies before it is kept, unless it is too small.
\* Nothing asks where the block ends: see PastTheEnd.
PassBand(block, s, band) ==
  IF s.pos >= block.hi \/ band.hi <= s.pos THEN s
  ELSE [pos |-> band.hi, kept |-> s.kept \o Piece(s.pos, band.lo)]

\* band_carve_node: what replaces a block in its list.  More than
\* REL_BAND_PIECES_MAX pieces, more than there are bands, do not occur.
Carve(block) ==
  LET first == FirstOver(block.lo, block.hi)
      walk  == FoldLeft(LAMBDA s, band : PassBand(block, s, band),
                        [pos |-> block.lo, kept |-> <<>>],
                        SubSeq(Bands, first, Len(Bands)))
  IN IF first = 0 THEN <<block>> ELSE walk.kept \o Piece(walk.pos, block.hi)

Bytes(list) == FoldLeft(LAMBDA n, s : n + Size(s), 0, list)

Outside(heap, block) == block.lo < heap.lo \/ block.hi > heap.hi

\* The walk over a heap's free list stops at a block that leaves the heap, be
\* it a piece just made.
CarveNext(heap, s, block) ==
  LET new == Carve(block) IN
  IF s.stop \/ Outside(heap, block)
  THEN [s EXCEPT !.stop = TRUE, !.free = Append(@, block)]
  ELSE [free |-> s.free \o new,
        lost |-> s.lost + Size(block) - Bytes(new),
        stop |-> \E i \in DOMAIN new : Outside(heap, new[i])]

\* band_carve_tree for one heap, with band_adjust_msize: mSize loses what the
\* list did, in the heaps the table of adjustments has room for.
CarveHeap(heap) ==
  LET walk == FoldLeft(LAMBDA s, b : CarveNext(heap, s, b),
                       [free |-> <<>>, lost |-> 0, stop |-> FALSE], heap.free)
  IN [heap EXCEPT !.free = walk.free, !.size = @ - walk.lost]

\* band_is_exp_heap
IsExpHeap(heap) == heap.exp /\ 0 < heap.lo /\ heap.lo < heap.hi

\* The heaps the walk over the tree reaches: it descends from exp heaps only.
Reached(heaps, root) ==
  LET level[d \in 0 .. MaxDepth] ==
        {h \in IF d = 0 THEN {root} ELSE UNION {heaps[k].children : k \in level[d - 1]} :
           IsExpHeap(heaps[h])}
  IN UNION {level[d] : d \in 0 .. MaxDepth}

\* band_protect_sweep
Sweep(heaps, root) ==
  [h \in DOMAIN heaps |->
     IF h \in Reached(heaps, root) THEN CarveHeap(heaps[h]) ELSE heaps[h]]

-----------------------------------------------------------------------------
(* What the carve is for.                                                  *)

Meet(s, t) == s.lo < t.hi /\ t.lo < s.hi

\* No block of the list has a byte of a band.
Spared(list) == \A i \in DOMAIN list, b \in DOMAIN Bands : ~Meet(list[i], Bands[b])

\* The bytes of a block in no band, but for runs too small to be a block.
Gaps(block) ==
  {s \in [lo : block.lo .. block.hi, hi : block.lo .. block.hi] :
     /\ Size(s) >= Least
     /\ \A b \in DOMAIN Bands : ~Meet(s, Bands[b])
     /\ s.lo = block.lo \/ \E b \in DOMAIN Bands : Bands[b].hi = s.lo
     /\ s.hi = block.hi \/ \E b \in DOMAIN Bands : Bands[b].lo = s.hi}

\* Where the code keeps too much: bytes follow the last band in the block, and
\* there is a band after the block; the last piece then runs up to that band.
PastTheEnd(block) ==
  /\ FirstOver(block.lo, block.hi) # 0
  /\ ~\E b \in DOMAIN Bands : Bands[b].lo < block.hi /\ Bands[b].hi >= block.hi
  /\ \E b \in DOMAIN Bands : Bands[b].lo >= block.hi /\ Bands[b].hi > block.hi
=============================================================================
