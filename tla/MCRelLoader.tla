---------------------------- MODULE MCRelLoader ----------------------------
(* Three modules: the middle of a queue can change while its ends do not.   *)
(* Windows do not overlap, so what is written to one module's data does not *)
(* depend on the others': the game writes to one module's only.             *)
(* The loader's two pure algorithms are checked over all small inputs.      *)
EXTENDS RelLoader, TLC

CONSTANTS a, b, c

Interchangeable == Permutations({b, c})

Memory(bands) == INSTANCE LoaderMemory WITH
  PageSize <- 4, Mem1 <- 8 .. 31, AddressEnd <- 64,
  Bands <- bands, Least <- 2, MaxDepth <- 1

-----------------------------------------------------------------------------
(* The write journal's filters: pages of four bytes, MEM1 of six, a module  *)
(* in R and another whose L image lies past MEM1.                           *)

Images(r, ls) ==
  [r : {r}, l : ls, size : {6},
   sections : {{s} : s \in [at : r .. r + 5, len : {1, 2, 12}, exec : BOOLEAN]}]

Beyond == [r |-> 24, l |-> 40, size |-> 6,
           sections |-> {[at |-> 25, len |-> 4, exec |-> FALSE]}]

\* No store the journal would act on is hidden from it by the page mask or the
\* envelope, whoever runs and whichever pages the images straddle.
ASSUME NoStoreHidden ==
  \A m \in Images(9, {0, 16, 17, 20, 22, 30, 32}), inChunk \in BOOLEAN,
     g \in 8 .. 31, n \in {1, 2} :
    Memory(<<>>)!NoneHidden({}, {}, {m, Beyond}, inChunk, g, n)

-----------------------------------------------------------------------------
(* The band carve: up to three bands, blocks of at least a header's bytes.  *)

Spans == {s \in [lo : 1 .. 8, hi : 1 .. 8] : s.lo < s.hi}
Blocks == {s \in Spans : s.hi - s.lo >= 2}
BandLists ==
  {q \in UNION {[1 .. n -> Spans] : n \in 0 .. 3} :
     \A i \in 2 .. Len(q) : q[i - 1].hi <= q[i].lo}
Elements(q) == {q[i] : i \in DOMAIN q}

\* No byte of a band stays in the free list, and of what lies between them all
\* is kept that makes a block; but a block may come to run past its old end.
ASSUME CarveSparesBands ==
  \A bands \in BandLists, block \in Blocks :
    LET kept == Memory(bands)!Carve(block) IN
    /\ Memory(bands)!Spared(kept)
    /\ \/ Elements(kept) = Memory(bands)!Gaps(block)
       \/ Memory(bands)!PastTheEnd(block)

\* A list that was carved is left alone, and what mSize loses is what the list
\* lost: the heap's own check of its blocks goes on to hold.
ASSUME SweepIsSettled ==
  \A bands \in BandLists, s, t \in Blocks : s.hi <= t.lo =>
    LET heap == [exp |-> TRUE, lo |-> 1, hi |-> 8, size |-> 20, free |-> <<s, t>>,
                 children |-> {}]
        swept == Memory(bands)!Sweep(1 :> heap, 1)
        used(h) == h.size - Memory(bands)!Bytes(h.free) IN
    /\ used(swept[1]) = used(heap)
    /\ Memory(bands)!Sweep(swept, 1) = swept
=============================================================================
