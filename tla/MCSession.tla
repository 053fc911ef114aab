------------------------------ MODULE MCSession ------------------------------
(* Model values of Session. *)
EXTENDS Session, SequencesExt

Package(id, version, deps, exports, imports, patches) ==
  [id |-> id, version |-> version, deps |-> deps, exports |-> exports,
   imports |-> imports, patches |-> patches, sound |-> TRUE]
Needs(id, min) == [id |-> id, min |-> min, optional |-> FALSE]
Takes(id, min) == [id |-> id, min |-> min, optional |-> TRUE]
From(id) == [id |-> id, name |-> "f"]

base(v)  == Package("base", v, {}, {"f"}, {}, {[at |-> 1, force |-> FALSE]})
user(d)  == Package("user", 1, {d}, {}, {From("base")}, {})
wants    == Package("base", 2, {Needs("user", 1)}, {"f"}, {}, {})
script0  == Package("script", 1, {}, {}, {}, {})
scriptB  == Package("script", 1, {Takes("base", 1)}, {}, {From("base")}, {})
patch(f) == Package("patch", 1, {}, {}, {}, {[at |-> 1, force |-> f]})

MCInstalls == {
  <<user(Needs("base", 1)), scriptB, base(1), patch(TRUE)>>,  \* users before their provider
  <<user(Takes("base", 2)), base(2), base(1)>>,     \* a second copy is skipped
  <<user(Takes("base", 1)), script0>>,              \* an optional provider is absent
  <<user(Needs("base", 1))>>,                       \* a required one is
  <<user(Needs("base", 2)), base(1)>>,              \* or is too old
  <<user(Needs("base", 1)), wants>>,                \* a cycle
  <<patch(FALSE), base(1)>>,                        \* two patches of an address
  <<[base(1) EXCEPT !.sound = FALSE], script0>>}

Pad(t)  == [tick |-> t, quit |-> FALSE, pad |-> "A"]
Quit(t) == [tick |-> t, quit |-> TRUE, pad |-> Neutral]
MCScripts == {<<>>, <<Pad(0), Quit(1), Quit(1)>>}

Opts(s, f, l) == [save |-> s, fps |-> f, limit |-> l, load |-> l]
MCOptions == {Opts(TRUE, TRUE, TRUE), Opts(FALSE, TRUE, FALSE), Opts(TRUE, FALSE, FALSE),
              Opts(FALSE, FALSE, TRUE)}

-----------------------------------------------------------------------------
(* The game module's descriptor, over every layout of five addresses.       *)

Module == INSTANCE ModuleDescriptor
            WITH Abi <- 3, HeaderSize <- 2, AddressEnd <- 5, NoId <- "none"

Ranges == {r \in [start : 0 .. 5, end : 0 .. 5] : r.start < r.end}
Layouts ==
  {SetToSortSeq(R, LAMBDA p, q : p.start < q.start) :
     R \in {R \in SUBSET Ranges :
             R # {} /\ \A p, q \in R : p = q \/ p.end <= q.start \/ q.end <= p.start}}

Descriptor(code, chunks, rels) ==
  [abi |-> 3, cpu |-> 1, state |-> 1, game |-> "g", dispatch |-> TRUE, code |-> code,
   smc |-> <<>>, chunks |-> chunks, hashes |-> TRUE, rels |-> rels, entry |-> 1]

OneSection(s) ==
  <<[id |-> 1, count |-> 1, offset |-> 2, size |-> 2, sections |-> <<s>>]>>

\* The walk over chunks and code ranges accepts a module exactly when each code
\* address is in one chunk.
ASSUME WalkIsTiling ==
  \A code, chunks \in Layouts :
    LET d == Descriptor(code, chunks, <<>>) IN
    Module!ChunksTileCode(d) <=> Module!EachCodeAddressInOneChunk(d)

\* No section of an accepted module reaches over a gap in the code, or past it.
ASSUME AcceptedSectionsAreCode ==
  \A code \in Layouts, s \in [module : {1}, index : {0}, start : 0 .. 5, size : 1 .. 5] :
    LET d == Descriptor(code, code, OneSection(s))
        required == [cpu |-> 1, state |-> 1, game |-> "g"]
        file == [opens |-> TRUE, entry |-> TRUE, descriptor |-> d] IN
    /\ Module!Open(file, required) = Module!Attach(d, required)
    /\ Module!RunsWith([kind |-> "path", library |-> file], FALSE, required) = "module"
         <=> Module!SectionsAreCode(d) /\ Module!IsCovered(code, 1)
=============================================================================
