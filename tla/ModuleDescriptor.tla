-------------------------- MODULE ModuleDescriptor --------------------------
(***************************************************************************)
(* What the runtime asks of a game module before it runs it                *)
(* (moderngekko_validate_module in module.cpp, ModuleLibrary in            *)
(* module_loader.cpp).  A range is [start, end); a list of ranges is a     *)
(* sequence, empty for a null pointer.                                     *)
(***************************************************************************)
EXTENDS Naturals, Sequences, FiniteSets

CONSTANTS
  Abi,         \* MODERNGEKKO_MODULE_ABI_VERSION
  HeaderSize,  \* of a REL file: 0x40
  AddressEnd,  \* past the last address: 2^32
  NoId         \* no game id: an empty one, or none required

RangesAreValid(ranges) ==
  /\ ranges # <<>>
  /\ \A i \in DOMAIN ranges : ranges[i].start < ranges[i].end
  /\ \A i \in 2 .. Len(ranges) : ranges[i - 1].end <= ranges[i].start

Contains(range, address) == range.start <= address /\ address < range.end

IsCovered(ranges, address) == \E i \in DOMAIN ranges : Contains(ranges[i], address)

\* The chunks are walked with the code ranges; cursor is where the next chunk
\* of code range c has to start.
WalkTiles(code, chunks) ==
  LET Start(c) == IF c \in DOMAIN code THEN code[c].start ELSE 0
      tile[c \in 1 .. Len(code) + 1, k \in 1 .. Len(chunks) + 1, cursor \in Nat] ==
        IF c > Len(code) THEN k > Len(chunks)
        ELSE IF k <= Len(chunks) /\ chunks[k].start < code[c].end
        THEN /\ chunks[k].start = cursor /\ chunks[k].end <= code[c].end
             /\ tile[c, k + 1, chunks[k].end]
        ELSE cursor = code[c].end /\ tile[c + 1, k, Start(c + 1)]
  IN tile[1, 1, Start(1)]

ChunksTileCode(d) ==
  RangesAreValid(d.chunks) /\ d.hashes /\ WalkTiles(d.code, d.chunks)

\* The first range that contains the section's start has its end too.
SectionIsValid(d, module, section) ==
  LET end == section.start + section.size
      covering == {i \in DOMAIN d.code : Contains(d.code[i], section.start)} IN
  /\ section.module = module.id /\ section.index < module.count
  /\ section.size # 0 /\ end <= AddressEnd
  /\ covering # {}
  /\ \A i \in covering : (\A j \in covering : i <= j) => end <= d.code[i].end

RelModulesAreValid(d) ==
  \A i \in DOMAIN d.rels :
    LET module == d.rels[i] IN
    /\ module.id # 0 /\ module.count # 0
    /\ module.offset >= HeaderSize /\ module.size >= HeaderSize
    /\ module.sections # <<>>
    /\ \A j \in DOMAIN module.sections : SectionIsValid(d, module, module.sections[j])

\* The checks in their order, each with the status of its failure.
Checks(d, required) == <<
  [status |-> "abi mismatch",        holds |-> d.abi = Abi],
  [status |-> "cpu abi mismatch",    holds |-> d.cpu = required.cpu],
  [status |-> "state size mismatch", holds |-> d.state = required.state],
  [status |-> "invalid game id",     holds |-> d.game # NoId],
  [status |-> "game id mismatch",    holds |-> required.game \in {NoId, d.game}],
  [status |-> "missing dispatch",    holds |-> d.dispatch],
  [status |-> "invalid code ranges", holds |-> RangesAreValid(d.code)],
  [status |-> "invalid smc ranges",  holds |-> d.smc = <<>> \/ RangesAreValid(d.smc)],
  [status |-> "invalid chunks",      holds |-> ChunksTileCode(d)],
  [status |-> "invalid rel modules", holds |-> RelModulesAreValid(d)],
  [status |-> "entry uncovered",     holds |-> IsCovered(d.code, d.entry)]>>

Validate(d, required) ==
  LET checks == Checks(d, required)
      failed == {i \in DOMAIN checks : ~checks[i].holds} IN
  IF failed = {} THEN "ok"
  ELSE checks[CHOOSE i \in failed : \A j \in failed : i <= j].status

\* ModuleLibrary::Open: nothing stays open unless its descriptor is accepted.
\* A library is what opening its file finds.
Open(library, required) ==
  IF ~library.opens THEN [status |-> "library open failed", open |-> FALSE]
  ELSE IF ~library.entry THEN [status |-> "entry point missing", open |-> FALSE]
  ELSE IF Validate(library.descriptor, required) # "ok"
  THEN [status |-> "descriptor rejected", open |-> FALSE]
  ELSE [status |-> "ok", open |-> TRUE]

\* ModuleLibrary::Attach
Attach(descriptor, required) ==
  IF Validate(descriptor, required) = "ok"
  THEN [status |-> "ok", open |-> TRUE]
  ELSE [status |-> "descriptor rejected", open |-> FALSE]

\* What Runtime::Create runs the game with: a rejected module is refused unless
\* the interpreter may take its place.
RunsWith(source, interpreter, required) ==
  LET found == IF source.kind = "path" THEN Open(source.library, required)
                                       ELSE Attach(source.descriptor, required) IN
  IF source.kind # "none" /\ found.open THEN "module"
  ELSE IF interpreter THEN "interpreter"
  ELSE IF source.kind = "none" THEN "module required" ELSE "module rejected"

-----------------------------------------------------------------------------
(* What an accepted module gives the runtime.                              *)

\* Every address of the code has exactly one chunk, no other has one, and no
\* chunk leaves a code range.
EachCodeAddressInOneChunk(d) ==
  /\ \A a \in 0 .. AddressEnd - 1 :
       Cardinality({k \in DOMAIN d.chunks : Contains(d.chunks[k], a)})
         = IF IsCovered(d.code, a) THEN 1 ELSE 0
  /\ \A k \in DOMAIN d.chunks : \E c \in DOMAIN d.code :
       d.code[c].start <= d.chunks[k].start /\ d.chunks[k].end <= d.code[c].end

\* Every address of a REL section is code, in one code range with the rest.
SectionsAreCode(d) ==
  \A i \in DOMAIN d.rels : \A j \in DOMAIN d.rels[i].sections :
    LET s == d.rels[i].sections[j] IN
    \E c \in DOMAIN d.code :
      d.code[c].start <= s.start /\ s.start + s.size <= d.code[c].end
=============================================================================
