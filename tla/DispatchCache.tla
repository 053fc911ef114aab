--------------------------- MODULE DispatchCache ---------------------------
(***************************************************************************)
(* The native-dispatch cache of the generated game module (glue_call and   *)
(* its helpers in module_glue.c), with the REL chunk dispatcher it         *)
(* memoises (dolrecomp_dispatch_replacement in rel_loader.c) and the       *)
(* chassis verdicts it must agree with.                                    *)
(*                                                                         *)
(* The cache is 2-way set associative.  An entry is valid while its        *)
(* generation tag equals g_mg_dcache_gen and, for REL entries, while its   *)
(* rgen tag equals g_rel_dispatch_gen.  Only the comparisons matter, so a  *)
(* tag is kept as the truth of that comparison: "live" is                  *)
(* gen = g_mg_dcache_gen, "rlive" is rgen = g_rel_dispatch_gen; a bump     *)
(* of a counter makes the corresponding field FALSE everywhere.  (The      *)
(* counters are u32 and wrap after 2^32 bumps; the README says what that   *)
(* leaves out.)                                                            *)
(***************************************************************************)
EXTENDS Naturals

CONSTANTS
  Sets,        \* the sets of the cache
  DolPcs,      \* guest pcs of the main executable
  LPcs,        \* linked REL pcs: each starts the chunk of a module's L image
  RetailPcs,   \* pcs in a module's R image, reached through its twin in L
  SetOf,       \* the hash of glue_call: pc -> set
  ClaimPcs,    \* DOL pcs in the replacement dispatcher's case list
  Thunked,     \* claim pcs for which dolrecomp_claim_thunk has a thunk
  Originals,   \* DOL pcs find_original resolves
  AliasOf,     \* dolrecomp_physical_pc_alias: pc -> pc, NoPc when it has none
  E4Pcs,       \* REL pcs whose dispatch is never memoised (the E4 gate)
  NoPc         \* no pc: an empty way, an empty tag, no twin

RelPcs == LPcs \cup RetailPcs
Pcs    == DolPcs \cup RelPcs
Ways   == {1, 2}

\* A linked pc always has a chunk, so native_ok is asked of the others only.
AskedPcs == DolPcs \cup RetailPcs

ASSUME DispatchAssumption ==
  /\ SetOf \in [Pcs -> Sets]
  /\ NoPc \notin Pcs
  /\ DolPcs \cap RelPcs = {} /\ LPcs \cap RetailPcs = {}
  /\ Thunked \subseteq ClaimPcs /\ ClaimPcs \subseteq Originals
  /\ Originals \subseteq DolPcs
  /\ AliasOf \in [Pcs -> DolPcs \cup {NoPc}]
  /\ E4Pcs \subseteq LPcs
  /\ LPcs \cap {"none", "orig", "thunk"} = {}

VARIABLES
  dcache,   \* s_dcache: [Sets -> [Ways -> Entry]]
  seen,     \* s_seen: the second-seen admission tag of each set
  way,      \* s_way: the round-robin victim of each set
  armed,    \* s_dcache_epoch_armed: the chassis has the epoch export
  inBatch,  \* glue_run_budget_impl is inside its loop
  run,      \* the guest body glue_call is running: see Runs
  native,   \* the pcs the chassis's native_ok answers 1 for (chassis state)
  active,   \* s_active: the linked modules, each named by its L pc
  twin,     \* retail pc -> the L pc s_active's R windows give it, or NoPc
  fresh,    \* active modules with l_gen = s_heap_gen and l_dirty = 0
  raced     \* history: the <<set, way>> published by a run during which
            \* g_rel_dispatch_gen moved, while valid

cacheVars   == <<dcache, seen, way>>
chassisVars == <<armed, inBatch, native>>
relVars     == <<active, twin, fresh>>
vars == <<cacheVars, chassisVars, relVars, run, raced>>

\* glue_call is between calls, or runs a DOL body, a cached REL chunk, or a
\* REL chunk the dispatcher found on a miss and glue_call will store.
Idle     == [kind |-> "idle"]
DolBody  == [kind |-> "dol"]
RelChunk == [kind |-> "rel"]
MissRuns == [kind: {"miss"}, pc: RelPcs, chunk: LPcs, inner: LPcs \cup {NoPc},
             way: Ways, admit: BOOLEAN, moved: BOOLEAN]
Runs     == {Idle, DolBody, RelChunk} \cup MissRuns

Entry == [pc: Pcs \cup {NoPc}, live: BOOLEAN, rel: BOOLEAN, rlive: BOOLEAN,
          may: BOOLEAN, neg: BOOLEAN, fn: {"none", "orig", "thunk"} \cup LPcs]
EmptyEntry == [pc |-> NoPc, live |-> FALSE, rel |-> FALSE, rlive |-> FALSE,
               may |-> FALSE, neg |-> FALSE, fn |-> "none"]

TypeOK ==
  /\ dcache \in [Sets -> [Ways -> Entry]]
  /\ seen \in [Sets -> Pcs \cup {NoPc}]
  /\ way \in [Sets -> Ways]
  /\ armed \in BOOLEAN /\ inBatch \in BOOLEAN
  /\ native \subseteq AskedPcs
  /\ run \in Runs
  /\ active \subseteq LPcs
  /\ twin \in [RetailPcs -> active \cup {NoPc}]
  /\ fresh \subseteq active
  /\ raced \subseteq Sets \X Ways

Init ==
  /\ dcache = [s \in Sets |-> [w \in Ways |-> EmptyEntry]]
  /\ seen = [s \in Sets |-> NoPc]
  /\ way = [s \in Sets |-> 1]
  /\ armed \in BOOLEAN   \* armed when the native check is installed, or never
  /\ inBatch = FALSE
  /\ native \in SUBSET AskedPcs
  /\ run = Idle
  /\ active = {} /\ twin = [p \in RetailPcs |-> NoPc]
  /\ fresh = {} /\ raced = {}

-----------------------------------------------------------------------------
(* Invalidation.                                                           *)

\* ++g_mg_dcache_gen
GenBump == [s \in Sets |-> [w \in Ways |-> [dcache[s][w] EXCEPT !.live = FALSE]]]
\* ++g_rel_dispatch_gen
RelBump == [s \in Sets |-> [w \in Ways |-> [dcache[s][w] EXCEPT !.rlive = FALSE]]]

\* Mutant of NamedWay: only the first way is searched.
NamedWayFirstOnly(p) == 1

\* The way ppc_dispatch_epoch_pc and dcache_peek look at: the first unless it
\* names another pc.
NamedWay(p) == IF dcache[SetOf[p]][1].pc = p THEN 1 ELSE 2

\* ppc_dispatch_epoch: the chassis changed verdicts it cannot attribute to a
\* pc (a chunk verified or demoted, a forced fallback, runtime_start).
DispatchEpoch ==
  /\ armed /\ run = Idle
  /\ native' \in SUBSET AskedPcs
  /\ dcache' = GenBump /\ raced' = {}
  /\ UNCHANGED <<seen, way, armed, inBatch, relVars, run>>

\* ppc_dispatch_epoch_pc: a pending return armed or disarmed one pc.
DispatchEpochPc(p) ==
  /\ armed /\ run = Idle
  /\ native' \in {native \cup {p}, native \ {p}}
  /\ LET s == SetOf[p]  w == NamedWay(p) IN
       dcache' = IF dcache[s][w].pc = p THEN [dcache EXCEPT ![s][w].live = FALSE]
                                        ELSE dcache
  /\ UNCHANGED <<seen, way, armed, inBatch, relVars, run, raced>>

\* A chassis without the epoch export changes verdicts between batches and
\* says nothing.
SilentVerdicts ==
  /\ ~armed /\ ~inBatch
  /\ native' \in SUBSET AskedPcs
  /\ UNCHANGED <<cacheVars, armed, inBatch, relVars, run, raced>>

\* module_on_state_loaded: the restored module queue differs, the active table
\* is rebuilt (marking every module verified) and both generations move.
StateLoaded ==
  /\ ~inBatch
  /\ active' \in SUBSET LPcs
  /\ twin' \in [RetailPcs -> active' \cup {NoPc}]
  /\ fresh' = active'
  /\ dcache' = [s \in Sets |-> [w \in Ways |->
                  [dcache[s][w] EXCEPT !.live = FALSE, !.rlive = FALSE]]]
  /\ raced' = {}
  /\ UNCHANGED <<seen, way, chassisVars, run>>

-----------------------------------------------------------------------------
(* What guest code may do to the loader, from a running body or as a call  *)
(* of the batch that the dispatcher claims: each of these moves            *)
(* g_rel_dispatch_gen.                                                     *)

RelMoved ==
  /\ inBatch
  /\ dcache' = RelBump
  /\ run' = IF run.kind = "miss" THEN [run EXCEPT !.moved = TRUE] ELSE run
  /\ raced' = {}
  /\ UNCHANGED <<seen, way, chassisVars>>

\* Mutant of GuestAlloc: the heap generation moves, g_rel_dispatch_gen does not.
GuestAllocNoBump ==
  /\ inBatch
  /\ fresh' = {}
  /\ UNCHANGED <<active, twin, cacheVars, chassisVars, run, raced>>

\* JKRExpHeap::do_alloc: any block may lie on an L image.
GuestAlloc ==
  /\ fresh' = {}
  /\ UNCHANGED <<active, twin>>
  /\ RelMoved

\* OSLink: the module goes to the end of s_active, its L image is written.
GuestLink(m) ==
  /\ m \notin active
  /\ active' = active \cup {m}
  /\ twin' \in {f \in [RetailPcs -> active \cup {m, NoPc}] :
                  \A p \in RetailPcs : f[p] = twin[p] \/ (twin[p] = NoPc /\ f[p] = m)}
  /\ fresh' = fresh \cup {m}
  /\ RelMoved

\* OSUnlink: the last module takes the freed place, so owners may change.
GuestUnlink(m) ==
  /\ m \in active
  /\ active' = active \ {m}
  /\ twin' \in [RetailPcs -> (active \ {m}) \cup {NoPc}]
  /\ fresh' = fresh \ {m}
  /\ RelMoved

\* __OSModuleInit: the module queue starts empty.
GuestModuleInit ==
  /\ active' = {} /\ fresh' = {}
  /\ twin' = [p \in RetailPcs |-> NoPc]
  /\ RelMoved

\* A store into an L image sets l_dirty unless g_rel_in_chunk is set.
GuestLWrite(m) ==
  /\ run = DolBody /\ m \in active
  /\ fresh' = fresh \ {m}
  /\ UNCHANGED <<active, twin>>
  /\ RelMoved

BodyReturn ==
  /\ run \in {DolBody, RelChunk}
  /\ run' = Idle
  /\ UNCHANGED <<cacheVars, chassisVars, relVars, raced>>

-----------------------------------------------------------------------------
(* glue_call: the hit test and the hit paths.                              *)

HitWays(p) == {w \in Ways : /\ dcache[SetOf[p]][w].pc = p
                            /\ dcache[SetOf[p]][w].live}
EntryAt(p, w) == dcache[SetOf[p]][w]
FirstHit(p)   == IF 1 \in HitWays(p) THEN 1 ELSE 2

\* The entry answers the call: a REL entry must also have a current rgen.
Usable(e) == e.rel => e.rlive

MayCall == inBatch /\ run = Idle

\* glue_burst_exit: the call leaves the burst, or the chassis, asked in place,
\* handles the pc or tells the glue to run the original body after all.
BurstExit(p) == {Idle} \cup (IF p \in Originals THEN {DolBody} ELSE {})

\* A usable entry runs its body, a negative one leaves the burst.  A claimed
\* call (by the dispatcher ahead of a may_repl entry, or by a thunk's arm)
\* changes nothing here.
Hit(p) ==
  /\ MayCall /\ HitWays(p) # {}
  /\ LET e == EntryAt(p, FirstHit(p)) IN
       /\ Usable(e)
       /\ run' \in IF e.neg THEN BurstExit(p)
                   ELSE IF e.rel THEN {RelChunk} ELSE {DolBody}
  /\ UNCHANGED <<cacheVars, chassisVars, relVars, raced>>

-----------------------------------------------------------------------------
(* glue_call: the miss path.                                               *)

\* No usable entry; or a negative one whose hit counter asks for a requery
\* (every 65536th hit, here any).
Misses(p) ==
  /\ MayCall
  /\ \/ HitWays(p) = {}
     \/ LET e == EntryAt(p, FirstHit(p)) IN ~Usable(e) \/ e.neg

\* The way to populate: the one naming the pc, else a dead one, else the
\* round-robin victim.
Named(p) == {w \in Ways : EntryAt(p, w).pc = p}
Dead(p)  == {w \in Ways : ~EntryAt(p, w).live}
First(W) == IF 1 \in W THEN 1 ELSE 2
\* Mutant of Target: a dead way is preferred to the one naming the pc.
TargetDeadFirst(p) == IF Dead(p) # {} THEN First(Dead(p))
                      ELSE IF Named(p) # {} THEN First(Named(p))
                      ELSE way[SetOf[p]]
Target(p) == IF Named(p) # {} THEN First(Named(p))
             ELSE IF Dead(p) # {} THEN First(Dead(p))
             ELSE way[SetOf[p]]

Admitted(p) == LET e == EntryAt(p, Target(p)) IN
               seen[SetOf[p]] = p \/ e.pc = p \/ ~e.live

\* Mutant of MissBooks: the victim is incremented, not toggled.
MissBooksNoToggle(p) ==
  /\ way' = IF Named(p) = {} /\ Dead(p) = {}
              THEN [way EXCEPT ![SetOf[p]] = @ + 1] ELSE way
  /\ seen' = IF Admitted(p) THEN seen ELSE [seen EXCEPT ![SetOf[p]] = p]

\* Every miss turns the round-robin bit when it evicts and records the tag
\* when the pc is not admitted.
MissBooks(p) ==
  /\ way' = IF Named(p) = {} /\ Dead(p) = {}
              THEN [way EXCEPT ![SetOf[p]] = 3 - @] ELSE way
  /\ seen' = IF Admitted(p) THEN seen ELSE [seen EXCEPT ![SetOf[p]] = p]

Put(p, e) ==
  /\ dcache' = [dcache EXCEPT ![SetOf[p]][Target(p)] = e]
  /\ raced' = raced \ {<<SetOf[p], Target(p)>>}

Keep == UNCHANGED <<dcache, raced>>
PutIfAdmitted(p, e) == IF Admitted(p) THEN Put(p, e) ELSE Keep

MissRest == UNCHANGED <<chassisVars, relVars>>

NegEntry(p) == [pc |-> p, live |-> TRUE, rel |-> p \in RelPcs, rlive |-> p \in RelPcs,
                may |-> p \in ClaimPcs, neg |-> TRUE, fn |-> "none"]
PosEntry(p) == [pc |-> p, live |-> TRUE, rel |-> FALSE, rlive |-> FALSE,
                may |-> p \in ClaimPcs \ Thunked, neg |-> FALSE,
                fn |-> IF p \in Thunked THEN "thunk" ELSE "orig"]

\* The entry still names this DOL pc: revalidate it instead of repopulating.
Revalidates(p) == Misses(p) /\ Named(p) # {} /\ ~EntryAt(p, Target(p)).rel
Refreshed(p) == [EntryAt(p, Target(p)) EXCEPT !.live = TRUE]

\* The dispatcher claims: the generation is refreshed and nothing else.
RevalidateClaimed(p) ==
  /\ Revalidates(p) /\ p \in ClaimPcs
  /\ MissBooks(p) /\ Put(p, Refreshed(p))
  /\ run' = Idle
  /\ MissRest

\* native_ok answers 0: the entry becomes (or stays) negative.
RevalidateRefused(p) ==
  /\ Revalidates(p) /\ p \notin native
  /\ MissBooks(p)
  /\ Put(p, NegEntry(p))
  /\ run' \in BurstExit(p)
  /\ MissRest

\* native_ok answers 1 for a positive entry: refresh and run.
RevalidateGranted(p) ==
  /\ Revalidates(p) /\ p \in native /\ ~EntryAt(p, Target(p)).neg
  /\ MissBooks(p) /\ Put(p, Refreshed(p))
  /\ run' = DolBody
  /\ MissRest

\* A miss that goes on to populate: another pc's way, a REL entry, or a
\* negative DOL entry whose verdict turned.
FullMiss(p) ==
  Misses(p) /\ (Revalidates(p) => p \in native /\ EntryAt(p, Target(p)).neg)

\* The dispatcher claims a DOL pc on a full miss.
ClaimPopulate(p) ==
  /\ FullMiss(p) /\ ~Revalidates(p) /\ p \in ClaimPcs
  /\ MissBooks(p)
  /\ PutIfAdmitted(p, IF p \in native THEN PosEntry(p) ELSE NegEntry(p))
  /\ run' = Idle
  /\ MissRest

\* The dispatcher declines.
Declined(p) == FullMiss(p) /\ p \notin LPcs
                           /\ (p \in RetailPcs => twin[p] = NoPc)

NegativePopulate(p) ==
  /\ Declined(p) /\ p \notin native
  /\ MissBooks(p) /\ PutIfAdmitted(p, NegEntry(p))
  /\ run' \in BurstExit(p)
  /\ MissRest

PositivePopulate(p) ==
  /\ Declined(p) /\ p \in native /\ p \in Originals
  /\ MissBooks(p) /\ PutIfAdmitted(p, PosEntry(p))
  /\ run' = DolBody
  /\ MissRest

\* No generated body at this pc: try its physical alias, cache nothing.
AliasTail(p) ==
  /\ Declined(p) /\ p \in native /\ p \notin Originals
  /\ MissBooks(p) /\ Keep
  /\ run' = IF AliasOf[p] \in native \cap Originals THEN DolBody ELSE Idle
  /\ MissRest

\* The dispatcher finds a chunk: the pc's own, or its twin's.
ChunkOf(p) == IF p \in LPcs THEN p ELSE twin[p]

\* Before a linked pc runs, its module's L image is verified when it lags
\* (refreshed if it differs); a retail pc runs its twin without that.
Verify(p) ==
  IF p \in active \ fresh
    THEN fresh' = fresh \cup {p}
    ELSE UNCHANGED fresh

\* glue_call enters the dispatcher, which runs the chunk.
ChunkStart(p) ==
  /\ FullMiss(p) /\ p \in RelPcs /\ ChunkOf(p) # NoPc
  /\ MissBooks(p) /\ Keep
  /\ Verify(p)
  /\ run' = [kind |-> "miss", pc |-> p, chunk |-> ChunkOf(p), inner |-> NoPc, way |-> Target(p),
             admit |-> Admitted(p), moved |-> FALSE]
  /\ UNCHANGED <<active, twin, chassisVars>>

\* What a nested dispatch may leave published when it unwinds: its own chunk;
\* of the E4 gate nothing, or through a retail pc, where only the dispatcher's
\* entry clears it, what a dispatch inside the gate's chunk left.
Left(p) == IF ChunkOf(p) \notin E4Pcs THEN {ChunkOf(p)}
           ELSE IF p \in LPcs THEN {NoPc} ELSE {NoPc, run.inner}

\* The running body calls a chunk.
ChunkNested(p) ==
  /\ run # Idle /\ p \in RelPcs /\ ChunkOf(p) # NoPc
  /\ Verify(p)
  /\ IF run.kind # "miss" THEN UNCHANGED run
       ELSE \E q \in Left(p) : run' = [run EXCEPT !.inner = q]
  /\ UNCHANGED <<cacheVars, chassisVars, active, twin, raced>>

\* The running body calls a DOL pc: the dispatcher clears what is published.
ChunkNestedDol ==
  /\ run.kind = "miss"
  /\ run' = [run EXCEPT !.inner = NoPc]
  /\ UNCHANGED <<cacheVars, chassisVars, relVars, raced>>

\* What g_rel_dispatched_fn holds when the chunk has returned: the chunk; for
\* the E4 gate nothing, or through a retail pc whatever an inner dispatch left.
Published == IF run.chunk \notin E4Pcs THEN run.chunk
             ELSE IF run.pc \in LPcs THEN NoPc ELSE run.inner

\* may_repl is not written: it keeps what the way held.
RelEntry(p, fn, may) == [pc |-> p, live |-> TRUE, rel |-> TRUE, rlive |-> TRUE,
                         may |-> may, neg |-> FALSE, fn |-> fn]

\* glue_call stores what was published, under the generations as they are now.
ChunkPublish ==
  /\ run.kind = "miss"
  /\ LET s == SetOf[run.pc]  w == run.way IN
       IF Published # NoPc /\ run.admit
         THEN /\ dcache' = [dcache EXCEPT ![s][w] =
                   RelEntry(run.pc, Published, @.may)]
              /\ raced' = IF run.moved THEN raced \cup {<<s, w>>}
                                       ELSE raced \ {<<s, w>>}
         ELSE Keep
  /\ run' = Idle
  /\ UNCHANGED <<seen, way, chassisVars, relVars>>

-----------------------------------------------------------------------------
(* The batch loop, glue_run_budget_impl.                                   *)

BatchStart ==
  /\ ~inBatch
  /\ inBatch' = TRUE
  /\ IF armed THEN UNCHANGED <<dcache, raced>> ELSE dcache' = GenBump /\ raced' = {}
  /\ UNCHANGED <<seen, way, armed, native, relVars, run>>

\* Mutant of Peek: a negative entry counts as ready.
PeekNegReady(p) == LET e == EntryAt(p, NamedWay(p)) IN
                   e.pc = p /\ e.live /\ Usable(e)

\* dcache_peek: the next call would hit a usable positive entry.
Peek(p) == LET e == EntryAt(p, NamedWay(p)) IN
           e.pc = p /\ e.live /\ ~e.neg /\ Usable(e)

\* The budget is spent, or a call left the burst.
BatchEnd ==
  /\ MayCall
  /\ inBatch' = FALSE
  /\ UNCHANGED <<cacheVars, armed, native, relVars, run, raced>>

Chassis ==
  \/ DispatchEpoch \/ SilentVerdicts \/ StateLoaded
  \/ \E p \in AskedPcs : DispatchEpochPc(p)

Guest ==
  \/ GuestAlloc \/ GuestModuleInit \/ BodyReturn \/ ChunkNestedDol
  \/ \E m \in LPcs : GuestLink(m) \/ GuestUnlink(m) \/ GuestLWrite(m)

GlueCall(p) ==
  \/ Hit(p)
  \/ RevalidateClaimed(p) \/ RevalidateRefused(p) \/ RevalidateGranted(p)
  \/ ClaimPopulate(p) \/ NegativePopulate(p) \/ PositivePopulate(p)
  \/ AliasTail(p) \/ ChunkStart(p)

Next ==
  \/ Chassis \/ Guest \/ BatchStart \/ ChunkPublish \/ BatchEnd
  \/ \E p \in Pcs : GlueCall(p) \/ ChunkNested(p)

Spec == Init /\ [][Next]_vars

-----------------------------------------------------------------------------
(* Properties.                                                             *)

\* No pc is named by both ways of its set: ppc_dispatch_epoch_pc and
\* dcache_peek look at one way only, so a second copy would outlive its
\* invalidation.
PcInOneWay ==
  \A s \in Sets : dcache[s][1].pc = dcache[s][2].pc => dcache[s][1].pc = NoPc

\* While verdicts are signalled or a batch runs, a live DOL entry answers
\* what native_ok would answer now: negative exactly when the pc is refused.
\* (Case-list pcs are left out here: see ClaimVerdictKept.)
VerdictAgrees ==
  armed \/ inBatch =>
    \A s \in Sets, w \in Ways :
      LET e == dcache[s][w] IN
        e.live /\ ~e.rel /\ e.pc \in DolPcs \ ClaimPcs => (e.neg <=> e.pc \notin native)

\* An entry glue_call would answer from without asking the loader.
ValidRel(s, w) == LET e == dcache[s][w] IN e.live /\ e.rel /\ e.rlive

\* It answers what the loader would answer now: nothing, or the chunk its pc
\* resolves to, of a module whose L image is verified when the pc is linked.
RunsNow(e) ==
  /\ e.neg => e.pc \in RetailPcs /\ twin[e.pc] = NoPc
  /\ ~e.neg => e.fn = ChunkOf(e.pc) /\ (e.pc \in active => e.pc \in fresh)

\* The pc's dispatch ends in the E4 gate's fixup.
Gated(p) == ChunkOf(p) \in E4Pcs

\* A valid REL entry runs what the loader would run now, and none, whatever
\* its pc, holds the gate's own chunk.  Two kinds of entry are left out, for
\* which the code does otherwise: those stored by a run in which the loader
\* moved, whose tag is read after the run and so takes the bump in, and positive
\* ones of a retail pc whose twin is the gate (see GateNeverMemoised).
RelEntryCoherent ==
  \A s \in Sets, w \in Ways :
    LET e == dcache[s][w] IN
      /\ e.fn \notin E4Pcs
      /\ /\ ValidRel(s, w) /\ <<s, w>> \notin raced
         /\ ~(~e.neg /\ e.pc \in RetailPcs /\ Gated(e.pc))
         => RunsNow(e)

\* Stated by the comment in the retail-alias dispatch (rel_loader.c:6940-6941:
\* the E4 gate via the retail alias must still run the profile-list fixup, and
\* is never memoized): no valid positive entry, of a run in which the loader did
\* not move, is for a pc that resolves to the gate.
GateNeverMemoised ==
  \A s \in Sets, w \in Ways :
    LET e == dcache[s][w] IN
      ValidRel(s, w) /\ ~e.neg /\ <<s, w>> \notin raced => ~Gated(e.pc)

\* dcache_peek says ready exactly when the next call hits a positive entry.
PeekIffHit ==
  \A p \in Pcs :
    Peek(p) <=> /\ HitWays(p) # {}
                /\ LET e == EntryAt(p, FirstHit(p)) IN Usable(e) /\ ~e.neg

\* Stated by the claim-path comment of module_glue.c (a claimed pc is cached so
\* that a later decline burst-exits when native_ok is 0): a live positive entry
\* of a case-list pc, whose body runs when the dispatcher declines, is one
\* native_ok accepts.
ClaimVerdictKept ==
  armed \/ inBatch =>
    \A s \in Sets, w \in Ways :
      LET e == dcache[s][w] IN
        e.live /\ ~e.neg /\ e.pc \in ClaimPcs => e.pc \in native
=============================================================================
