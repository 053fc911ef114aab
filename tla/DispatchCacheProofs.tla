------------------------ MODULE DispatchCacheProofs ------------------------
(***************************************************************************)
(* The invariants of DispatchCache for every number of sets and pcs.       *)
(*                                                                         *)
(* A miss chooses its way before the body runs and stores after it, so     *)
(* PcInOneWay is not inductive alone: RunAlone adds that while a chunk     *)
(* runs, no way but the chosen one names its pc.  Likewise RunCoherent     *)
(* adds to RelEntryCoherent what is true of the chunk that runs and will   *)
(* be stored, as long as the loader has not moved.                         *)
(***************************************************************************)
EXTENDS DispatchCache, TLAPS

\* While glue_call runs a chunk it may store, the other way of the set does
\* not name the pc.
RunAlone ==
  run.kind = "miss" =>
    \A w \in Ways : w # run.way => dcache[SetOf[run.pc]][w].pc # run.pc

\* An entry lies in the set its pc hashes to.
InOwnSet == \A s \in Sets, w \in Ways :
              dcache[s][w].pc # NoPc => SetOf[dcache[s][w].pc] = s

IInv == TypeOK /\ PcInOneWay /\ RunAlone /\ InOwnSet

\* The steps that leave every entry naming what it named.
PcsKept == \A s \in Sets, w \in Ways : dcache'[s][w].pc = dcache[s][w].pc

-----------------------------------------------------------------------------

LEMMA TargetType == ASSUME TypeOK, NEW p \in Pcs
                    PROVE  Target(p) \in Ways /\ SetOf[p] \in Sets
  BY DispatchAssumption DEF TypeOK, Target, Ways, First

LEMMA EntryType == ASSUME TypeOK, NEW p \in Pcs
                   PROVE  /\ EmptyEntry \in Entry
                          /\ NegEntry(p) \in Entry /\ PosEntry(p) \in Entry
                          /\ NegEntry(p).pc = p /\ PosEntry(p).pc = p
<1>1. EmptyEntry \in Entry
  BY DEF EmptyEntry, Entry
<1>2. NegEntry(p) \in Entry
  BY DEF Entry, NegEntry
<1>3. PosEntry(p) \in Entry
  BY DEF Entry, PosEntry
<1>4. NegEntry(p).pc = p /\ PosEntry(p).pc = p
  BY Zenon DEF NegEntry, PosEntry
<1> QED
  BY <1>1, <1>2, <1>3, <1>4

LEMMA RefreshedType == ASSUME TypeOK, NEW p \in Pcs, Named(p) # {}
                       PROVE  Refreshed(p) \in Entry /\ Refreshed(p).pc = p
<1>1. Target(p) \in Ways /\ SetOf[p] \in Sets
  BY TargetType
<1>2. Target(p) \in Named(p)
  BY DEF Target, First, Named, Ways
<1>3. EntryAt(p, Target(p)) \in Entry
  BY <1>1 DEF TypeOK, EntryAt
<1>4. EntryAt(p, Target(p)).pc = p
  BY <1>2 DEF Named
<1> QED
  BY <1>3, <1>4 DEF Refreshed, Entry

LEMMA EntryKept ==
  ASSUME NEW e \in Entry
  PROVE  /\ [e EXCEPT !.live = FALSE] \in Entry
         /\ [e EXCEPT !.rlive = FALSE] \in Entry
         /\ [e EXCEPT !.live = FALSE, !.rlive = FALSE] \in Entry
         /\ [e EXCEPT !.live = FALSE].pc = e.pc
         /\ [e EXCEPT !.rlive = FALSE].pc = e.pc
         /\ [e EXCEPT !.live = FALSE, !.rlive = FALSE].pc = e.pc
  BY DEF Entry

\* A bump of either generation changes no pc.
LEMMA BumpType == ASSUME TypeOK
                  PROVE  /\ GenBump \in [Sets -> [Ways -> Entry]]
                         /\ RelBump \in [Sets -> [Ways -> Entry]]
                         /\ \A s \in Sets, w \in Ways :
                              /\ GenBump[s][w].pc = dcache[s][w].pc
                              /\ RelBump[s][w].pc = dcache[s][w].pc
<1>1. \A s \in Sets, w \in Ways : dcache[s][w] \in Entry
  BY DEF TypeOK
<1>2. \A s \in Sets, w \in Ways : /\ [dcache[s][w] EXCEPT !.live = FALSE] \in Entry
                                 /\ [dcache[s][w] EXCEPT !.rlive = FALSE] \in Entry
  BY <1>1, EntryKept
<1>3. /\ GenBump \in [Sets -> [Ways -> Entry]]
      /\ RelBump \in [Sets -> [Ways -> Entry]]
  BY <1>2 DEF GenBump, RelBump
<1>4. \A s \in Sets, w \in Ways : /\ [dcache[s][w] EXCEPT !.live = FALSE].pc = dcache[s][w].pc
                                 /\ [dcache[s][w] EXCEPT !.rlive = FALSE].pc = dcache[s][w].pc
  BY <1>1, EntryKept
<1> QED
  BY <1>3, <1>4 DEF GenBump, RelBump

\* What a store into one way leaves.
LEMMA StoreEffect ==
  ASSUME TypeOK, NEW s0 \in Sets, NEW w0 \in Ways, NEW e \in Entry,
         dcache' = [dcache EXCEPT ![s0][w0] = e]
  PROVE  /\ dcache' \in [Sets -> [Ways -> Entry]]
         /\ \A s \in Sets, w \in Ways :
              dcache'[s][w] = IF s = s0 /\ w = w0 THEN e ELSE dcache[s][w]
  BY DEF TypeOK

\* What a store for a pc leaves: the entry in its way, all others untouched.
LEMMA PutEffect ==
  ASSUME TypeOK, NEW p \in Pcs, NEW e \in Entry, Put(p, e)
  PROVE  /\ dcache' \in [Sets -> [Ways -> Entry]]
         /\ raced' \subseteq Sets \X Ways
         /\ \A s \in Sets, w \in Ways :
              dcache'[s][w] = IF s = SetOf[p] /\ w = Target(p) THEN e ELSE dcache[s][w]
<1>1. Target(p) \in Ways /\ SetOf[p] \in Sets
  BY TargetType
<1> QED
  BY <1>1 DEF TypeOK, Put

LEMMA BooksType ==
  ASSUME TypeOK, NEW p \in Pcs, MissBooks(p)
  PROVE  seen' \in [Sets -> Pcs \cup {NoPc}] /\ way' \in [Sets -> Ways]
<1>1. SetOf[p] \in Sets
  BY DispatchAssumption
<1>2. \A w \in Ways : 3 - w \in Ways
  BY DEF Ways
<1> QED
  BY <1>1, <1>2 DEF TypeOK, MissBooks

\* When a miss chooses a way, the other way of the set does not name the pc.
LEMMA TargetAlone ==
  ASSUME TypeOK, PcInOneWay, NEW p \in Pcs
  PROVE  \A w \in Ways : w # Target(p) => dcache[SetOf[p]][w].pc # p
<1>1. SetOf[p] \in Sets /\ p # NoPc
  BY DispatchAssumption DEF Pcs
<1>2. CASE Named(p) = {}
  BY <1>2 DEF Named, EntryAt
<1>3. CASE Named(p) # {}
  <2>1. Target(p) \in Named(p)
    BY <1>3 DEF Target, First, Named, Ways
  <2>2. dcache[SetOf[p]][Target(p)].pc = p /\ Target(p) \in {1, 2}
    BY <2>1 DEF Named, EntryAt, Ways
  <2> QED
    BY <1>1, <2>2 DEF PcInOneWay, Ways
<1> QED
  BY <1>2, <1>3

-----------------------------------------------------------------------------

\* The body that runs, if glue_call may store it, is the one that ran before.
RunKept == run'.kind = "miss" => /\ run.kind = "miss"
                                 /\ run'.pc = run.pc /\ run'.way = run.way

LEMMA MissRun == ASSUME TypeOK, run.kind = "miss"
                 PROVE  run \in MissRuns /\ SetOf[run.pc] \in Sets
<1>1. run \in MissRuns
  BY DEF TypeOK, Runs, Idle, DolBody, RelChunk
<1> QED
  BY <1>1, DispatchAssumption DEF MissRuns, Pcs

LEMMA KeptStep == ASSUME IInv, PcsKept, RunKept
                  PROVE  PcInOneWay' /\ RunAlone' /\ InOwnSet'
<1> USE DEF IInv
<1>1. PcInOneWay'
  BY DEF PcInOneWay, PcsKept, Ways
<1>2. ASSUME run'.kind = "miss", NEW w \in Ways, w # run'.way
      PROVE  dcache'[SetOf[run'.pc]][w].pc # run'.pc
  <2>1. run.kind = "miss" /\ run'.pc = run.pc /\ run'.way = run.way
    BY <1>2 DEF RunKept
  <2>2. SetOf[run.pc] \in Sets
    BY <2>1, MissRun
  <2> QED
    BY <1>2, <2>1, <2>2 DEF RunAlone, PcsKept
<1>3. InOwnSet'
  BY DEF InOwnSet, PcsKept
<1> QED
  BY <1>1, <1>2, <1>3 DEF RunAlone

LEMMA PutStep ==
  ASSUME IInv, NEW p \in Pcs, NEW e \in Entry, e.pc = p, Put(p, e),
         run'.kind # "miss"
  PROVE  PcInOneWay' /\ RunAlone' /\ InOwnSet'
<1> USE DEF IInv
<1>1. \A s \in Sets, w \in Ways :
        dcache'[s][w] = IF s = SetOf[p] /\ w = Target(p) THEN e ELSE dcache[s][w]
  BY PutEffect
<1>2. \A w \in Ways : w # Target(p) => dcache[SetOf[p]][w].pc # p
  BY TargetAlone
<1>3. Target(p) \in Ways /\ SetOf[p] \in Sets
  BY TargetType
<1>4. ASSUME NEW s \in Sets, dcache'[s][1].pc = dcache'[s][2].pc
      PROVE  dcache'[s][1].pc = NoPc
  <2>1. CASE s # SetOf[p]
    <3>1. dcache'[s][1] = dcache[s][1] /\ dcache'[s][2] = dcache[s][2]
      BY <1>1, <2>1 DEF Ways
    <3> QED
      BY <1>4, <3>1 DEF PcInOneWay
  <2>2. CASE s = SetOf[p] /\ Target(p) = 1
    BY <1>1, <1>2, <1>4, <2>2 DEF Ways
  <2>3. CASE s = SetOf[p] /\ Target(p) = 2
    BY <1>1, <1>2, <1>4, <2>3 DEF Ways
  <2> QED
    BY <1>3, <2>1, <2>2, <2>3 DEF Ways
<1>5. PcInOneWay'
  BY <1>4 DEF PcInOneWay
<1>6. RunAlone'
  BY DEF RunAlone
<1>7. InOwnSet'
  BY <1>1 DEF InOwnSet
<1> QED
  BY <1>5, <1>6, <1>7

-----------------------------------------------------------------------------

LEMMA InitIInv == Init => IInv
<1> SUFFICES ASSUME Init PROVE IInv
  OBVIOUS
<1>1. TypeOK
  BY DEF Init, TypeOK, EmptyEntry, Entry, Runs, Idle, Ways
<1>2. PcInOneWay
  BY DEF Init, PcInOneWay, EmptyEntry, Ways
<1>3. RunAlone
  BY DEF Init, RunAlone, Idle
<1>4. InOwnSet
  BY DEF Init, InOwnSet, EmptyEntry
<1> QED
  BY <1>1, <1>2, <1>3, <1>4 DEF IInv

\* The chassis between and during batches.
LEMMA ChassisIInv == ASSUME IInv, Chassis PROVE IInv'
<1> USE DEF IInv
<1> DEFINE Bumped == [s \in Sets |-> [w \in Ways |->
                       [dcache[s][w] EXCEPT !.live = FALSE, !.rlive = FALSE]]]
<1>1. CASE DispatchEpoch
  <2>1. TypeOK'
    BY <1>1, BumpType DEF TypeOK, DispatchEpoch, relVars
  <2>2. PcsKept /\ RunKept
    BY <1>1, BumpType DEF DispatchEpoch, PcsKept, RunKept
  <2> QED
    BY <2>1, <2>2, KeptStep
<1>2. CASE SilentVerdicts
  <2>1. TypeOK'
    BY <1>2 DEF TypeOK, SilentVerdicts, cacheVars, relVars
  <2>2. PcsKept /\ RunKept
    BY <1>2 DEF SilentVerdicts, cacheVars, PcsKept, RunKept
  <2> QED
    BY <2>1, <2>2, KeptStep
<1>3. CASE StateLoaded
  <2>1. \A s \in Sets, w \in Ways : dcache[s][w] \in Entry
    BY DEF TypeOK
  <2>2. Bumped \in [Sets -> [Ways -> Entry]]
    BY <2>1, EntryKept
  <2>3. \A s \in Sets, w \in Ways : Bumped[s][w].pc = dcache[s][w].pc
    BY <2>1, EntryKept
  <2>4. TypeOK'
    BY <1>3, <2>2 DEF TypeOK, StateLoaded, chassisVars
  <2>5. PcsKept /\ RunKept
    BY <1>3, <2>3 DEF StateLoaded, PcsKept, RunKept
  <2> QED
    BY <2>4, <2>5, KeptStep
<1>4. ASSUME NEW p \in AskedPcs, DispatchEpochPc(p) PROVE IInv'
  <2>1. SetOf[p] \in Sets /\ NamedWay(p) \in Ways /\ p \in Pcs
    BY DispatchAssumption DEF NamedWay, Ways, AskedPcs, Pcs, RelPcs
  <2>2. dcache[SetOf[p]][NamedWay(p)] \in Entry
    BY <2>1 DEF TypeOK
  <2> DEFINE d == [dcache[SetOf[p]][NamedWay(p)] EXCEPT !.live = FALSE]
  <2>3. d \in Entry /\ d.pc = dcache[SetOf[p]][NamedWay(p)].pc
    BY <2>2, EntryKept
  <2>4. dcache' = dcache \/ dcache' = [dcache EXCEPT ![SetOf[p]][NamedWay(p)] = d]
    BY <1>4 DEF DispatchEpochPc
  <2> HIDE DEF d
  <2>5. dcache' \in [Sets -> [Ways -> Entry]] /\ PcsKept
    <3>1. CASE dcache' = dcache
      BY <3>1 DEF TypeOK, PcsKept
    <3>2. CASE dcache' = [dcache EXCEPT ![SetOf[p]][NamedWay(p)] = d]
      BY <2>1, <2>3, <3>2, StoreEffect DEF PcsKept
    <3> QED
      BY <2>4, <3>1, <3>2
  <2>6. TypeOK' /\ RunKept
    BY <1>4, <2>5 DEF TypeOK, DispatchEpochPc, relVars, RunKept
  <2> QED
    BY <2>5, <2>6, KeptStep
<1> QED
  BY <1>1, <1>2, <1>3, <1>4 DEF Chassis

\* Guest code: the generations move and entries keep their pcs.
LEMMA GuestIInv == ASSUME IInv, Guest PROVE IInv'
<1> USE DEF IInv
<1>1. ASSUME RelMoved
      PROVE  /\ PcsKept /\ RunKept /\ run' \in Runs
             /\ dcache' \in [Sets -> [Ways -> Entry]]
             /\ seen' \in [Sets -> Pcs \cup {NoPc}] /\ way' \in [Sets -> Ways]
             /\ armed' \in BOOLEAN /\ inBatch' \in BOOLEAN /\ native' \subseteq AskedPcs
             /\ raced' \subseteq Sets \X Ways
  <2>1. CASE run.kind = "miss"
    <3>1. run \in MissRuns
      BY <2>1, MissRun
    <3>2. run' = [run EXCEPT !.moved = TRUE]
      BY <1>1, <2>1 DEF RelMoved
    <3>3. run' \in MissRuns /\ run'.pc = run.pc /\ run'.way = run.way /\ run'.kind = "miss"
      BY <3>1, <3>2 DEF MissRuns
    <3> QED
      BY <1>1, <2>1, <3>3, BumpType DEF RelMoved, TypeOK, PcsKept, RunKept, Runs, chassisVars
  <2>2. CASE run.kind # "miss"
    BY <1>1, <2>2, BumpType DEF RelMoved, TypeOK, PcsKept, RunKept, chassisVars
  <2> QED
    BY <2>1, <2>2
<1>2. ASSUME GuestAlloc PROVE IInv'
  <2>1. active' \subseteq LPcs /\ twin' \in [RetailPcs -> active' \cup {NoPc}] /\ fresh' \subseteq active'
    BY <1>2 DEF GuestAlloc, TypeOK
  <2> QED
    BY <1>1, <1>2, <2>1, KeptStep DEF GuestAlloc, TypeOK
<1>3. ASSUME GuestModuleInit PROVE IInv'
  <2>1. active' \subseteq LPcs /\ twin' \in [RetailPcs -> active' \cup {NoPc}] /\ fresh' \subseteq active'
    BY <1>3 DEF GuestModuleInit, TypeOK
  <2> QED
    BY <1>1, <1>3, <2>1, KeptStep DEF GuestModuleInit, TypeOK
<1>4. ASSUME NEW m \in LPcs, GuestLink(m) PROVE IInv'
  <2>1. active' \subseteq LPcs /\ fresh' \subseteq active'
    BY <1>4 DEF GuestLink, TypeOK
  <2>2. twin' \in [RetailPcs -> active' \cup {NoPc}]
    BY <1>4 DEF GuestLink, TypeOK
  <2> QED
    BY <1>1, <1>4, <2>1, <2>2, KeptStep DEF GuestLink, TypeOK
<1>5. ASSUME NEW m \in LPcs, GuestUnlink(m) PROVE IInv'
  <2>1. active' \subseteq LPcs /\ twin' \in [RetailPcs -> active' \cup {NoPc}] /\ fresh' \subseteq active'
    BY <1>5 DEF GuestUnlink, TypeOK
  <2> QED
    BY <1>1, <1>5, <2>1, KeptStep DEF GuestUnlink, TypeOK
<1>6. ASSUME NEW m \in LPcs, GuestLWrite(m) PROVE IInv'
  <2>1. active' \subseteq LPcs /\ twin' \in [RetailPcs -> active' \cup {NoPc}] /\ fresh' \subseteq active'
    BY <1>6 DEF GuestLWrite, TypeOK
  <2> QED
    BY <1>1, <1>6, <2>1, KeptStep DEF GuestLWrite, TypeOK
<1>7. CASE BodyReturn
  <2>1. PcsKept /\ RunKept
    BY <1>7 DEF BodyReturn, Idle, cacheVars, PcsKept, RunKept
  <2>2. TypeOK'
    BY <1>7 DEF BodyReturn, TypeOK, cacheVars, chassisVars, relVars, Runs
  <2> QED
    BY <2>1, <2>2, KeptStep
<1>8. CASE ChunkNestedDol
  <2>1. run \in MissRuns
    BY <1>8, MissRun DEF ChunkNestedDol
  <2>2. run' \in MissRuns /\ run'.pc = run.pc /\ run'.way = run.way
    BY <1>8, <2>1 DEF ChunkNestedDol, MissRuns
  <2>3. PcsKept /\ RunKept
    BY <1>8, <2>2 DEF ChunkNestedDol, cacheVars, PcsKept, RunKept
  <2>4. TypeOK'
    BY <1>8, <2>2 DEF ChunkNestedDol, TypeOK, cacheVars, chassisVars, relVars, Runs
  <2> QED
    BY <2>3, <2>4, KeptStep
<1> QED
  BY <1>2, <1>3, <1>4, <1>5, <1>6, <1>7, <1>8 DEF Guest

-----------------------------------------------------------------------------

\* The parts of the state a call of glue_call that runs no chunk leaves alone.
LEMMA MissTyped ==
  ASSUME TypeOK, NEW p \in Pcs, MissBooks(p), MissRest, run' \in Runs,
         dcache' \in [Sets -> [Ways -> Entry]], raced' \subseteq Sets \X Ways
  PROVE  TypeOK'
  BY BooksType DEF TypeOK, MissRest, chassisVars, relVars

\* A miss that stores an entry for its pc, or nothing, and runs no chunk.
LEMMA MissPut ==
  ASSUME IInv, NEW p \in Pcs, NEW e \in Entry, e.pc = p, MissBooks(p), MissRest,
         run' \in {Idle, DolBody}, Put(p, e) \/ Keep
  PROVE  IInv'
<1> USE DEF IInv
<1>1. run' \in Runs /\ run'.kind # "miss"
  BY DEF Runs, Idle, DolBody
<1>2. CASE Put(p, e)
  BY <1>1, <1>2, PutEffect, MissTyped, PutStep
<1>3. CASE Keep
  <2>1. TypeOK'
    BY <1>1, <1>3, MissTyped DEF Keep, TypeOK
  <2>2. PcsKept /\ RunKept
    BY <1>1, <1>3 DEF Keep, PcsKept, RunKept
  <2> QED
    BY <2>1, <2>2, KeptStep
<1> QED
  BY <1>2, <1>3

LEMMA GlueCallIInv == ASSUME IInv, NEW p \in Pcs, GlueCall(p) PROVE IInv'
<1> USE DEF IInv
<1>0. NegEntry(p) \in Entry /\ NegEntry(p).pc = p /\ PosEntry(p) \in Entry /\ PosEntry(p).pc = p
  BY EntryType
<1>1. CASE Hit(p)
  <2>1. run' \in Runs /\ run'.kind # "miss"
    BY <1>1 DEF Hit, BurstExit, Runs, Idle, RelChunk, DolBody
  <2>2. TypeOK'
    BY <1>1, <2>1 DEF Hit, TypeOK, cacheVars, chassisVars, relVars
  <2>3. PcsKept /\ RunKept
    BY <1>1, <2>1 DEF Hit, cacheVars, PcsKept, RunKept
  <2> QED
    BY <2>2, <2>3, KeptStep
<1>2. CASE RevalidateClaimed(p)
  <2>1. Refreshed(p) \in Entry /\ Refreshed(p).pc = p
    BY <1>2, RefreshedType DEF RevalidateClaimed, Revalidates
  <2> QED
    BY <1>2, <2>1, MissPut DEF RevalidateClaimed
<1>3. CASE RevalidateRefused(p)
  BY <1>0, <1>3, MissPut DEF RevalidateRefused, BurstExit
<1>4. CASE RevalidateGranted(p)
  <2>1. Refreshed(p) \in Entry /\ Refreshed(p).pc = p
    BY <1>4, RefreshedType DEF RevalidateGranted, Revalidates
  <2> QED
    BY <1>4, <2>1, MissPut DEF RevalidateGranted
<1>5. CASE ClaimPopulate(p)
  <2> DEFINE e == IF p \in native THEN PosEntry(p) ELSE NegEntry(p)
  <2>1. e \in Entry /\ e.pc = p
    BY <1>0
  <2>2. Put(p, e) \/ Keep
    BY <1>5 DEF ClaimPopulate, PutIfAdmitted
  <2>3. MissBooks(p) /\ MissRest /\ run' = Idle
    BY <1>5 DEF ClaimPopulate
  <2> HIDE DEF e
  <2> QED
    BY <2>1, <2>2, <2>3, MissPut
<1>6. CASE NegativePopulate(p)
  BY <1>0, <1>6, MissPut DEF NegativePopulate, PutIfAdmitted, BurstExit
<1>7. CASE PositivePopulate(p)
  BY <1>0, <1>7, MissPut DEF PositivePopulate, PutIfAdmitted
<1>8. CASE AliasTail(p)
  BY <1>0, <1>8, MissPut DEF AliasTail
<1>9. CASE ChunkStart(p)
  <2>1. Target(p) \in Ways
    BY TargetType
  <2>2. p \in RelPcs /\ ChunkOf(p) \in LPcs
    BY <1>9 DEF ChunkStart, ChunkOf, RelPcs, TypeOK
  <2>3. Admitted(p) \in BOOLEAN
    BY DEF Admitted
  <2>4. run' \in MissRuns /\ run'.pc = p /\ run'.way = Target(p)
    BY <1>9, <2>1, <2>2, <2>3, Zenon DEF ChunkStart, MissRuns
  <2>5. fresh' \subseteq active
    BY <1>9 DEF ChunkStart, Verify, TypeOK
  <2>6. TypeOK'
    BY <1>9, <2>4, <2>5, BooksType DEF ChunkStart, Keep, TypeOK, Runs, chassisVars
  <2>7. PcInOneWay' /\ RunAlone' /\ InOwnSet'
    BY <1>9, <2>4, TargetAlone DEF ChunkStart, Keep, PcInOneWay, RunAlone, InOwnSet
  <2> QED
    BY <2>6, <2>7
<1> QED
  BY <1>1, <1>2, <1>3, <1>4, <1>5, <1>6, <1>7, <1>8, <1>9 DEF GlueCall

LEMMA ChunkNestedIInv == ASSUME IInv, NEW p \in Pcs, ChunkNested(p) PROVE IInv'
<1> USE DEF IInv
<1>1. ChunkOf(p) \in LPcs
  BY DEF ChunkNested, ChunkOf, RelPcs, TypeOK
<1>2. run' \in Runs /\ RunKept
  <2>1. CASE run.kind = "miss"
    <3>1. run \in MissRuns
      BY <2>1, MissRun
    <3>2. PICK q \in LPcs \cup {NoPc} : run' = [run EXCEPT !.inner = q]
      BY <1>1, <2>1, <3>1 DEF ChunkNested, Left, MissRuns
    <3> QED
      BY <2>1, <3>1, <3>2 DEF MissRuns, Runs, RunKept
  <2>2. CASE run.kind # "miss"
    BY <2>2 DEF ChunkNested, TypeOK, RunKept
  <2> QED
    BY <2>1, <2>2
<1>3. PcsKept
  BY DEF ChunkNested, cacheVars, PcsKept
<1>4. fresh' \subseteq active
  BY DEF ChunkNested, Verify, TypeOK
<1>5. TypeOK'
  BY <1>2, <1>4 DEF ChunkNested, TypeOK, cacheVars, chassisVars
<1> QED
  BY <1>2, <1>3, <1>5, KeptStep

LEMMA ChunkPublishIInv == ASSUME IInv, ChunkPublish PROVE IInv'
<1> USE DEF IInv
<1> DEFINE s0 == SetOf[run.pc]
           w0 == run.way
           e  == RelEntry(run.pc, Published, dcache[s0][w0].may)
<1>1. run \in MissRuns /\ s0 \in Sets /\ w0 \in Ways /\ run.pc \in Pcs
  BY MissRun DEF ChunkPublish, MissRuns, Pcs
<1>2. run' = Idle /\ RunAlone' /\ RunKept
  BY DEF ChunkPublish, Idle, RunAlone, RunKept
<1>3. CASE Published # NoPc /\ run.admit
  <2>1. Published \in LPcs
    BY <1>1, <1>3 DEF Published, MissRuns
  <2>2. dcache[s0][w0] \in Entry
    BY <1>1 DEF TypeOK
  <2>3. dcache[s0][w0].may \in BOOLEAN
    BY <2>2 DEF Entry
  <2>4. e \in Entry /\ e.pc = run.pc
    BY <1>1, <2>1, <2>3 DEF Entry, RelEntry
  <2>5. dcache' = [dcache EXCEPT ![s0][w0] = e]
    BY <1>3 DEF ChunkPublish
  <2> HIDE DEF e
  <2>6. /\ dcache' \in [Sets -> [Ways -> Entry]]
        /\ \A s \in Sets, w \in Ways :
             dcache'[s][w] = IF s = s0 /\ w = w0 THEN e ELSE dcache[s][w]
    <3>1. TypeOK /\ s0 \in Sets /\ w0 \in Ways /\ e \in Entry
      BY <1>1, <2>4
    <3> HIDE DEF s0, w0
    <3> QED
      BY <2>5, <3>1, StoreEffect
  <2>7. raced' \subseteq Sets \X Ways
    BY <1>1, <1>3 DEF ChunkPublish, TypeOK
  <2>8. TypeOK'
    BY <1>2, <2>6, <2>7 DEF ChunkPublish, TypeOK, chassisVars, relVars, Runs
  <2>9. \A w \in Ways : w # w0 => dcache[s0][w].pc # run.pc
    BY DEF ChunkPublish, RunAlone
  <2>10. PcInOneWay'
    <3>1. ASSUME NEW s \in Sets, dcache'[s][1].pc = dcache'[s][2].pc
          PROVE  dcache'[s][1].pc = NoPc
      <4>1. CASE s # s0
        <5>1. dcache'[s][1] = dcache[s][1] /\ dcache'[s][2] = dcache[s][2]
          BY <2>6, <4>1 DEF Ways
        <5> QED
          BY <3>1, <5>1 DEF PcInOneWay
      <4>2. CASE s = s0
        BY <1>1, <2>4, <2>6, <2>9, <3>1, <4>2 DEF Ways
      <4> QED
        BY <4>1, <4>2
    <3> QED
      BY <3>1 DEF PcInOneWay
  <2>11. InOwnSet'
    BY <2>4, <2>6 DEF InOwnSet
  <2> QED
    BY <1>2, <2>8, <2>10, <2>11
<1>4. CASE ~(Published # NoPc /\ run.admit)
  <2>1. PcsKept
    BY <1>4 DEF ChunkPublish, Keep, PcsKept
  <2>2. TypeOK'
    BY <1>2, <1>4 DEF ChunkPublish, Keep, TypeOK, chassisVars, relVars, Runs
  <2> QED
    BY <1>2, <2>1, <2>2, KeptStep
<1> QED
  BY <1>3, <1>4

LEMMA BatchIInv == ASSUME IInv, BatchStart \/ BatchEnd PROVE IInv'
<1> USE DEF IInv
<1>1. PcsKept
  BY BumpType DEF BatchStart, BatchEnd, cacheVars, PcsKept
<1>2. RunKept
  BY DEF BatchStart, BatchEnd, RunKept
<1>3. TypeOK'
  BY BumpType DEF BatchStart, BatchEnd, TypeOK, cacheVars, relVars
<1> QED
  BY <1>1, <1>2, <1>3, KeptStep

LEMMA NextIInv == IInv /\ [Next]_vars => IInv'
<1> SUFFICES ASSUME IInv, [Next]_vars PROVE IInv'
  OBVIOUS
<1>1. CASE Next
  BY <1>1, ChassisIInv, GuestIInv, BatchIInv, ChunkPublishIInv, GlueCallIInv, ChunkNestedIInv
     DEF Next
<1>2. CASE UNCHANGED vars
  BY <1>2 DEF IInv, TypeOK, PcInOneWay, RunAlone, InOwnSet, vars, cacheVars, chassisVars, relVars
<1> QED
  BY <1>1, <1>2

-----------------------------------------------------------------------------

\* Every reachable state has IInv.
THEOREM SpecIInv == Spec => []IInv
  BY InitIInv, NextIInv, PTL DEF Spec

\* The variables keep their types (the tags, victims, entries and loader state
\* of module_glue.c and rel_loader.c), for any sets and pcs.
THEOREM TypeCorrect == Spec => []TypeOK
<1>1. IInv => TypeOK
  BY DEF IInv
<1> QED
  BY <1>1, SpecIInv, PTL

\* No pc is ever named by both ways of its set (glue_call's same-pc-first
\* choice of the way, across the run of the chunk it stores afterwards).
THEOREM OneWayPerPc == Spec => []PcInOneWay
<1>1. IInv => PcInOneWay
  BY DEF IInv
<1> QED
  BY <1>1, SpecIInv, PTL

\* dcache_peek, which looks at one way, answers what the hit test of glue_call,
\* which tries both, would find.
THEOREM PeekIsHit == Spec => []PeekIffHit
<1>1. ASSUME IInv, NEW p \in Pcs
      PROVE  Peek(p) <=> /\ HitWays(p) # {}
                         /\ LET e == EntryAt(p, FirstHit(p)) IN Usable(e) /\ ~e.neg
  <2>1. SetOf[p] \in Sets /\ p # NoPc
    BY DispatchAssumption DEF Pcs
  <2>2. ~(dcache[SetOf[p]][1].pc = p /\ dcache[SetOf[p]][2].pc = p)
    BY <1>1, <2>1 DEF IInv, PcInOneWay
  <2>3. CASE dcache[SetOf[p]][1].pc = p
    <3>1. 2 \notin HitWays(p) /\ NamedWay(p) = 1
      BY <2>2, <2>3 DEF HitWays, NamedWay
    <3>2. HitWays(p) # {} <=> 1 \in HitWays(p)
      BY <3>1 DEF HitWays, Ways
    <3>3. 1 \in HitWays(p) <=> dcache[SetOf[p]][1].live
      BY <2>3 DEF HitWays, Ways
    <3> QED
      BY <2>3, <3>1, <3>2, <3>3 DEF Peek, EntryAt, FirstHit
  <2>4. CASE dcache[SetOf[p]][1].pc # p
    <3>1. 1 \notin HitWays(p) /\ NamedWay(p) = 2 /\ FirstHit(p) = 2
      BY <2>4 DEF HitWays, NamedWay, FirstHit
    <3>2. HitWays(p) # {} <=> 2 \in HitWays(p)
      BY <3>1 DEF HitWays, Ways
    <3>3. 2 \in HitWays(p) <=> dcache[SetOf[p]][2].pc = p /\ dcache[SetOf[p]][2].live
      BY DEF HitWays, Ways
    <3> QED
      BY <3>1, <3>2, <3>3 DEF Peek, EntryAt
  <2> QED
    BY <2>3, <2>4
<1>2. IInv => PeekIffHit
  BY <1>1 DEF PeekIffHit
<1> QED
  BY <1>2, SpecIInv, PTL

-----------------------------------------------------------------------------
(* The verdict of a live entry.                                            *)

\* What VerdictAgrees asks of one entry.
Agrees(e) == e.live /\ ~e.rel /\ e.pc \in DolPcs \ ClaimPcs => (e.neg <=> e.pc \notin native)

\* A step that leaves verdicts alone and every entry dead or with the fields
\* Agrees reads.
Faded == \A s \in Sets, w \in Ways :
           /\ dcache'[s][w].live => dcache[s][w].live
           /\ dcache'[s][w].rel = dcache[s][w].rel
           /\ dcache'[s][w].pc  = dcache[s][w].pc
           /\ dcache'[s][w].neg = dcache[s][w].neg

LEMMA FadedStep == ASSUME VerdictAgrees, armed \/ inBatch, Faded, UNCHANGED native
                   PROVE  VerdictAgrees'
  BY DEF VerdictAgrees, Faded

LEMMA BumpFades == ASSUME TypeOK
                   PROVE  \A s \in Sets, w \in Ways :
                            /\ ~GenBump[s][w].live
                            /\ RelBump[s][w].live = dcache[s][w].live
                            /\ RelBump[s][w].rel = dcache[s][w].rel
                            /\ RelBump[s][w].pc = dcache[s][w].pc
                            /\ RelBump[s][w].neg = dcache[s][w].neg
<1>1. \A s \in Sets, w \in Ways : dcache[s][w] \in Entry
  BY DEF TypeOK
<1>2. ASSUME NEW e \in Entry
      PROVE  /\ ~[e EXCEPT !.live = FALSE].live
             /\ [e EXCEPT !.rlive = FALSE].live = e.live
             /\ [e EXCEPT !.rlive = FALSE].rel = e.rel
             /\ [e EXCEPT !.rlive = FALSE].pc = e.pc
             /\ [e EXCEPT !.rlive = FALSE].neg = e.neg
  BY DEF Entry
<1> QED
  BY <1>1, <1>2 DEF GenBump, RelBump

LEMMA ChassisVerdict == ASSUME IInv, VerdictAgrees, Chassis PROVE VerdictAgrees'
<1> USE DEF IInv
<1>1. CASE DispatchEpoch
  BY <1>1, BumpFades DEF DispatchEpoch, VerdictAgrees
<1>2. CASE SilentVerdicts
  BY <1>2 DEF SilentVerdicts, VerdictAgrees
<1>3. CASE StateLoaded
  <2>1. \A s \in Sets, w \in Ways : dcache[s][w] \in Entry
    BY DEF TypeOK
  <2>2. ASSUME NEW e \in Entry
        PROVE  ~[e EXCEPT !.live = FALSE, !.rlive = FALSE].live
    BY DEF Entry
  <2>3. \A s \in Sets, w \in Ways : ~dcache'[s][w].live
    BY <1>3, <2>1, <2>2 DEF StateLoaded
  <2> QED
    BY <2>3 DEF VerdictAgrees
<1>4. ASSUME NEW p \in AskedPcs, DispatchEpochPc(p) PROVE VerdictAgrees'
  <2>1. SetOf[p] \in Sets /\ NamedWay(p) \in Ways /\ p \in Pcs /\ p # NoPc
    BY DispatchAssumption DEF NamedWay, Ways, AskedPcs, Pcs, RelPcs
  <2>2. dcache[SetOf[p]][NamedWay(p)] \in Entry
    BY <2>1 DEF TypeOK
  <2> DEFINE d == [dcache[SetOf[p]][NamedWay(p)] EXCEPT !.live = FALSE]
  <2>3. d \in Entry /\ ~d.live
    BY <2>2, EntryKept DEF Entry
  <2>4. IF dcache[SetOf[p]][NamedWay(p)].pc = p
          THEN dcache' = [dcache EXCEPT ![SetOf[p]][NamedWay(p)] = d] ELSE dcache' = dcache
    BY <1>4 DEF DispatchEpochPc
  <2> HIDE DEF d
  <2>5. ASSUME NEW s \in Sets, NEW w \in Ways, dcache'[s][w].live
        PROVE  /\ dcache'[s][w] = dcache[s][w]
               /\ s = SetOf[p] => dcache[s][w].pc # p
    <3>1. CASE dcache[SetOf[p]][NamedWay(p)].pc = p
      <4>1. dcache'[s][w] = IF s = SetOf[p] /\ w = NamedWay(p) THEN d ELSE dcache[s][w]
        BY <2>1, <2>3, <2>4, <3>1, StoreEffect
      <4>2. dcache'[s][w] = dcache[s][w] /\ ~(s = SetOf[p] /\ w = NamedWay(p))
        BY <2>3, <2>5, <4>1
      <4> QED
        BY <2>1, <3>1, <4>2 DEF PcInOneWay, Ways
    <3>2. CASE dcache[SetOf[p]][NamedWay(p)].pc # p
      <4>1. \A v \in Ways : dcache[SetOf[p]][v].pc # p
        BY <3>2 DEF NamedWay, Ways
      <4> QED
        BY <2>4, <3>2, <4>1
    <3> QED
      BY <3>1, <3>2
  <2>6. \A q \in DolPcs : q # p => (q \in native <=> q \in native')
    BY <1>4 DEF DispatchEpochPc
  <2>7. armed /\ armed'
    BY <1>4 DEF DispatchEpochPc
  <2>8. ASSUME NEW s \in Sets, NEW w \in Ways, dcache'[s][w].live
        PROVE  dcache'[s][w] = dcache[s][w] /\ dcache[s][w].pc # p
    BY <2>1, <2>5, <2>8 DEF InOwnSet
  <2> QED
    BY <2>6, <2>7, <2>8 DEF VerdictAgrees
<1> QED
  BY <1>1, <1>2, <1>3, <1>4 DEF Chassis

\* A body runs only inside a batch.
InBatch == run # Idle => inBatch

LEMMA GuestVerdict == ASSUME IInv, InBatch, VerdictAgrees, Guest PROVE VerdictAgrees'
<1> USE DEF IInv
<1>1. ASSUME RelMoved PROVE VerdictAgrees'
  <2>1. Faded
    BY <1>1, BumpFades DEF RelMoved, Faded
  <2> QED
    BY <1>1, <2>1, FadedStep DEF RelMoved, chassisVars
<1>2. ASSUME UNCHANGED <<dcache, armed, inBatch, native>> PROVE VerdictAgrees'
  BY <1>2 DEF VerdictAgrees
<1>3. CASE BodyReturn
  BY <1>2, <1>3 DEF BodyReturn, cacheVars, chassisVars
<1>4. CASE ChunkNestedDol
  BY <1>2, <1>4 DEF ChunkNestedDol, cacheVars, chassisVars
<1> QED
  BY <1>1, <1>3, <1>4 DEF Guest, GuestAlloc, GuestModuleInit, GuestLink, GuestUnlink, GuestLWrite

\* A store of an agreeing entry.
LEMMA PutVerdict ==
  ASSUME IInv, VerdictAgrees, inBatch, NEW p \in Pcs, NEW e \in Entry, Agrees(e),
         Put(p, e) \/ Keep, MissRest
  PROVE  VerdictAgrees'
<1> USE DEF IInv
<1>1. UNCHANGED <<armed, inBatch, native>>
  BY DEF MissRest, chassisVars
<1>2. CASE Put(p, e)
  <2>1. \A s \in Sets, w \in Ways : dcache'[s][w] = e \/ dcache'[s][w] = dcache[s][w]
    BY <1>2, PutEffect
  <2> QED
    BY <1>1, <2>1 DEF VerdictAgrees, Agrees
<1>3. CASE Keep
  BY <1>1, <1>3 DEF Keep, VerdictAgrees
<1> QED
  BY <1>2, <1>3

LEMMA GlueCallVerdict == ASSUME IInv, VerdictAgrees, NEW p \in Pcs, GlueCall(p) PROVE VerdictAgrees'
<1> USE DEF IInv
<1>0. NegEntry(p) \in Entry /\ PosEntry(p) \in Entry
  BY EntryType
<1>1. p \notin native => Agrees(NegEntry(p))
  BY Zenon DEF Agrees, NegEntry
<1>2. p \in native => Agrees(PosEntry(p))
  BY DEF Agrees, PosEntry
<1>3. ASSUME Named(p) # {} PROVE Refreshed(p) \in Entry /\ Refreshed(p).pc = p
                                 /\ Refreshed(p).neg = EntryAt(p, Target(p)).neg
  <2>1. EntryAt(p, Target(p)) \in Entry
    BY TargetType DEF EntryAt, TypeOK
  <2> QED
    BY <1>3, <2>1, RefreshedType DEF Refreshed, Entry
<1>4. CASE Hit(p)
  BY <1>4 DEF Hit, cacheVars, chassisVars, VerdictAgrees
<1>5. CASE RevalidateClaimed(p)
  <2>1. Refreshed(p) \in Entry /\ Agrees(Refreshed(p))
    BY <1>3, <1>5 DEF RevalidateClaimed, Revalidates, Agrees
  <2> QED
    BY <1>5, <2>1, PutVerdict DEF RevalidateClaimed, Revalidates, Misses, MayCall
<1>6. CASE RevalidateRefused(p)
  BY <1>0, <1>1, <1>6, PutVerdict DEF RevalidateRefused, Revalidates, Misses, MayCall
<1>7. CASE RevalidateGranted(p)
  <2>1. Refreshed(p) \in Entry /\ Agrees(Refreshed(p))
    BY <1>3, <1>7 DEF RevalidateGranted, Revalidates, Agrees
  <2> QED
    BY <1>7, <2>1, PutVerdict DEF RevalidateGranted, Revalidates, Misses, MayCall
<1>8. CASE ClaimPopulate(p)
  <2> DEFINE e == IF p \in native THEN PosEntry(p) ELSE NegEntry(p)
  <2>1. e \in Entry /\ Agrees(e)
    BY <1>0, <1>1, <1>2
  <2>2. Put(p, e) \/ Keep
    BY <1>8 DEF ClaimPopulate, PutIfAdmitted
  <2> HIDE DEF e
  <2> QED
    BY <1>8, <2>1, <2>2, PutVerdict DEF ClaimPopulate, FullMiss, Misses, MayCall
<1>9. CASE NegativePopulate(p)
  BY <1>0, <1>1, <1>9, PutVerdict
     DEF NegativePopulate, PutIfAdmitted, Declined, FullMiss, Misses, MayCall
<1>10. CASE PositivePopulate(p)
  BY <1>0, <1>2, <1>10, PutVerdict
     DEF PositivePopulate, PutIfAdmitted, Declined, FullMiss, Misses, MayCall
<1>11. CASE AliasTail(p)
  BY <1>11 DEF AliasTail, Keep, MissRest, chassisVars, VerdictAgrees
<1>12. CASE ChunkStart(p)
  BY <1>12 DEF ChunkStart, Keep, chassisVars, VerdictAgrees
<1> QED
  BY <1>4, <1>5, <1>6, <1>7, <1>8, <1>9, <1>10, <1>11, <1>12 DEF GlueCall

LEMMA ChunkPublishVerdict == ASSUME IInv, VerdictAgrees, ChunkPublish PROVE VerdictAgrees'
<1> USE DEF IInv
<1> DEFINE s0 == SetOf[run.pc]
           w0 == run.way
           e  == RelEntry(run.pc, Published, dcache[s0][w0].may)
<1>1. s0 \in Sets /\ w0 \in Ways
  BY MissRun DEF ChunkPublish, MissRuns
<1>2. e.rel
  BY DEF RelEntry
<1>3. dcache' = [dcache EXCEPT ![s0][w0] = e] \/ dcache' = dcache
  BY DEF ChunkPublish, Keep
<1> HIDE DEF e
<1>4. \A s \in Sets, w \in Ways : dcache'[s][w] = e \/ dcache'[s][w] = dcache[s][w]
  BY <1>1, <1>3 DEF TypeOK
<1>5. UNCHANGED <<armed, inBatch, native>>
  BY DEF ChunkPublish, chassisVars
<1> QED
  BY <1>2, <1>4, <1>5 DEF VerdictAgrees

LEMMA NextVerdict == IInv /\ InBatch /\ VerdictAgrees /\ [Next]_vars => InBatch' /\ VerdictAgrees'
<1> SUFFICES ASSUME IInv, InBatch, VerdictAgrees, [Next]_vars PROVE InBatch' /\ VerdictAgrees'
  OBVIOUS
<1>1. InBatch'
  <2>1. CASE Chassis
    BY <2>1 DEF Chassis, DispatchEpoch, DispatchEpochPc, SilentVerdicts, StateLoaded, InBatch,
                chassisVars
  <2>2. CASE Guest
    BY <2>2 DEF Guest, GuestAlloc, GuestModuleInit, GuestLink, GuestUnlink, GuestLWrite,
                RelMoved, BodyReturn, ChunkNestedDol, chassisVars, InBatch, Idle
  <2>3. CASE BatchStart \/ BatchEnd \/ ChunkPublish
    BY <2>3 DEF BatchStart, BatchEnd, ChunkPublish, MayCall, chassisVars, InBatch
  <2>4. ASSUME NEW p \in Pcs, GlueCall(p) PROVE InBatch'
    BY <2>4 DEF GlueCall, Hit, RevalidateClaimed, RevalidateRefused, RevalidateGranted, Revalidates,
                ClaimPopulate, NegativePopulate, PositivePopulate, AliasTail, ChunkStart,
                Declined, FullMiss, Misses, MayCall, MissRest, chassisVars, InBatch
  <2>5. ASSUME NEW p \in Pcs, ChunkNested(p) PROVE InBatch'
    BY <2>5 DEF ChunkNested, chassisVars, InBatch
  <2>6. CASE UNCHANGED vars
    BY <2>6 DEF vars, chassisVars, InBatch
  <2> QED
    BY <2>1, <2>2, <2>3, <2>4, <2>5, <2>6 DEF Next
<1>2. VerdictAgrees'
  <2>1. CASE BatchStart
    BY <2>1, BumpFades DEF BatchStart, VerdictAgrees, IInv
  <2>2. CASE BatchEnd
    BY <2>2 DEF BatchEnd, MayCall, cacheVars, VerdictAgrees
  <2>3. ASSUME NEW p \in Pcs, ChunkNested(p) PROVE VerdictAgrees'
    BY <2>3 DEF ChunkNested, cacheVars, chassisVars, VerdictAgrees
  <2>4. CASE UNCHANGED vars
    BY <2>4 DEF vars, cacheVars, chassisVars, VerdictAgrees
  <2> QED
    BY <2>1, <2>2, <2>3, <2>4, ChassisVerdict, GuestVerdict, GlueCallVerdict,
       ChunkPublishVerdict DEF Next
<1> QED
  BY <1>1, <1>2

\* A live entry of a plain DOL pc never disagrees with native_ok while verdicts
\* are signalled or a batch runs, for any chassis that changes verdicts only
\* where the epoch exports (or the batch's own bump) cover it.
THEOREM VerdictsAgree == Spec => []VerdictAgrees
<1>1. Init => InBatch /\ VerdictAgrees
  BY DEF Init, InBatch, VerdictAgrees, EmptyEntry
<1>2. Spec => [](InBatch /\ VerdictAgrees)
  BY <1>1, NextVerdict, SpecIInv, PTL DEF Spec
<1> QED
  BY <1>2, PTL

-----------------------------------------------------------------------------
(* What a REL entry runs.                                                  *)

\* An entry is marked as a REL entry exactly when its pc is a REL pc.
RelMarked == \A s \in Sets, w \in Ways :
               dcache[s][w].pc # NoPc => (dcache[s][w].rel <=> dcache[s][w].pc \in RelPcs)

\* A chunk that will be stored is still the one its pc resolves to, unless the
\* loader moved; what an inner dispatch left published is not the E4 gate's.
RunCoherent ==
  run.kind = "miss" =>
    /\ run.inner \notin E4Pcs
    /\ ~run.moved => /\ run.chunk = ChunkOf(run.pc)
                     /\ run.pc \in active => run.pc \in fresh

RInv == RelEntryCoherent /\ RelMarked /\ RunCoherent /\ InBatch

\* What RelEntryCoherent asks of one valid entry that is not in raced.
FitsNow(e) == (~e.neg /\ e.pc \in RetailPcs /\ Gated(e.pc)) \/ RunsNow(e)

\* The same of an entry after the step.
ChunkThen(p) == IF p \in LPcs THEN p ELSE twin'[p]

FitsThen(e) ==
  \/ ~e.neg /\ e.pc \in RetailPcs /\ ChunkThen(e.pc) \in E4Pcs
  \/ /\ e.neg => e.pc \in RetailPcs /\ twin'[e.pc] = NoPc
     /\ ~e.neg => e.fn = ChunkThen(e.pc) /\ (e.pc \in active' => e.pc \in fresh')

LEMMA CoherentNow ==
  ASSUME RelEntryCoherent, NEW s \in Sets, NEW w \in Ways
  PROVE  /\ dcache[s][w].fn \notin E4Pcs
         /\ dcache[s][w].live /\ dcache[s][w].rel /\ dcache[s][w].rlive /\ <<s, w>> \notin raced =>
              FitsNow(dcache[s][w])
  BY DEF RelEntryCoherent, FitsNow, ValidRel

LEMMA CoherentThen ==
  ASSUME \A s \in Sets, w \in Ways :
           /\ dcache'[s][w].fn \notin E4Pcs
           /\ dcache'[s][w].live /\ dcache'[s][w].rel /\ dcache'[s][w].rlive
                /\ <<s, w>> \notin raced' => FitsThen(dcache'[s][w])
  PROVE  RelEntryCoherent'
<1>1. ASSUME NEW s \in Sets, NEW w \in Ways
      PROVE  /\ dcache'[s][w].fn \notin E4Pcs
             /\ ValidRel(s, w)' /\ <<s, w>> \notin raced'
                  => \/ /\ ~dcache'[s][w].neg /\ dcache'[s][w].pc \in RetailPcs
                        /\ Gated(dcache[s][w].pc)'
                     \/ RunsNow(dcache[s][w])'
  BY DEF FitsThen, ChunkThen, ChunkOf, Gated, RunsNow, ValidRel
<1> QED
  BY <1>1 DEF RelEntryCoherent

\* A step that leaves no REL entry valid.
Dulled == \A s \in Sets, w \in Ways :
            /\ dcache'[s][w].pc  = dcache[s][w].pc
            /\ dcache'[s][w].rel = dcache[s][w].rel
            /\ dcache'[s][w].fn  = dcache[s][w].fn
            /\ ~(dcache'[s][w].live /\ dcache'[s][w].rlive)

LEMMA DulledStep == ASSUME RelEntryCoherent, RelMarked, Dulled
                    PROVE  RelEntryCoherent' /\ RelMarked'
  BY DEF RelEntryCoherent, RelMarked, Dulled, ValidRel

\* A step that at most ends the life of entries, and verifies modules.
Dimmed == /\ \A s \in Sets, w \in Ways :
               /\ dcache'[s][w].live => dcache[s][w].live
               /\ dcache'[s][w].pc    = dcache[s][w].pc
               /\ dcache'[s][w].rel   = dcache[s][w].rel
               /\ dcache'[s][w].rlive = dcache[s][w].rlive
               /\ dcache'[s][w].neg   = dcache[s][w].neg
               /\ dcache'[s][w].fn    = dcache[s][w].fn
          /\ UNCHANGED <<active, twin, raced>> /\ fresh \subseteq fresh'

LEMMA DimmedStep == ASSUME RelEntryCoherent, RelMarked, Dimmed
                    PROVE  RelEntryCoherent' /\ RelMarked'
<1>1. RelMarked'
  BY DEF RelMarked, Dimmed
<1>2. ASSUME NEW s \in Sets, NEW w \in Ways
      PROVE  /\ dcache'[s][w].fn \notin E4Pcs
             /\ dcache'[s][w].live /\ dcache'[s][w].rel /\ dcache'[s][w].rlive
                  /\ <<s, w>> \notin raced' => FitsThen(dcache'[s][w])
  <2>1. /\ dcache[s][w].fn \notin E4Pcs
        /\ dcache[s][w].live /\ dcache[s][w].rel /\ dcache[s][w].rlive /\ <<s, w>> \notin raced =>
             FitsNow(dcache[s][w])
    BY CoherentNow
  <2>2. \A p : ChunkThen(p) = ChunkOf(p)
    BY DEF Dimmed, ChunkThen, ChunkOf
  <2>3. fresh \subseteq fresh' /\ UNCHANGED <<active, twin, raced>>
    BY DEF Dimmed
  <2> QED
    BY <2>1, <2>2, <2>3 DEF Dimmed, FitsNow, FitsThen, RunsNow, Gated
<1>3. RelEntryCoherent'
  BY <1>2, CoherentThen
<1> QED
  BY <1>1, <1>3

\* What the bumps leave of an entry.
LEMMA BumpKeeps ==
  ASSUME TypeOK
  PROVE  \A s \in Sets, w \in Ways :
           /\ GenBump[s][w].fn = dcache[s][w].fn /\ GenBump[s][w].rel = dcache[s][w].rel
           /\ RelBump[s][w].fn = dcache[s][w].fn /\ RelBump[s][w].rel = dcache[s][w].rel
           /\ ~GenBump[s][w].live /\ ~RelBump[s][w].rlive
<1>1. \A s \in Sets, w \in Ways : dcache[s][w] \in Entry
  BY DEF TypeOK
<1>2. ASSUME NEW e \in Entry
      PROVE  /\ [e EXCEPT !.live = FALSE].fn = e.fn /\ [e EXCEPT !.live = FALSE].rel = e.rel
             /\ [e EXCEPT !.rlive = FALSE].fn = e.fn /\ [e EXCEPT !.rlive = FALSE].rel = e.rel
             /\ ~[e EXCEPT !.live = FALSE].live /\ ~[e EXCEPT !.rlive = FALSE].rlive
  BY DEF Entry
<1> QED
  BY <1>1, <1>2 DEF GenBump, RelBump

LEMMA GenBumpDulls == ASSUME TypeOK, dcache' = GenBump PROVE Dulled
  BY BumpKeeps, BumpType DEF Dulled

LEMMA RelBumpDulls == ASSUME TypeOK, dcache' = RelBump PROVE Dulled
  BY BumpKeeps, BumpType DEF Dulled

\* The chassis.
LEMMA ChassisCoherent == ASSUME IInv, RInv, Chassis PROVE RelEntryCoherent' /\ RelMarked' /\ RunCoherent'
<1> USE DEF IInv, RInv
<1>1. CASE DispatchEpoch
  <2>1. Dulled
    BY <1>1, GenBumpDulls DEF DispatchEpoch
  <2>2. RunCoherent'
    BY <1>1 DEF DispatchEpoch, RunCoherent, Idle
  <2> QED
    BY <2>1, <2>2, DulledStep
<1>2. CASE SilentVerdicts
  <2>1. Dimmed
    BY <1>2 DEF SilentVerdicts, cacheVars, relVars, Dimmed
  <2>2. RunCoherent'
    BY <1>2 DEF SilentVerdicts, relVars, RunCoherent, ChunkOf
  <2> QED
    BY <2>1, <2>2, DimmedStep
<1>3. CASE StateLoaded
  <2>1. \A s \in Sets, w \in Ways : dcache[s][w] \in Entry
    BY DEF TypeOK
  <2>2. ASSUME NEW e \in Entry
        PROVE  LET f == [e EXCEPT !.live = FALSE, !.rlive = FALSE] IN
               f.pc = e.pc /\ f.rel = e.rel /\ f.fn = e.fn /\ ~f.live
    BY DEF Entry
  <2>3. Dulled
    BY <1>3, <2>1, <2>2 DEF StateLoaded, Dulled
  <2>4. RunCoherent'
    <3>1. run' = Idle
      BY <1>3 DEF StateLoaded, InBatch
    <3> QED
      BY <3>1 DEF RunCoherent, Idle
  <2> QED
    BY <2>3, <2>4, DulledStep
<1>4. ASSUME NEW p \in AskedPcs, DispatchEpochPc(p)
      PROVE  RelEntryCoherent' /\ RelMarked' /\ RunCoherent'
  <2>1. SetOf[p] \in Sets /\ NamedWay(p) \in Ways
    BY DispatchAssumption DEF NamedWay, Ways, AskedPcs, Pcs, RelPcs
  <2> DEFINE old == dcache[SetOf[p]][NamedWay(p)]
             d   == [old EXCEPT !.live = FALSE]
  <2>2. old \in Entry
    BY <2>1 DEF TypeOK
  <2>3. /\ d \in Entry /\ ~d.live /\ d.pc = old.pc /\ d.rel = old.rel
        /\ d.rlive = old.rlive /\ d.neg = old.neg /\ d.fn = old.fn
    BY <2>2 DEF Entry
  <2>4. dcache' = dcache \/ dcache' = [dcache EXCEPT ![SetOf[p]][NamedWay(p)] = d]
    BY <1>4 DEF DispatchEpochPc
  <2>5. UNCHANGED <<relVars, raced, run>>
    BY <1>4 DEF DispatchEpochPc
  <2> HIDE DEF d
  <2>6. Dimmed
    <3>1. CASE dcache' = dcache
      BY <2>5, <3>1 DEF Dimmed, relVars
    <3>2. CASE dcache' = [dcache EXCEPT ![SetOf[p]][NamedWay(p)] = d]
      <4>1. \A s \in Sets, w \in Ways :
              dcache'[s][w] = IF s = SetOf[p] /\ w = NamedWay(p) THEN d ELSE dcache[s][w]
        BY <2>1, <2>3, <3>2, StoreEffect
      <4> QED
        BY <2>3, <2>5, <4>1 DEF Dimmed, relVars
    <3> QED
      BY <2>4, <3>1, <3>2
  <2>7. RunCoherent'
    BY <2>5 DEF RunCoherent, relVars, ChunkOf
  <2> QED
    BY <2>6, <2>7, DimmedStep
<1> QED
  BY <1>1, <1>2, <1>3, <1>4 DEF Chassis

\* The guest: whatever it does to the loader moves the generation.
LEMMA GuestCoherent == ASSUME IInv, RInv, Guest PROVE RelEntryCoherent' /\ RelMarked' /\ RunCoherent'
<1> USE DEF IInv, RInv
<1>1. ASSUME RelMoved PROVE RelEntryCoherent' /\ RelMarked' /\ RunCoherent'
  <2>1. Dulled
    BY <1>1, RelBumpDulls DEF RelMoved
  <2>2. CASE run.kind = "miss"
    <3>1. run \in MissRuns /\ run' = [run EXCEPT !.moved = TRUE]
      BY <1>1, <2>2, MissRun DEF RelMoved
    <3>2. run'.moved /\ run'.inner = run.inner
      BY <3>1 DEF MissRuns
    <3>3. RunCoherent'
      BY <2>2, <3>2 DEF RunCoherent
    <3> QED
      BY <2>1, <3>3, DulledStep
  <2>3. CASE run.kind # "miss"
    <3>1. RunCoherent'
      BY <1>1, <2>3 DEF RelMoved, RunCoherent
    <3> QED
      BY <2>1, <3>1, DulledStep
  <2> QED
    BY <2>2, <2>3
<1>2. CASE BodyReturn
  <2>1. Dimmed
    BY <1>2 DEF BodyReturn, cacheVars, relVars, Dimmed
  <2>2. RunCoherent'
    BY <1>2 DEF BodyReturn, RunCoherent, Idle
  <2> QED
    BY <2>1, <2>2, DimmedStep
<1>3. CASE ChunkNestedDol
  <2>1. Dimmed
    BY <1>3 DEF ChunkNestedDol, cacheVars, relVars, Dimmed
  <2>2. run \in MissRuns /\ run' = [run EXCEPT !.inner = NoPc]
    BY <1>3, MissRun DEF ChunkNestedDol
  <2>3. /\ run'.inner = NoPc /\ run'.moved = run.moved
        /\ run'.chunk = run.chunk /\ run'.pc = run.pc
    BY <2>2 DEF MissRuns
  <2>4. NoPc \notin E4Pcs
    BY DispatchAssumption DEF Pcs, RelPcs
  <2>5. RunCoherent'
    BY <1>3, <2>3, <2>4 DEF ChunkNestedDol, relVars, RunCoherent, ChunkOf
  <2> QED
    BY <2>1, <2>5, DimmedStep
<1> QED
  BY <1>1, <1>2, <1>3 DEF Guest, GuestAlloc, GuestModuleInit, GuestLink, GuestUnlink, GuestLWrite

\* A miss stores an entry that is right for its pc.
LEMMA PutCoherent ==
  ASSUME IInv, RInv, NEW p \in Pcs, NEW e \in Entry, e.pc = p, e.fn \notin E4Pcs,
         e.rel <=> p \in RelPcs, e.rel /\ e.rlive => FitsNow(e),
         Put(p, e) \/ Keep, MissRest
  PROVE  RelEntryCoherent' /\ RelMarked'
<1> USE DEF IInv, RInv
<1>1. UNCHANGED <<active, twin, fresh>>
  BY DEF MissRest, relVars
<1>2. CASE Put(p, e)
  <2>1. Target(p) \in Ways /\ SetOf[p] \in Sets
    BY TargetType
  <2>2. \A s \in Sets, w \in Ways :
          dcache'[s][w] = IF s = SetOf[p] /\ w = Target(p) THEN e ELSE dcache[s][w]
    BY <1>2, PutEffect
  <2>3. raced' = raced \ {<<SetOf[p], Target(p)>>}
    BY <1>2 DEF Put
  <2>4. RelMarked'
    BY <2>2 DEF RelMarked
  <2>5. ASSUME NEW s \in Sets, NEW w \in Ways
        PROVE  LET f == dcache'[s][w] IN
               /\ f.fn \notin E4Pcs
               /\ f.live /\ f.rel /\ f.rlive /\ <<s, w>> \notin raced' => FitsNow(f)
    <3>1. CASE s = SetOf[p] /\ w = Target(p)
      BY <2>2, <3>1
    <3>2. CASE ~(s = SetOf[p] /\ w = Target(p))
      <4>1. dcache'[s][w] = dcache[s][w]
        BY <2>2, <3>2
      <4>2. <<s, w>> \notin raced' => <<s, w>> \notin raced
        BY <2>3, <3>2
      <4> QED
        BY <4>1, <4>2, CoherentNow
    <3> QED
      BY <3>1, <3>2
  <2>6. \A f : FitsNow(f) <=> FitsThen(f)
    <3>1. \A q : ChunkThen(q) = ChunkOf(q)
      BY <1>1 DEF ChunkThen, ChunkOf
    <3> QED
      BY <1>1, <3>1 DEF FitsNow, FitsThen, RunsNow, Gated
  <2>7. RelEntryCoherent'
    BY <2>5, <2>6, CoherentThen
  <2> QED
    BY <2>4, <2>7
<1>3. CASE Keep
  <2>1. Dimmed
    BY <1>1, <1>3 DEF Keep, Dimmed
  <2> QED
    BY <2>1, DimmedStep
<1> QED
  BY <1>2, <1>3

\* Labels of bodies that are no chunks.
LEMMA NoChunk == {"none", "orig", "thunk"} \cap E4Pcs = {}
  BY DispatchAssumption

\* glue_call on a DOL pc, or on a retail pc without a twin.
LEMMA MissCoherent ==
  ASSUME IInv, RInv, NEW p \in Pcs, NEW e, MissRest, Put(p, e) \/ Keep,
         \/ e = NegEntry(p) /\ (p \in RelPcs => p \in RetailPcs /\ twin[p] = NoPc)
         \/ e = PosEntry(p) /\ p \in DolPcs
         \/ e = Refreshed(p) /\ Revalidates(p)
  PROVE  RelEntryCoherent' /\ RelMarked'
<1> USE DEF IInv, RInv
<1>1. CASE e = NegEntry(p) /\ (p \in RelPcs => p \in RetailPcs /\ twin[p] = NoPc)
  <2>1. e \in Entry /\ e.pc = p
    BY <1>1, EntryType
  <2>2. e.fn = "none" /\ e.neg /\ (e.rel <=> p \in RelPcs)
    BY <1>1 DEF NegEntry
  <2>3. e.fn \notin E4Pcs
    BY <2>2, NoChunk
  <2>4. e.rel /\ e.rlive => FitsNow(e)
    BY <1>1, <2>1, <2>2 DEF FitsNow, RunsNow
  <2> QED
    BY <2>1, <2>2, <2>3, <2>4, PutCoherent
<1>2. CASE e = PosEntry(p) /\ p \in DolPcs
  <2>1. e \in Entry /\ e.pc = p
    BY <1>2, EntryType
  <2>2. e.fn \in {"orig", "thunk"} /\ ~e.rel
    BY <1>2 DEF PosEntry
  <2>3. e.fn \notin E4Pcs
    BY <2>2, NoChunk
  <2>4. p \notin RelPcs
    BY <1>2, DispatchAssumption
  <2> QED
    BY <2>1, <2>2, <2>3, <2>4, PutCoherent
<1>3. CASE e = Refreshed(p) /\ Revalidates(p)
  <2>1. Named(p) # {} /\ ~EntryAt(p, Target(p)).rel
    BY <1>3 DEF Revalidates
  <2>2. e \in Entry /\ e.pc = p
    BY <1>3, <2>1, RefreshedType
  <2>3. Target(p) \in Named(p) /\ Target(p) \in Ways /\ SetOf[p] \in Sets
    BY <2>1, TargetType DEF Target, First, Named, Ways
  <2>4. EntryAt(p, Target(p)) \in Entry /\ EntryAt(p, Target(p)).pc = p
    BY <2>3 DEF TypeOK, EntryAt, Named
  <2>5. e.rel = EntryAt(p, Target(p)).rel /\ e.fn = EntryAt(p, Target(p)).fn
    BY <1>3, <2>4 DEF Refreshed, Entry
  <2>6. p # NoPc
    BY DispatchAssumption
  <2>7. p \notin RelPcs
    BY <2>1, <2>3, <2>4, <2>6 DEF RelMarked, EntryAt
  <2>8. e.fn \notin E4Pcs
    BY <2>3, <2>5 DEF RelEntryCoherent, EntryAt
  <2> QED
    BY <2>1, <2>2, <2>5, <2>7, <2>8, PutCoherent
<1> QED
  BY <1>1, <1>2, <1>3

\* What a revalidated pc is.
LEMMA RevalidatedPc == ASSUME IInv, RInv, NEW p \in Pcs, Revalidates(p) PROVE p \notin RelPcs
<1>1. Target(p) \in Named(p) /\ Target(p) \in Ways /\ SetOf[p] \in Sets
  BY TargetType DEF IInv, Revalidates, Target, First, Named, Ways
<1>2. EntryAt(p, Target(p)).pc = p /\ ~EntryAt(p, Target(p)).rel /\ p # NoPc
  BY <1>1, DispatchAssumption DEF Named, Revalidates
<1> QED
  BY <1>1, <1>2 DEF RInv, RelMarked, EntryAt

\* Verification only adds modules.
LEMMA VerifyAdds == ASSUME NEW p, Verify(p)
                    PROVE  fresh \subseteq fresh' /\ (p \in active => p \in fresh')
  BY DEF Verify

LEMMA GlueCallCoherent == ASSUME IInv, RInv, NEW p \in Pcs, GlueCall(p)
                          PROVE  RelEntryCoherent' /\ RelMarked' /\ RunCoherent'
<1> USE DEF IInv, RInv
<1>1. DolPcs \cap RelPcs = {} /\ ClaimPcs \subseteq DolPcs /\ Originals \subseteq DolPcs
  BY DispatchAssumption
<1>2. ASSUME run' \in {Idle, DolBody, RelChunk} PROVE RunCoherent'
  BY <1>2 DEF RunCoherent, Idle, DolBody, RelChunk
<1>3. BurstExit(p) \subseteq {Idle, DolBody, RelChunk}
  BY DEF BurstExit
<1>4. CASE Hit(p)
  <2>1. Dimmed
    BY <1>4 DEF Hit, cacheVars, relVars, Dimmed
  <2>2. run' \in {Idle, DolBody, RelChunk}
    BY <1>3, <1>4 DEF Hit
  <2> QED
    BY <1>2, <2>1, <2>2, DimmedStep
<1>5. CASE RevalidateClaimed(p)
  BY <1>2, <1>5, MissCoherent DEF RevalidateClaimed
<1>6. CASE RevalidateRefused(p)
  <2>1. p \notin RelPcs
    BY <1>6, RevalidatedPc DEF RevalidateRefused
  <2> QED
    BY <1>2, <1>3, <1>6, <2>1, MissCoherent DEF RevalidateRefused
<1>7. CASE RevalidateGranted(p)
  BY <1>2, <1>7, MissCoherent DEF RevalidateGranted
<1>8. CASE ClaimPopulate(p)
  <2>1. p \in DolPcs /\ p \notin RelPcs
    BY <1>1, <1>8 DEF ClaimPopulate
  <2>2. CASE p \in native
    BY <1>2, <1>8, <2>1, <2>2, MissCoherent DEF ClaimPopulate, PutIfAdmitted
  <2>3. CASE p \notin native
    BY <1>2, <1>8, <2>1, <2>3, MissCoherent DEF ClaimPopulate, PutIfAdmitted
  <2> QED
    BY <2>2, <2>3
<1>9. CASE NegativePopulate(p)
  <2>1. p \in RelPcs => p \in RetailPcs /\ twin[p] = NoPc
    BY <1>9 DEF NegativePopulate, Declined, RelPcs
  <2> QED
    BY <1>2, <1>3, <1>9, <2>1, MissCoherent DEF NegativePopulate, PutIfAdmitted
<1>10. CASE PositivePopulate(p)
  BY <1>1, <1>2, <1>10, MissCoherent DEF PositivePopulate, PutIfAdmitted
<1>11. CASE AliasTail(p)
  <2>1. Dimmed
    BY <1>11 DEF AliasTail, Keep, MissRest, relVars, Dimmed
  <2>2. run' \in {Idle, DolBody, RelChunk}
    BY <1>11 DEF AliasTail
  <2> QED
    BY <1>2, <2>1, <2>2, DimmedStep
<1>12. CASE ChunkStart(p)
  <2>1. fresh \subseteq fresh' /\ (p \in active => p \in fresh') /\ UNCHANGED <<active, twin>>
    BY <1>12, VerifyAdds DEF ChunkStart
  <2>2. Dimmed
    BY <1>12, <2>1 DEF ChunkStart, Keep, Dimmed
  <2>3. /\ run'.inner = NoPc /\ run'.chunk = ChunkOf(p) /\ run'.pc = p
    BY <1>12 DEF ChunkStart
  <2>4. NoPc \notin E4Pcs
    BY DispatchAssumption DEF Pcs, RelPcs
  <2>5. RunCoherent'
    BY <2>1, <2>3, <2>4 DEF RunCoherent, ChunkOf
  <2> QED
    BY <2>2, <2>5, DimmedStep
<1> QED
  BY <1>4, <1>5, <1>6, <1>7, <1>8, <1>9, <1>10, <1>11, <1>12 DEF GlueCall

LEMMA ChunkNestedCoherent == ASSUME IInv, RInv, NEW p \in Pcs, ChunkNested(p)
                             PROVE  RelEntryCoherent' /\ RelMarked' /\ RunCoherent'
<1> USE DEF IInv, RInv
<1>1. fresh \subseteq fresh' /\ UNCHANGED <<active, twin>>
  BY VerifyAdds DEF ChunkNested
<1>2. Dimmed
  BY <1>1 DEF ChunkNested, cacheVars, Dimmed
<1>3. CASE run.kind # "miss"
  <2>1. RunCoherent'
    BY <1>3 DEF ChunkNested, RunCoherent
  <2> QED
    BY <1>2, <2>1, DimmedStep
<1>4. CASE run.kind = "miss"
  <2>1. run \in MissRuns
    BY <1>4, MissRun
  <2>2. PICK v : v \in {NoPc, run.inner} \cup ({ChunkOf(p)} \ E4Pcs) /\ run' = [run EXCEPT !.inner = v]
    BY <1>4 DEF ChunkNested, Left
  <2>3. /\ run'.inner = v /\ run'.moved = run.moved
        /\ run'.chunk = run.chunk /\ run'.pc = run.pc
    BY <2>1, <2>2 DEF MissRuns
  <2>4. v \notin E4Pcs
    BY <1>4, <2>2, DispatchAssumption DEF Pcs, RelPcs, RunCoherent
  <2>5. RunCoherent'
    BY <1>1, <1>4, <2>3, <2>4 DEF RunCoherent, ChunkOf
  <2> QED
    BY <1>2, <2>5, DimmedStep
<1> QED
  BY <1>3, <1>4

\* The store after the chunk's return.
LEMMA ChunkPublishCoherent == ASSUME IInv, RInv, ChunkPublish
                              PROVE  RelEntryCoherent' /\ RelMarked' /\ RunCoherent'
<1> USE DEF IInv, RInv
<1>1. run.kind = "miss" /\ run \in MissRuns /\ SetOf[run.pc] \in Sets /\ run.pc \in RelPcs
  BY MissRun DEF ChunkPublish, MissRuns
<1>2. RunCoherent'
  BY DEF ChunkPublish, RunCoherent, Idle
<1>3. UNCHANGED <<active, twin, fresh>>
  BY DEF ChunkPublish, relVars
<1>4. CASE Published # NoPc /\ run.admit
  <2> DEFINE s0 == SetOf[run.pc]
             w0 == run.way
             e == RelEntry(run.pc, Published, dcache[s0][w0].may)
  <2>1. /\ dcache' = [dcache EXCEPT ![s0][w0] = e]
        /\ raced' = IF run.moved THEN raced \cup {<<s0, w0>>} ELSE raced \ {<<s0, w0>>}
    BY <1>4 DEF ChunkPublish
  <2>2. s0 \in Sets /\ w0 \in Ways
    BY <1>1 DEF MissRuns
  <2>3. \A s \in Sets, w \in Ways :
          dcache'[s][w] = IF s = s0 /\ w = w0 THEN e ELSE dcache[s][w]
    BY <2>1, <2>2 DEF TypeOK
  <2>4. e.pc = run.pc /\ e.rel /\ ~e.neg /\ e.fn = Published
    BY DEF RelEntry
  <2>5. Published \notin E4Pcs
    BY <1>1, <1>4 DEF Published, RunCoherent
  <2>6. ASSUME ~run.moved PROVE FitsNow(e)
    <3>1. run.chunk = ChunkOf(run.pc) /\ (run.pc \in active => run.pc \in fresh)
      BY <1>1, <2>6 DEF RunCoherent
    <3>2. CASE run.chunk \notin E4Pcs
      BY <2>4, <3>1, <3>2 DEF Published, FitsNow, RunsNow
    <3>3. CASE run.chunk \in E4Pcs
      <4>1. run.pc \in RetailPcs
        BY <1>1, <1>4, <3>3 DEF Published, RelPcs
      <4> QED
        BY <2>4, <3>1, <3>3, <4>1 DEF FitsNow, Gated
    <3> QED
      BY <3>2, <3>3
  <2> HIDE DEF e
  <2>7. RelMarked'
    BY <1>1, <2>3, <2>4 DEF RelMarked
  <2>8. ASSUME NEW s \in Sets, NEW w \in Ways
        PROVE  LET f == dcache'[s][w] IN
               /\ f.fn \notin E4Pcs
               /\ f.live /\ f.rel /\ f.rlive /\ <<s, w>> \notin raced' => FitsNow(f)
    <3>1. CASE s = s0 /\ w = w0
      <4>1. dcache'[s][w] = e
        BY <2>3, <3>1
      <4>2. <<s, w>> \notin raced' => ~run.moved
        BY <2>1, <3>1
      <4> QED
        BY <2>4, <2>5, <2>6, <4>1, <4>2
    <3>2. CASE ~(s = s0 /\ w = w0)
      <4>1. dcache'[s][w] = dcache[s][w]
        BY <2>3, <3>2
      <4>2. <<s, w>> \notin raced' => <<s, w>> \notin raced
        BY <2>1, <3>2
      <4> QED
        BY <4>1, <4>2, CoherentNow
    <3> QED
      BY <3>1, <3>2
  <2>9. \A f : FitsNow(f) <=> FitsThen(f)
    <3>1. \A q : ChunkThen(q) = ChunkOf(q)
      BY <1>3 DEF ChunkThen, ChunkOf
    <3> QED
      BY <1>3, <3>1 DEF FitsNow, FitsThen, RunsNow, Gated
  <2>10. RelEntryCoherent'
    BY <2>8, <2>9, CoherentThen
  <2> QED
    BY <1>2, <2>7, <2>10
<1>5. CASE ~(Published # NoPc /\ run.admit)
  <2>1. Dimmed
    BY <1>3, <1>5 DEF ChunkPublish, Keep, Dimmed
  <2> QED
    BY <1>2, <2>1, DimmedStep
<1> QED
  BY <1>4, <1>5

LEMMA NextCoherent == IInv /\ RInv /\ InBatch' /\ [Next]_vars => RInv'
<1> SUFFICES ASSUME IInv, RInv, InBatch', [Next]_vars PROVE RInv'
  OBVIOUS
<1>1. CASE BatchStart
  <2>1. CASE armed
    <3>1. Dimmed
      BY <1>1, <2>1 DEF BatchStart, relVars, Dimmed
    <3> QED
      BY <1>1, <3>1, DimmedStep DEF RInv, BatchStart, relVars, RunCoherent, ChunkOf
  <2>2. CASE ~armed
    <3>1. Dulled
      BY <1>1, <2>2, GenBumpDulls DEF BatchStart, IInv
    <3> QED
      BY <1>1, <3>1, DulledStep DEF RInv, BatchStart, relVars, RunCoherent, ChunkOf
  <2> QED
    BY <2>1, <2>2
<1>2. CASE BatchEnd \/ UNCHANGED vars
  <2>1. Dimmed
    BY <1>2 DEF BatchEnd, vars, cacheVars, relVars, Dimmed
  <2> QED
    BY <1>2, <2>1, DimmedStep DEF RInv, BatchEnd, vars, relVars, RunCoherent, ChunkOf
<1> QED
  BY <1>1, <1>2, ChassisCoherent, GuestCoherent, GlueCallCoherent, ChunkNestedCoherent,
     ChunkPublishCoherent DEF Next, RInv

\* A REL entry that would be hit runs what the loader would run now (a negative
\* one, that it would run nothing), of a module whose image is verified; and the
\* E4 gate's own chunk is never in the cache.  Left out, as in the property, are
\* the entries stored by a run in which the loader moved, and the positive ones
\* of a retail pc whose twin is the gate.
THEOREM RelEntriesCoherent == Spec => []RelEntryCoherent
<1>1. Init => RInv
  BY NoChunk DEF Init, RInv, RelEntryCoherent, ValidRel, RelMarked, RunCoherent, InBatch, EmptyEntry, Idle
<1>2. Init => InBatch /\ VerdictAgrees
  BY DEF Init, InBatch, VerdictAgrees, EmptyEntry
<1>3. Spec => [](InBatch /\ VerdictAgrees)
  BY <1>2, NextVerdict, SpecIInv, PTL DEF Spec
<1>4. Spec => []RInv
  BY <1>1, <1>3, NextCoherent, SpecIInv, PTL DEF Spec
<1>5. RInv => RelEntryCoherent
  BY DEF RInv
<1> QED
  BY <1>4, <1>5, PTL
=============================================================================
