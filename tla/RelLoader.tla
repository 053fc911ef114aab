----------------------------- MODULE RelLoader -----------------------------
(***************************************************************************)
(* Links of relocatable modules (rel_loader.c): the guest's module queue,  *)
(* the loader's table of linked modules, and the two images of a module.   *)
(* R is the file where the game loaded it, L the addresses its compiled    *)
(* code is bound to: the loader mirrors R's data to L, where the game's    *)
(* heap may overwrite it.  A module starts only on data the loader checked.*)
(*                                                                         *)
(* Of L's data the loader compares the first bytes of each section; a      *)
(* module here has one data section, in two parts.  Code sections and bss  *)
(* are left out, and each module has its own windows.                      *)
(***************************************************************************)
EXTENDS Naturals, Sequences, FiniteSets

CONSTANTS
  Mods,     \* modules; a module is named by its header too
  Touched,  \* bound: the modules whose data the game writes after the link
  Nil,      \* no module
  MaxNest   \* bound: chunks running within each other

ASSUME LoaderAssumption ==
  /\ Nil \notin Mods /\ IsFiniteSet(Mods) /\ Touched \subseteq Mods
  /\ MaxNest \in Nat

VARIABLES
  next, prev,   \* the queue links of the headers, in guest memory
  head, tail,   \* REL_LOADER_QUEUE_HEAD, REL_LOADER_QUEUE_TAIL
  table,        \* s_active
  dirty,        \* modules whose l_dirty is set
  lagging,      \* modules whose l_gen is not s_heap_gen
  covered,      \* the modules the journal's bounds and mask were built from
  sig,          \* s_qsig_head, s_qsig_tail
  limg,         \* what the parts of L's data hold, see Words
  chunks,       \* the running chunks, inner last; g_rel_in_chunk is set when
                \* there is one
  unseen,       \* history: a restore changed the queue unnoticed
  unchecked     \* history: modules a restore registered, or left registered,
                \* and whose L was not written since

queueVars == <<next, prev, head, tail>>
tableVars == <<table, dirty, lagging, covered, sig>>
vars == <<queueVars, tableVars, limg, chunks, unseen, unchecked>>

Parts == {"first", "rest"}

\* A part of L's data equals R's, or lacks what a later link wrote to R, or
\* what a store wrote to R; or was written by module code, by other guest code,
\* or by the heap's fill; or was zeroed.
Words == {"R", "unpatched", "missed", "live", "store", "fill", "zero"}

All(w) == [p \in Parts |-> w]

\* The queue as the loader walks it: what the head and the links from it lead to,
\* the least set that holds the head and with a module the next one.
Queue ==
  {m \in Mods : \A S \in SUBSET Mods :
     head \in S \cup {Nil} /\ (\A k \in S : next[k] \in S \cup {Nil}) => m \in S}

TypeOK ==
  /\ next \in [Mods -> Mods \cup {Nil}] /\ prev \in [Mods -> Mods \cup {Nil}]
  /\ head \in Mods \cup {Nil} /\ tail \in Mods \cup {Nil}
  /\ table \subseteq Mods /\ dirty \subseteq table /\ lagging \subseteq table
  /\ covered \subseteq Mods
  /\ sig \in (Mods \cup {Nil}) \X (Mods \cup {Nil})
  /\ limg \in [Mods -> [Parts -> Words]]
  /\ chunks \in Seq(Mods) /\ Len(chunks) <= MaxNest
  /\ unseen \in BOOLEAN /\ unchecked \subseteq Mods

Init ==
  /\ next = [m \in Mods |-> Nil] /\ prev = [m \in Mods |-> Nil]
  /\ head = Nil /\ tail = Nil
  /\ table = {} /\ dirty = {} /\ lagging = {} /\ covered = {}
  /\ sig = <<Nil, Nil>>
  /\ limg = [m \in Mods |-> All("zero")]
  /\ chunks = <<>>
  /\ unseen = FALSE /\ unchecked = {}

-----------------------------------------------------------------------------
(* The table and what is derived from it.                                  *)

\* Mutant of Covering: the bounds are kept when the table changes.
CoveringOld(t) == covered' = covered

Covering(t) == covered' = t

NoteQueueChange == sig' = <<head', tail'>>

Register(m) ==
  /\ table' = table \cup {m}
  /\ dirty' = dirty \ {m}
  /\ lagging' = lagging \ {m}

\* Mutant of Remove: the last entry moves into the free slot without its flags.
RemoveEntry(m) ==
  /\ table' = table \ {m} /\ dirty' = dirty /\ lagging' = lagging

\* The last entry moves into the free slot.
Remove(m) ==
  /\ table' = table \ {m} /\ dirty' = dirty \ {m} /\ lagging' = lagging \ {m}

-----------------------------------------------------------------------------
(* OSLink, OSUnlink, __OSModuleInit.                                       *)

Enqueue(m) ==
  /\ prev' = [prev EXCEPT ![m] = tail]
  /\ next' = [[next EXCEPT ![m] = Nil] EXCEPT ![tail] = m]
  /\ head' = IF tail = Nil THEN m ELSE head
  /\ tail' = m

\* Mutant of Dequeue: the last module's removal leaves the tail.
DequeueTailKept(m) ==
  /\ prev' = [[prev EXCEPT ![next[m]] = prev[m]] EXCEPT ![m] = Nil]
  /\ next' = [[next EXCEPT ![prev[m]] = next[m]] EXCEPT ![m] = Nil]
  /\ tail' = tail
  /\ head' = IF prev[m] = Nil THEN next[m] ELSE head

\* The game frees the header of the module with it.
Dequeue(m) ==
  /\ prev' = [[prev EXCEPT ![next[m]] = prev[m]] EXCEPT ![m] = Nil]
  /\ next' = [[next EXCEPT ![prev[m]] = next[m]] EXCEPT ![m] = Nil]
  /\ tail' = IF next[m] = Nil THEN prev[m] ELSE tail
  /\ head' = IF prev[m] = Nil THEN next[m] ELSE head

\* Relocating the queued modules that import the new one writes their R only.
Patched(importers, part) ==
  [k \in Mods |-> IF k \in importers /\ limg[k][part] = "R"
                  THEN [limg[k] EXCEPT ![part] = "unpatched"] ELSE limg[k]]

\* A link the descriptor, the version or a live create request in the window
\* forbids is refused and changes nothing.
Link(m, importers, part) ==
  /\ m \notin Queue
  /\ importers \subseteq Queue
  /\ Enqueue(m)
  /\ limg' = [Patched(importers, part) EXCEPT ![m] = All("R")]
  /\ Register(m)
  /\ Covering(table')
  /\ NoteQueueChange
  /\ unchecked' = unchecked \ {m}
  /\ UNCHANGED <<chunks, unseen>>

\* The game does not unlink a module whose code is running.
Unlink(m) ==
  /\ m \in Queue
  /\ \A i \in DOMAIN chunks : chunks[i] # m
  /\ Dequeue(m)
  /\ Remove(m)
  /\ limg' = IF m \in table THEN [limg EXCEPT ![m] = All("zero")] ELSE limg
  /\ Covering(table')
  /\ NoteQueueChange
  /\ unchecked' = unchecked \ {m}
  /\ UNCHANGED <<chunks, unseen>>

ModuleInit ==
  /\ chunks = <<>>
  /\ head' = Nil /\ tail' = Nil
  /\ next' = [m \in Mods |-> Nil] /\ prev' = [m \in Mods |-> Nil]
  /\ table' = {} /\ dirty' = {} /\ lagging' = {}
  /\ Covering({})
  /\ sig' = <<Nil, Nil>>
  /\ unseen' = FALSE /\ unchecked' = {}
  /\ UNCHANGED <<limg, chunks>>

-----------------------------------------------------------------------------
(* Allocations and stores.                                                 *)

GenerationBump == lagging' = table

\* JKRExpHeap::do_alloc may land on a window, and fills it unseen.
Alloc(m, parts) ==
  /\ limg' = [limg EXCEPT ![m] = [p \in Parts |-> IF p \in parts THEN "fill" ELSE @[p]]]
  /\ GenerationBump
  /\ UNCHANGED <<queueVars, table, dirty, covered, sig, chunks, unseen, unchecked>>

\* The journal looks at a store into m's data.
Journaled(m) == m \in table \cap covered

\* A store to R's data is mirrored.
StoreR(m, p) ==
  /\ m \in Queue
  /\ limg' = IF Journaled(m) \/ limg[m][p] # "R" THEN limg
             ELSE [limg EXCEPT ![m][p] = "missed"]
  /\ UNCHANGED <<queueVars, tableVars, chunks, unseen, unchecked>>

\* A store to L's data by module code is its own; any other marks it.
StoreL(m, p) ==
  /\ m \in Queue
  /\ limg' = [limg EXCEPT ![m][p] = IF chunks = <<>> THEN "store" ELSE "live"]
  /\ dirty' = IF chunks = <<>> /\ Journaled(m) THEN dirty \cup {m} ELSE dirty
  /\ UNCHANGED <<queueVars, table, lagging, covered, sig, chunks, unseen, unchecked>>

-----------------------------------------------------------------------------
(* Chunks.                                                                 *)

Refreshed(m) == [limg EXCEPT ![m] = All("R")]

DataMismatch(m) == limg[m]["first"] # "R"

MustRefresh(m) == m \in dirty \/ (m \in lagging /\ DataMismatch(m))

\* The guest calls code of a linked module at its L address.
Run(m) ==
  /\ Len(chunks) < MaxNest /\ m \in Queue
  /\ limg' = IF m \in table /\ MustRefresh(m) THEN Refreshed(m) ELSE limg
  /\ unchecked' = IF m \in table /\ MustRefresh(m) THEN unchecked \ {m} ELSE unchecked
  /\ dirty' = IF MustRefresh(m) THEN dirty \ {m} ELSE dirty
  /\ lagging' = lagging \ {m}
  /\ chunks' = Append(chunks, m)
  /\ UNCHANGED <<queueVars, table, covered, sig, unseen>>

\* The guest calls it at its R address: nothing is checked.
RunRetail(m) ==
  /\ Len(chunks) < MaxNest /\ m \in Queue \cap table
  /\ chunks' = Append(chunks, m)
  /\ UNCHANGED <<queueVars, tableVars, limg, unseen, unchecked>>

Return ==
  /\ chunks # <<>>
  /\ chunks' = SubSeq(chunks, 1, Len(chunks) - 1)
  /\ UNCHANGED <<queueVars, tableVars, limg, unseen, unchecked>>

\* ModuleConstructorsX, ModuleDestructorsX: the table they walk is made R's.
Tables(m) ==
  /\ m \in Queue \cap table
  /\ limg' = Refreshed(m)
  /\ unchecked' = unchecked \ {m}
  /\ UNCHANGED <<queueVars, tableVars, chunks, unseen>>

-----------------------------------------------------------------------------
(* A state restore replaces guest memory; the table is the host's.         *)

Diverged == <<head', tail'>> # sig \/ (table = {} /\ head' # Nil)

RebuildActive(nodes) ==
  /\ table' = nodes /\ dirty' = {} /\ lagging' = {}
  /\ Covering(nodes)
  /\ sig' = <<head', tail'>>
  /\ unseen' = FALSE

\* q is the restored queue, w what the restored L images hold.
Restore(q, w) ==
  LET nodes == {q[i] : i \in DOMAIN q}
      at(m) == CHOOSE i \in DOMAIN q : q[i] = m IN
  /\ chunks = <<>>
  /\ head' = IF q = <<>> THEN Nil ELSE q[1]
  /\ tail' = IF q = <<>> THEN Nil ELSE q[Len(q)]
  /\ next' = [m \in Mods |-> IF m \in nodes /\ m # q[Len(q)] THEN q[at(m) + 1] ELSE Nil]
  /\ prev' = [m \in Mods |-> IF m \in nodes /\ m # q[1] THEN q[at(m) - 1] ELSE Nil]
  /\ limg' = [m \in Mods |-> All(CASE m \notin nodes -> "zero"
                                   [] m \in nodes \cap Touched -> w
                                   [] OTHER -> "R")]
  /\ \/ Diverged /\ RebuildActive(nodes)
     \/ ~Diverged /\ unseen' = (unseen \/ nodes # table) /\ UNCHANGED tableVars
  /\ unchecked' = nodes
  /\ UNCHANGED chunks

Queues == {q \in UNION {[1 .. n -> Mods] : n \in 0 .. Cardinality(Mods)} :
             \A i, j \in DOMAIN q : q[i] = q[j] => i = j}

Next ==
  \/ \E m \in Mods :
       \/ \E importers \in SUBSET (Queue \cap Touched), p \in Parts : Link(m, importers, p)
       \/ Unlink(m) \/ Run(m) \/ RunRetail(m) \/ Tables(m)
  \/ \E m \in Touched :
       \/ \E parts \in SUBSET Parts : Alloc(m, parts)
       \/ \E p \in Parts : StoreR(m, p) \/ StoreL(m, p)
  \/ Return \/ ModuleInit
  \/ \E q \in Queues, w \in {"R", "live", "fill"} : Restore(q, w)

Spec == Init /\ [][Next]_vars

-----------------------------------------------------------------------------
(* Properties.                                                             *)

\* However modules are linked and unlinked, the queue stays a doubly linked
\* list, and unless a restore changed it unnoticed the table has its modules.
TableIsQueue ==
  /\ \A m \in Queue : /\ (IF next[m] = Nil THEN tail ELSE prev[next[m]]) = m
                      /\ (IF prev[m] = Nil THEN head ELSE next[prev[m]]) = m
  /\ head = Nil <=> tail = Nil
  /\ table = Queue \/ unseen

\* What other guest code or the heap wrote over a module's data is still going
\* to be noticed before its code starts at L again, and no store to R is
\* missing in L; unless the image came from a restore unchecked.
OverwritesPending ==
  \A m \in table \ unchecked :
    /\ "store" \in {limg[m][p] : p \in Parts} => m \in dirty
    /\ limg[m]["first"] = "fill" => m \in dirty \cup lagging
    /\ "missed" \notin {limg[m][p] : p \in Parts}
=============================================================================
