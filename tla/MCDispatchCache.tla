-------------------------- MODULE MCDispatchCache --------------------------
(* One set, for which more pcs compete than it has ways.                    *)
EXTENDS DispatchCache

CONSTANTS d, c, l, l2, r, set

MCSetOf     == [p \in Pcs |-> set]
MCAliasOf   == [p \in Pcs |-> NoPc]

\* The guests of the run dispatch_cache, three pcs for two ways: a plain DOL pc,
\* a case-list DOL pc and a linked pc; a DOL pc, a linked pc and its retail pc;
\* the same with l2, the E4 gate's; both linked pcs and the retail pc they trade.
Games == {{d, c, l}, {d, l, r}, {d, l2, r}, {l, l2, r}}

\* Nothing outside g is accepted, linked, cached, remembered or running.
Within(g) ==
  /\ native \subseteq g /\ active \subseteq g
  /\ seen[set] \in g \cup {NoPc}
  /\ \A w \in Ways : /\ dcache[set][w].pc \in g \cup {NoPc}
                     /\ dcache[set][w].may => g \cap ClaimPcs # {}
  /\ run.kind = "miss" => {run.pc, run.chunk, run.inner} \subseteq g \cup {NoPc}
  /\ \A p \in RetailPcs \ g : twin[p] = NoPc

\* The bound of that run: one guest at a time.
OneGame == \E g \in Games : Within(g)
=============================================================================
