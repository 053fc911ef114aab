---------------------------- MODULE ModDispatch ----------------------------
(***************************************************************************)
(* ModManager::Dispatch: return hooks, the stack of pending returns they   *)
(* keep, and the channel (VerdictOps, VerdictPcs) that tells the chassis   *)
(* which pcs changed their HandlesAddress verdict.                         *)
(*                                                                         *)
(* The guest is abstract: threads with call stacks, of which any may run   *)
(* next.  The frame at depth n of thread t has stack pointer <<t, n>>, and *)
(* a function is entered, and returned from, with its caller's stack       *)
(* pointer.  A hooked address is always dispatched; a return address is    *)
(* dispatched when HandlesAddress holds for it.                            *)
(***************************************************************************)
EXTENDS Integers, Sequences, SequencesExt

CONSTANTS
  Threads,      \* guest threads
  Hooked,       \* addresses carrying return hooks
  Plain,        \* function addresses carrying none
  Returns,      \* return addresses, the lr of a call
  PendCap,      \* the cap of pending_returns (4096)
  RingSlots,    \* the length of verdict_pcs (16)
  MaxDepth,     \* bound: the deepest call stack
  MaxVisits     \* bound: the number of calls

ASSUME ModAssumption ==
  /\ PendCap \in Nat \ {0} /\ RingSlots \in Nat \ {0}
  /\ MaxDepth \in Nat /\ MaxVisits \in Nat
  /\ Hooked \cap Plain = {} /\ Hooked \cap Returns = {}

VARIABLES
  pending,   \* pending_returns
  ring,      \* verdict_pcs[0 .. verdict_pcs_n)
  overflow,  \* verdict_pcs_overflow
  moved,     \* verdict_ops differs from what the chassis saw last
  begun,     \* runtime_started
  known,     \* chassis: the addresses it knows to be pending returns
  stack,     \* guest: the call stack of each thread
  atEntry,   \* guest: the top function of a thread has not left its entry
  visits,    \* history: the number of calls so far, which names each
  fired,     \* history: the calls whose return observers ran
  evicted,   \* history: the return events <<addr, sp>> whose entry the cap
             \* took, with none pushed for them since
  dropped,   \* history: the calls taken for a duplicate of another one
  disturbed  \* history: returns and pending_returns may be out of step

modVars   == <<pending, ring, overflow, moved, begun>>
guestVars == <<stack, atEntry, visits>>
histVars  == <<fired, evicted, dropped, disturbed>>
vars == <<modVars, known, guestVars, histVars>>

Funs   == Hooked \cup Plain
Visits == 1..MaxVisits
SPs    == Threads \X (0..MaxDepth)
Frame  == [fn: Funs, lr: Returns, visit: Visits]
Pend   == [addr: Returns, sp: SPs, visit: Visits]

TypeOK ==
  /\ pending \in Seq(Pend) /\ Len(pending) <= PendCap
  /\ ring \in Seq(Returns) /\ Len(ring) <= RingSlots
  /\ overflow \in BOOLEAN /\ moved \in BOOLEAN /\ begun \in BOOLEAN
  /\ known \subseteq Returns
  /\ stack \in [Threads -> Seq(Frame)]
  /\ atEntry \in [Threads -> BOOLEAN]
  /\ visits \in 0..MaxVisits
  /\ fired \subseteq Visits /\ evicted \subseteq Returns \X SPs /\ dropped \subseteq Visits
  /\ disturbed \in BOOLEAN

Init ==
  /\ pending = <<>> /\ ring = <<>> /\ overflow = FALSE /\ moved = FALSE
  /\ begun = FALSE /\ known = {}
  /\ stack = [t \in Threads |-> <<>>]
  /\ atEntry = [t \in Threads |-> FALSE] /\ visits = 0
  /\ fired = {} /\ evicted = {} /\ dropped = {} /\ disturbed = FALSE

PendAddrs == {pending[n].addr : n \in DOMAIN pending}
HandlesAddress(a) == a \in Hooked \cup PendAddrs

\* The stack pointer in the running function of a thread, and its caller's.
Sp(t)       == <<t, Len(stack[t])>>
CallerSp(t) == <<t, Len(stack[t]) - 1>>

-----------------------------------------------------------------------------
(* Dispatch at an address, with the guest's lr and r1, for a call.         *)

\* The top entry is this very return event.
Arrives(addr, sp) == /\ pending # <<>>
                     /\ Last(pending).addr = addr /\ Last(pending).sp = sp

\* Mutant of Popped: an entry is found by its address alone.
PoppedByAddr(addr, sp) == IF pending # <<>> /\ Last(pending).addr = addr
                            THEN Front(pending) ELSE pending
\* What is pending once a return event has taken its entry.
Popped(addr, sp) == IF Arrives(addr, sp) THEN Front(pending) ELSE pending

\* Mutants of Twin: no entry is looked for; or one for the address alone.
TwinNone(entries, lr, sp) == {}
TwinByAddr(entries, lr, sp) == {n \in DOMAIN entries : entries[n].addr = lr}

\* The entries for the pair: with one there, a push is taken for a repetition.
Twin(entries, lr, sp) ==
  {n \in DOMAIN entries : entries[n].addr = lr /\ entries[n].sp = sp}

\* The return event an entry waits for.
Event(entry) == <<entry.addr, entry.sp>>

Cut(s) == IF Len(s) > RingSlots THEN SubSeq(s, 1, RingSlots) ELSE s

\* RecordVerdictPc for each pc, and the flag runtime_start raises.
Record(pcs) ==
  /\ ring' = Cut(ring \o pcs)
  /\ overflow' = (overflow \/ ~begun \/ Len(ring) + Len(pcs) > RingSlots)

Dispatch(addr, lr, sp, visit) ==
  LET kept  == Popped(addr, sp)
      push  == addr \in Hooked /\ Twin(kept, lr, sp) = {}
      evict == push /\ Len(kept) >= PendCap
      room  == IF evict THEN Tail(kept) ELSE kept
      pcs   == (IF kept # pending THEN <<addr>> ELSE <<>>)
                 \o (IF evict THEN <<kept[1].addr>> ELSE <<>>)
                 \o (IF push THEN <<lr>> ELSE <<>>)
  IN /\ pending' = IF push THEN Append(room, [addr |-> lr, sp |-> sp, visit |-> visit])
                           ELSE room
     /\ Record(pcs)
     /\ moved' = (moved \/ ~begun \/ pcs # <<>>)
     /\ begun' = TRUE
     /\ fired' = IF kept # pending THEN fired \cup {Last(pending).visit} ELSE fired
     /\ evicted' = IF push THEN (evicted \cup (IF evict THEN {Event(kept[1])} ELSE {}))
                                  \ {<<lr, sp>>}
                           ELSE evicted
     /\ dropped' = IF addr \in Hooked /\ ~push
                        /\ \A n \in Twin(kept, lr, sp) : kept[n].visit # visit
                     THEN dropped \cup {visit} ELSE dropped

\* An address nothing handles is not dispatched.
NoDispatch == UNCHANGED <<modVars, fired, evicted, dropped>>

-----------------------------------------------------------------------------
(* The guest.                                                              *)

Enter(t, fn, lr, sp, visit) ==
  IF fn \in Hooked THEN Dispatch(fn, lr, sp, visit) ELSE NoDispatch

\* A call, which may push over another thread's pending return.
Call(t, fn, lr) ==
  /\ Len(stack[t]) < MaxDepth /\ visits < MaxVisits
  /\ visits' = visits + 1
  /\ Enter(t, fn, lr, Sp(t), visits + 1)
  /\ stack' = [stack EXCEPT ![t] = Append(@, [fn |-> fn, lr |-> lr, visit |-> visits + 1])]
  /\ atEntry' = [atEntry EXCEPT ![t] = TRUE]
  /\ disturbed' = (disturbed \/ evicted' # evicted
                    \/ (fn \in Hooked /\ pending # <<>> /\ Last(pending).sp[1] # t))
  /\ UNCHANGED known

\* The running function leaves by jumping to another with its lr and r1.
TailCall(t, fn) ==
  /\ stack[t] # <<>> /\ visits < MaxVisits
  /\ visits' = visits + 1
  /\ Enter(t, fn, Last(stack[t]).lr, CallerSp(t), visits + 1)
  /\ stack' = [stack EXCEPT ![t] =
                 Append(Front(@), [fn |-> fn, lr |-> Last(@).lr, visit |-> visits + 1])]
  /\ atEntry' = [atEntry EXCEPT ![t] = TRUE]
  /\ disturbed' = TRUE
  /\ UNCHANGED known

\* The same visit is dispatched again, with no guest progress in between.
Redispatch(t) ==
  /\ stack[t] # <<>> /\ atEntry[t]
  /\ LET f == Last(stack[t]) IN
       /\ f.fn \in Hooked
       /\ Dispatch(f.fn, f.lr, CallerSp(t), f.visit)
  /\ disturbed' = (disturbed \/ evicted' # evicted)
  /\ UNCHANGED <<known, guestVars>>

\* The running function returns to its lr with its caller's stack pointer.
Return(t) ==
  /\ stack[t] # <<>>
  /\ LET f == Last(stack[t]) IN
       IF HandlesAddress(f.lr) THEN Dispatch(f.lr, f.lr, CallerSp(t), f.visit)
                               ELSE NoDispatch
  /\ stack' = [stack EXCEPT ![t] = Front(@)]
  /\ atEntry' = [atEntry EXCEPT ![t] = FALSE]
  /\ UNCHANGED <<known, visits, disturbed>>

\* A longjmp or a diverted return leaves frames without returning from them.
Divert(t, n) ==
  /\ n < Len(stack[t])
  /\ stack' = [stack EXCEPT ![t] = SubSeq(@, 1, n)]
  /\ atEntry' = [atEntry EXCEPT ![t] = FALSE]
  /\ disturbed' = TRUE
  /\ NoDispatch
  /\ UNCHANGED <<known, visits>>

\* The running function reaches a return address without a return.
PassReturnSite(t, lr) ==
  /\ stack[t] # <<>> /\ HandlesAddress(lr)
  /\ Dispatch(lr, lr, Sp(t), Last(stack[t]).visit)
  /\ atEntry' = [atEntry EXCEPT ![t] = FALSE]
  /\ UNCHANGED <<known, stack, visits, disturbed>>

-----------------------------------------------------------------------------

\* Mutant of VerdictPcs: a short buffer takes what fits and drops the rest.
VerdictPcsShort(cap) ==
  /\ moved
  /\ LET n == IF cap < Len(ring) THEN cap ELSE Len(ring)
         told == IF overflow THEN Returns ELSE {ring[k] : k \in 1..n} IN
       known' = (known \ told) \cup (PendAddrs \cap told)
  /\ ring' = <<>> /\ overflow' = FALSE /\ moved' = FALSE
  /\ UNCHANGED <<pending, begun, guestVars, histVars>>

\* The chassis drains the ring into a buffer of some size: it asks again about
\* the pcs it gets, or about all when it gets none (a global epoch bump).
VerdictPcs(cap) ==
  /\ moved
  /\ LET told == IF overflow \/ cap < Len(ring) THEN Returns
                 ELSE {ring[n] : n \in DOMAIN ring} IN
       known' = (known \ told) \cup (PendAddrs \cap told)
  /\ ring' = <<>> /\ overflow' = FALSE /\ moved' = FALSE
  /\ UNCHANGED <<pending, begun, guestVars, histVars>>

Next ==
  \/ \E t \in Threads :
       \/ \E fn \in Funs : (\E lr \in Returns : Call(t, fn, lr)) \/ TailCall(t, fn)
       \/ Redispatch(t) \/ Return(t)
       \/ \E n \in 0..MaxDepth : Divert(t, n)
       \/ \E lr \in Returns : PassReturnSite(t, lr)
  \/ \E cap \in 0..RingSlots : VerdictPcs(cap)

Spec == Init /\ [][Next]_vars

-----------------------------------------------------------------------------
(* Properties.                                                             *)

\* The chassis's view is wrong only about pcs it will be told of: the channel
\* loses no change of a pending return, through push, pop, eviction and a full
\* ring, and verdict_ops says there is something to drain.
ChannelComplete ==
  \A a \in Returns : (a \in known) # (a \in PendAddrs) =>
    moved /\ (overflow \/ a \in {ring[n] : n \in DOMAIN ring})

\* The observers of a call run at most once: what is pending has not fired,
\* and no call is pending twice, whatever is dispatched again.
ObserversOnce ==
  \A m, n \in DOMAIN pending :
    /\ pending[m].visit \notin fired
    /\ m # n => pending[m].visit # pending[n].visit

\* A hooked call that is still on a stack has not had its observers run, and
\* its own return event is pending: by its own entry, or, if it was taken for a
\* duplicate, by the entry it was taken for.  Only the cap loses the event, of
\* the call or of that other entry, and another dispatch of it arms it again.
LiveCallsArmed ==
  \A t \in Threads : \A n \in DOMAIN stack[t] :
    LET f == stack[t][n] IN f.fn \in Hooked =>
      /\ f.visit \notin fired
      /\ \/ <<f.lr, <<t, n - 1>>>> \in evicted
         \/ \E k \in DOMAIN pending :
              /\ Event(pending[k]) = <<f.lr, <<t, n - 1>>>>
              /\ pending[k].visit = f.visit \/ f.visit \in dropped

\* While calls nest (one thread's hooked calls at a time, no tail call, no
\* frame left without a return, no eviction) a hooked call's return runs its
\* observers, and no other step runs any.
Left == {t \in Threads : Len(stack'[t]) < Len(stack[t])}
ReturnFires ==
  [][~disturbed' =>
       fired' = fired \cup {f.visit : f \in {Last(stack[t]) : t \in Left} \cap
                                          [fn: Hooked, lr: Returns, visit: Visits]}]_vars
=============================================================================
