------------------------------ MODULE SpscRing ------------------------------
(***************************************************************************)
(* SpscStereoRing: a lock-free ring of audio frames with one producer (the *)
(* emulation thread) and one consumer (the host audio callback).           *)
(*                                                                         *)
(* Push and Pop are taken apart at their accesses to shared state: the     *)
(* acquire load of the other side's index, each frame copied, the release  *)
(* store of the own index.  A frame (two samples) is copied in one step;   *)
(* NoDataRace says that no other thread can see it half done.  The indices *)
(* are free-running size_t counters; Wrap stands for 2^64.                 *)
(***************************************************************************)
EXTENDS Integers, Sequences

CONSTANTS Frames,     \* what a stereo frame may hold
          Capacity,   \* CapacityFrames
          Wrap,       \* the modulus of the free-running indices
          Blocks,     \* the blocks the producer may push
          MaxPop      \* the most frames the consumer may ask for

ASSUME RingAssumption ==
  /\ Capacity \in Nat \ {0} /\ MaxPop \in Nat
  /\ Wrap \in Nat /\ Wrap % Capacity = 0 /\ Wrap > Capacity
  /\ Blocks \subseteq Seq(Frames)

VARIABLES
  write,   \* m_write
  read,    \* m_read
  slot,    \* m_samples, a frame to a slot
  push,    \* Push: where it is, its block, its count, the frames copied
  pop,     \* Pop: where it is, its count, the frames copied to dst
  out      \* dst as the last completed Pop left it

producerVars == <<write, slot, push>>
consumerVars == <<read, pop, out>>
ringVars == <<producerVars, consumerVars>>

RingTypeOK ==
  /\ write \in 0..Wrap-1 /\ read \in 0..Wrap-1
  /\ slot \in [0..Capacity-1 -> Frames]
  /\ push \in [at: {"idle", "copy"}, block: Blocks \cup {<<>>}, count: Nat, i: Nat]
  /\ push.count <= Len(push.block) /\ push.i <= push.count
  /\ pop \in [at: {"idle", "copy"}, count: 0..MaxPop, dst: Seq(Frames)]
  /\ Len(pop.dst) <= pop.count
  /\ out \in Seq(Frames)

RingInit ==
  /\ write = 0 /\ read = 0
  /\ \E f \in Frames : slot = [n \in 0..Capacity-1 |-> f]   \* m_samples{}
  /\ push = [at |-> "idle", block |-> <<>>, count |-> 0, i |-> 0]
  /\ pop = [at |-> "idle", count |-> 0, dst |-> <<>>]
  /\ out = <<>>

Least(a, b) == IF a < b THEN a ELSE b
Index(n) == n % Capacity                       \* the mask
StoredFrames == (write - read) % Wrap          \* unsigned subtraction

-----------------------------------------------------------------------------

\* Mutant of PushLoad: the free space is one frame too large.
PushLoadOverfull(block) ==
  /\ push.at = "idle"
  /\ push' = [at |-> "copy", block |-> block, i |-> 0,
              count |-> Least(Len(block), Capacity + 1 - StoredFrames)]
  /\ UNCHANGED <<write, slot, consumerVars>>

PushLoad(block) ==
  /\ push.at = "idle"
  /\ push' = [at |-> "copy", block |-> block, i |-> 0,
              count |-> Least(Len(block), Capacity - StoredFrames)]
  /\ UNCHANGED <<write, slot, consumerVars>>

PushCopy ==
  /\ push.at = "copy" /\ push.i < push.count
  /\ slot' = [slot EXCEPT ![Index(write + push.i)] = push.block[push.i + 1]]
  /\ push' = [push EXCEPT !.i = @ + 1]
  /\ UNCHANGED <<write, consumerVars>>

\* Mutant of PushCommit: a block that does not fit whole waits for room.
PushCommitWhole ==
  /\ push.at = "copy" /\ push.i = push.count
  /\ push.count = Len(push.block)
  /\ write' = (write + push.count) % Wrap
  /\ push' = [push EXCEPT !.at = "idle"]
  /\ UNCHANGED <<slot, consumerVars>>

\* The release store; count is returned.
PushCommit ==
  /\ push.at = "copy" /\ push.i = push.count
  /\ write' = (write + push.count) % Wrap
  /\ push' = [push EXCEPT !.at = "idle"]
  /\ UNCHANGED <<slot, consumerVars>>

PopLoad(max) ==
  /\ pop.at = "idle"
  /\ pop' = [at |-> "copy", count |-> Least(max, StoredFrames), dst |-> <<>>]
  /\ UNCHANGED <<read, out, producerVars>>

\* Mutant of PopCopy: the copy starts one frame late.
PopCopyLate ==
  /\ pop.at = "copy" /\ Len(pop.dst) < pop.count
  /\ pop' = [pop EXCEPT !.dst = Append(@, slot[Index(read + Len(@) + 1)])]
  /\ UNCHANGED <<read, out, producerVars>>

PopCopy ==
  /\ pop.at = "copy" /\ Len(pop.dst) < pop.count
  /\ pop' = [pop EXCEPT !.dst = Append(@, slot[Index(read + Len(@))])]
  /\ UNCHANGED <<read, out, producerVars>>

PopCommit ==
  /\ pop.at = "copy" /\ Len(pop.dst) = pop.count
  /\ read' = (read + pop.count) % Wrap
  /\ pop' = [pop EXCEPT !.at = "idle"]
  /\ out' = pop.dst
  /\ UNCHANGED producerVars

-----------------------------------------------------------------------------

\* The slots a side may touch until it stores its index.
Writing == IF push.at = "copy" THEN {Index(write + n) : n \in push.i..push.count-1} ELSE {}
Reading == IF pop.at = "copy" THEN {Index(read + n) : n \in Len(pop.dst)..pop.count-1} ELSE {}

\* The producer never writes a slot the consumer is about to read: m_samples
\* is plain memory, so an overlap would be a data race.
NoDataRace == Writing \cap Reading = {}

\* The stored frames, oldest first.
Queue == [n \in 1..StoredFrames |-> slot[Index(read + n - 1)]]
=============================================================================
