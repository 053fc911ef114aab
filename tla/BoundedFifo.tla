---------------------------- MODULE BoundedFifo ----------------------------
(***************************************************************************)
(* What the audio path promises between the emulation thread and the host  *)
(* callback: a bounded queue of frames.  A block is queued from its first  *)
(* frame on, as many frames as fit, and frames leave in the order they     *)
(* came, each once.                                                        *)
(***************************************************************************)
EXTENDS Naturals, Sequences

CONSTANTS Frames,     \* what a stereo frame may hold
          Capacity,   \* the most frames the queue holds
          Blocks,     \* the blocks the emulation thread may offer
          MaxPop      \* the most frames the callback asks for

VARIABLES queue,   \* the frames stored, oldest first
          out      \* the frames the callback took last

Init == queue = <<>> /\ out = <<>>

\* A prefix of the block is stored; the rest is dropped.
Put == \E block \in Blocks : \E k \in 1..Len(block) :
         /\ Len(queue) + k <= Capacity
         /\ queue' = queue \o SubSeq(block, 1, k)
         /\ UNCHANGED out

\* The oldest frames leave.
Take == \E k \in 0..MaxPop :
          /\ k <= Len(queue)
          /\ out' = SubSeq(queue, 1, k)
          /\ queue' = SubSeq(queue, k + 1, Len(queue))

Next == Put \/ Take

Spec == Init /\ [][Next]_<<queue, out>>
=============================================================================
