-------------------------- MODULE MCLegacyRuntime --------------------------
(* Delays in the order of the code's: a disc transfer, the first block, a   *)
(* sample, a DMA period.  One program streams audio and unmasks everything  *)
(* or nothing; the other plays buffers of two lengths while the disc works, *)
(* with interrupts masked.                                                  *)
EXTENDS LegacyRuntime

CONSTANTS b1, b2

Player == [uses |-> {"ai", "dma"}, masks |-> {{}, Lines}, bases |-> {b1},
           blocks |-> {1}, charges |-> {1, 3}]
Loader == [uses |-> {"di", "dma"}, masks |-> {{}}, bases |-> {b1, b2},
           blocks |-> {0, 2}, charges |-> {3}]
MCPrograms == {Player, Loader}
MCBases  == {b1, b2}
=============================================================================
