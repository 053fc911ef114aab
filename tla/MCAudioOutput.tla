--------------------------- MODULE MCAudioOutput ---------------------------
(* A ring of four frames, blocks of two, indices that wrap after eight.     *)
EXTENDS AudioOutput

CONSTANTS a, b

MCFrames == {a, b}
MCBlocks == {<<a, b>>, <<b, a>>}
=============================================================================
