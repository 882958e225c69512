---------------------------- MODULE MCCycleBuffer ----------------------------
(***************************************************************************)
(* Instance of CycleBuffer for TLC: messages of up to three bytes in a     *)
(* ring that starts with two.                                              *)
(***************************************************************************)
EXTENDS CycleBuffer, SequencesExt

CONSTANT MaxChunk  \* longest message

MCChunks == BoundedSeq(Byte, MaxChunk)
MCLengths == 0 .. MaxChunk
Symmetry == Permutations(Threads) \cup Permutations(Byte)
=============================================================================
