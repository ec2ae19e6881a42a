---------------------------- MODULE MCRingBuffer ----------------------------
(* Instances of RingBuffer for TLC: a ring of Size cells, '\0', '\n' and two more bytes.  *)
EXTENDS RingBuffer, TLC

\* The letters are interchangeable where no liveness is checked.
Symmetric == Permutations(Byte \ {Nul, LineFeed})
=============================================================================
