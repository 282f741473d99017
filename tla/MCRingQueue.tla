---------------------------- MODULE MCRingQueue ----------------------------
(* A small instance of RingQueue for TLC. *)
EXTENDS RingQueue, TLC

CONSTANTS e1, e2, e3

MCElements == {e1, e2, e3}
Alike == Permutations(MCElements)
=============================================================================
