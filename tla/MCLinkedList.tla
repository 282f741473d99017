---------------------------- MODULE MCLinkedList ----------------------------
(* A small instance of LinkedList for TLC. *)
EXTENDS LinkedList, TLC

CONSTANTS n1, n2, n3, n4, n5, t1, t2, t3

MCNodes == {n1, n2, n3, n4, n5}
MCThings == {t1, t2, t3}
Alike == Permutations(MCNodes) \cup Permutations(MCThings)
=============================================================================
