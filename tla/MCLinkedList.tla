---------------------------- MODULE MCLinkedList ----------------------------
(* Instances of LinkedList for TLC.                                        *)
EXTENDS LinkedList

CONSTANTS n1, n2, n3, n4

FourNodes == {n1, n2, n3, n4}
=============================================================================
