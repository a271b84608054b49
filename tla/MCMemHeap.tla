------------------------------ MODULE MCMemHeap -------------------------------
(* MemHeap with a heap in which four of the smallest areas have room.       *)
EXTENDS MemHeap

MCSizes == {1, 2, 3, 6}
=============================================================================
