------------------------------- MODULE MCHeap -------------------------------
EXTENDS Heap

MCPages == 1..6
=============================================================================
