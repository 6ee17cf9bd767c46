------------------------------- MODULE MCPmm -------------------------------
(* Pmm on seven frames, one of them unusable, with runs of up to 3 pages.   *)
EXTENDS Pmm

MCUsable == {1, 2, 3, 5, 6}
=============================================================================
