------------------------------- MODULE MCFat -------------------------------
(* Fat on small volumes: two slots to a cluster, two entries to a sector of *)
(* the FAT.                                                                 *)
EXTENDS Fat
=============================================================================
