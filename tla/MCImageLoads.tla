---------------------------- MODULE MCImageLoads ----------------------------
(* Two elements that assign src twice between them, one file, one object  *)
(* URL and two slots: loads of one file that share a job, that a newer     *)
(* src overtakes, and that find the store full.                            *)
EXTENDS ImageLoads
=============================================================================
