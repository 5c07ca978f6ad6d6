---------------------------- MODULE MCFrameLoop ----------------------------
(* FrameLoop with two animation callbacks and one ordinary entry that is    *)
(* enqueued again and again.                                                *)
EXTENDS FrameLoop

CONSTANTS e1, r1, r2

MCTask == {e1, r1, r2, Services}
MCRaf == {r1, r2}
MCInvoked == MCRaf \cup {Services}
=============================================================================
