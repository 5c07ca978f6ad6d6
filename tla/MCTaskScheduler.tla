-------------------------- MODULE MCTaskScheduler --------------------------
(* TaskScheduler with two enqueued and one invoked entry, all reusable, a   *)
(* frame budget of 2 tasks and compaction after 1 consumed slot.            *)
EXTENDS TaskScheduler

CONSTANTS e1, e2, v1

MCTask == {e1, e2, v1}
MCInvoked == {v1}
=============================================================================
