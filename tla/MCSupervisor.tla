---------------------------- MODULE MCSupervisor ----------------------------
(* Three workers: a reload, and a signal that races the second one. One    *)
(* snapshot per session keeps the channel in play.                         *)
EXTENDS Supervisor

=============================================================================
