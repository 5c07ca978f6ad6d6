---------------------------- MODULE MCSnapshots -----------------------------
(* One worker and three requests: enough for a request to be replaced by a *)
(* critical one, to time out, and to be answered late while a third waits  *)
(* for the channel, and for the map of captured memory to overflow.        *)
EXTENDS Supervisor

=============================================================================
