---------------------------- MODULE MCHostRequests ----------------------------
(* One request, opened or aborted three times, also from inside its handlers. *)
EXTENDS HostRequests
=============================================================================
