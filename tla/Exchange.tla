------------------------------ MODULE Exchange ------------------------------
(***************************************************************************)
(* What the on-handlers of an XMLHttpRequest are told: one exchange at a   *)
(* time, its events once and in their order, from the readystatechange of  *)
(* open() to loadend; load if there is a response and error if there is    *)
(* none, unless abort() took the response away.                            *)
(***************************************************************************)
CONSTANT NOTHING

VARIABLES told,     \* the last event of the exchange, NOTHING before open()
          response  \* "none", "there", or "taken" by abort()

vars == <<told, response>>

Init == told = NOTHING /\ response = "none"

\* open() begins an exchange at any time.
Open == told' = "opened" /\ response' = "none"

\* Which event may follow which; a send() that is not asynchronous goes
\* straight to "done", abort() goes to "aborted" from anything in progress.
Follows ==
  [opened    |-> {"loadstart", "done"},
   loadstart |-> {"headers", "done", "aborted"},
   headers   |-> {"loading", "aborted"},
   loading   |-> {"progress", "aborted"},
   progress  |-> {"done", "aborted"},
   done      |-> {"load", "error"},
   aborted   |-> {"abort"},
   load      |-> {"loadend"},
   error     |-> {"loadend"},
   abort     |-> {"loadend"},
   loadend   |-> {}]

Tell ==
  /\ told # NOTHING
  /\ told' \in Follows[told]
  /\ told' = "load"  => response # "none"
  /\ told' = "error" => response # "there"
  /\ UNCHANGED response

Respond ==
  /\ told \in {"opened", "headers", "progress"}
  /\ response = "none" /\ response' = "there"
  /\ UNCHANGED told

Forget == response' \in {"none", "taken"} /\ UNCHANGED told

Next == Open \/ Tell \/ Respond \/ Forget

Spec == Init /\ [][Next]_vars
=============================================================================
