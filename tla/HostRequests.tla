---------------------------- MODULE HostRequests ----------------------------
(***************************************************************************)
(* XMLHttpRequest of the guest (js/pmjs-web/requests.js).  open() and an   *)
(* abort() of a request in progress begin a new generation; send() starts  *)
(* a chain of tasks for its generation, and each of its steps first looks  *)
(* whether that is still the current one.                                  *)
(*                                                                         *)
(* A handler of an event may itself call open(), send() and abort(), so    *)
(* the calls under way form a stack; the tasks of a chain run when it is   *)
(* empty.  Two receivers stand for those of an event: the on-handler and a *)
(* listener.  _emit() checks the generation between the two, open() does   *)
(* not, and a chain tells each of them in a task of its own.               *)
(***************************************************************************)
EXTENDS Integers, Sequences

CONSTANTS
  MaxGeneration,  \* bound: how often the request is opened or aborted
  MaxDepth,       \* bound: calls and handlers inside one another
  NOTHING         \* no event was told

\* What the receivers are told: the states of readystatechange, by name, and
\* the other events.
Events == {"opened", "headers", "loading", "done", "aborted",
           "loadstart", "progress", "load", "error", "abort", "loadend"}

ASSUME RequestAssumption ==
  MaxGeneration \in Nat \ {0} /\ MaxDepth \in Nat \ {0} /\ NOTHING \notin Events

VARIABLES
  readyState,  \* 0 UNSENT .. 4 DONE
  sent,        \* _sent
  generation,  \* _requestGeneration
  response,    \* the generation whose contents response, responseText hold, 0 for none
  stack,       \* calls and handlers, the innermost first
  chain,       \* per generation: what its asynchronous send() does next
  stopped,     \* of the dispatcher
  \* history for the properties
  told,        \* the last event the on-handler was told
  taken        \* abort() took the response of the current generation away

vars == <<readyState, sent, generation, response, stack, chain, stopped, told, taken>>

Generations == 0..MaxGeneration
Receivers == <<"on", "listener">>

\* An event to be told to both receivers.
Both(event) == [i \in 1..2 |-> [event |-> event, to |-> Receivers[i]]]

\* A call: what it still has to tell, whether only while its generation is
\* current, and what it does at the end.
Call(name, gen, checked, events) ==
  [call |-> name, generation |-> gen, checked |-> checked, pending |-> events]
Handler(tell) == [call |-> "handler", generation |-> generation, checked |-> FALSE,
                  pending |-> <<tell>>]

NoChain == [at |-> "none", found |-> FALSE, pending |-> <<>>]

Init ==
  /\ readyState = 0 /\ sent = FALSE /\ generation = 0 /\ response = 0
  /\ stack = <<>>
  /\ chain = [g \in Generations |-> NoChain]
  /\ stopped = FALSE
  /\ told = NOTHING /\ taken = FALSE

Current(g) == generation = g

(***************************************************************************)
(* The guest, in a task of its own or in a handler.                        *)
(***************************************************************************)

GuestRuns == /\ IF stack = <<>> THEN ~stopped ELSE Head(stack).call = "handler"
             /\ Len(stack) < MaxDepth
Enter(frame) == stack' = <<frame>> \o stack

Open ==
  /\ GuestRuns
  /\ generation < MaxGeneration
  /\ generation' = generation + 1
  /\ sent' = FALSE /\ response' = 0 /\ readyState' = 1 /\ taken' = FALSE
  /\ Enter(Call("open", generation + 1, FALSE, Both("opened")))
  /\ UNCHANGED <<chain, stopped, told>>

\* abort() of a request that was not sent, or is done, only resets it.
Abort ==
  /\ GuestRuns
  /\ response' = 0
  /\ \/ /\ sent
        /\ generation < MaxGeneration
        /\ generation' = generation + 1
        /\ sent' = FALSE /\ readyState' = 4 /\ taken' = FALSE
        /\ Enter(Call("abort", generation + 1, TRUE,
                      Both("aborted") \o Both("abort") \o Both("loadend")))
     \/ /\ ~sent
        /\ readyState' = IF readyState = 4 THEN 0 ELSE readyState
        /\ taken' = (taken \/ readyState = 4)
        /\ UNCHANGED <<sent, generation, stack>>
  /\ UNCHANGED <<chain, stopped, told>>

MaySend == GuestRuns /\ readyState = 1 /\ ~sent

SendNow ==
  /\ MaySend
  /\ \E found \in BOOLEAN :
       /\ response' = IF found THEN generation ELSE response
       /\ Enter(Call("send", generation, TRUE,
                     Both("done") \o Both(IF found THEN "load" ELSE "error")
                       \o Both("loadend")))
  /\ readyState' = 4
  /\ UNCHANGED <<sent, generation, chain, stopped, told, taken>>

SendLater ==
  /\ MaySend
  /\ sent' = TRUE
  /\ Enter(Call("sendLater", generation, TRUE, Both("loadstart")))
  /\ UNCHANGED <<readyState, generation, response, chain, stopped, told, taken>>

Returns ==
  /\ stack # <<>> /\ Head(stack).call = "handler"
  /\ stack' = Tail(stack)
  /\ UNCHANGED <<readyState, sent, generation, response, chain, stopped, told, taken>>

Stop ==
  /\ GuestRuns
  /\ stopped' = TRUE
  /\ UNCHANGED <<readyState, sent, generation, response, stack, chain, told, taken>>

(***************************************************************************)
(* The calls go on after a handler returned.                               *)
(***************************************************************************)

Inside == stack # <<>> /\ Head(stack).call # "handler"
Valid(frame) == frame.checked => Current(frame.generation)

Tells(tell) == told' = IF tell.to = "on" THEN tell.event ELSE told

\* Mutant of Emits: the generation is not looked at between two events.
EmitsAlways ==
  /\ Inside
  /\ LET frame == Head(stack)
     IN  /\ frame.pending # <<>>
         /\ stack' = <<Handler(Head(frame.pending)), [frame EXCEPT !.pending = Tail(@)]>>
                       \o Tail(stack)
         /\ Tells(Head(frame.pending))
  /\ UNCHANGED <<readyState, sent, generation, response, chain, stopped, taken>>
Emits ==
  /\ Inside
  /\ LET frame == Head(stack)
     IN  /\ frame.pending # <<>> /\ Valid(frame)
         /\ stack' = <<Handler(Head(frame.pending)), [frame EXCEPT !.pending = Tail(@)]>>
                       \o Tail(stack)
         /\ Tells(Head(frame.pending))
  /\ UNCHANGED <<readyState, sent, generation, response, chain, stopped, taken>>

\* The end of a call: abort() leaves the request unsent, an asynchronous
\* send() enqueues its task (which a stopped dispatcher refuses).
Leaves ==
  /\ Inside
  /\ LET frame == Head(stack)
     IN  /\ frame.pending = <<>> \/ ~Valid(frame)
         /\ readyState' = IF frame.call = "abort" /\ Valid(frame) THEN 0 ELSE readyState
         /\ chain' = IF frame.call = "sendLater" /\ Valid(frame) /\ ~stopped
                     THEN [chain EXCEPT ![frame.generation].at = "queued"]
                     ELSE chain
  /\ stack' = Tail(stack)
  /\ UNCHANGED <<sent, generation, response, stopped, told, taken>>

(***************************************************************************)
(* The chain of an asynchronous send().                                    *)
(***************************************************************************)

TaskRuns == stack = <<>> /\ ~stopped
To(g, at) == chain' = [chain EXCEPT ![g].at = at]

Starts(g) ==
  /\ TaskRuns /\ chain[g].at = "queued"
  /\ To(g, IF Current(g) THEN "reading" ELSE "none")
  /\ UNCHANGED <<readyState, sent, generation, response, stack, stopped, told, taken>>

\* Mutant of ReadEnds: a read that fails is not reported.
ReadEndsSilently(g) ==
  /\ TaskRuns /\ chain[g].at \in {"reading", "fallback"}
  /\ \/ chain' = [chain EXCEPT ![g].at = "headers", ![g].found = TRUE]
     \/ To(g, "done")
     \/ To(g, "failed")
     \/ chain' = [chain EXCEPT ![g] = NoChain]
  /\ UNCHANGED <<readyState, sent, generation, response, stack, stopped, told, taken>>
\* The file is there, or not, or is a map that is looked for once more under
\* another name.  A read that fails counts as not found.  A conversion of the
\* contents that throws ends the chain: the error is reported to the console,
\* the request stays sent and nobody is told.
ReadEnds(g) ==
  /\ TaskRuns /\ chain[g].at \in {"reading", "fallback"}
  /\ \/ chain' = [chain EXCEPT ![g].at = "headers", ![g].found = TRUE]
     \/ To(g, "done")
     \/ To(g, "failed")
     \/ chain[g].at = "reading" /\ Current(g) /\ To(g, "fallback")
  /\ UNCHANGED <<readyState, sent, generation, response, stack, stopped, told, taken>>

\* Each step of finish() does nothing once the generation is not current.
Drops(g) ==
  /\ TaskRuns /\ ~Current(g)
  /\ chain[g].at \in {"headers", "loading", "progress", "done", "load", "loadend"}
  /\ chain' = [chain EXCEPT ![g] = NoChain]
  /\ UNCHANGED <<readyState, sent, generation, response, stack, stopped, told, taken>>

\* What is told in a step of finish(), and the step after it.
EventOf(g) == IF chain[g].at = "load" /\ ~chain[g].found THEN "error" ELSE chain[g].at
After == [headers |-> "loading", loading |-> "progress", progress |-> "done",
          done |-> "load", load |-> "loadend", loadend |-> "none"]

\* Mutant of Steps: the state is set without a look at the generation.
StepsAlways(g) ==
  /\ TaskRuns
  /\ chain[g].at \in DOMAIN After /\ chain[g].pending = <<>>
  /\ chain' = [chain EXCEPT ![g].pending = Both(EventOf(g))]
  /\ readyState' = CASE chain[g].at = "headers" -> 2
                     [] chain[g].at = "loading" -> 3
                     [] chain[g].at = "done"    -> 4
                     [] OTHER                   -> readyState
  /\ sent' = (sent /\ chain[g].at # "done")
  /\ response' \in CASE chain[g].at = "done" /\ chain[g].found -> {g}
                       [] chain[g].at = "loading"              -> {response, g}
                       [] OTHER                                -> {response}
  /\ UNCHANGED <<generation, stack, stopped, told, taken>>
\* The step itself: the state it sets, before the receivers are told.  Text
\* can be read from "loading" on, binary contents when the request is done.
Steps(g) ==
  /\ TaskRuns /\ Current(g)
  /\ chain[g].at \in DOMAIN After /\ chain[g].pending = <<>>
  /\ chain' = [chain EXCEPT ![g].pending = Both(EventOf(g))]
  /\ readyState' = CASE chain[g].at = "headers" -> 2
                     [] chain[g].at = "loading" -> 3
                     [] chain[g].at = "done"    -> 4
                     [] OTHER                   -> readyState
  /\ sent' = (sent /\ chain[g].at # "done")
  /\ response' \in CASE chain[g].at = "done" /\ chain[g].found -> {g}
                       [] chain[g].at = "loading"              -> {response, g}
                       [] OTHER                                -> {response}
  /\ UNCHANGED <<generation, stack, stopped, told, taken>>

\* pmjsDispatchHostEvent(): a task for each receiver.
Notifies(g) ==
  /\ TaskRuns /\ Current(g)
  /\ chain[g].pending # <<>>
  /\ LET tell == Head(chain[g].pending)
         rest == Tail(chain[g].pending)
     IN  /\ Enter(Handler(tell))
         /\ Tells(tell)
         /\ chain' = [chain EXCEPT ![g].pending = rest,
                                   ![g].at = IF rest = <<>> THEN After[@] ELSE @]
  /\ UNCHANGED <<readyState, sent, generation, response, stopped, taken>>

(***************************************************************************)

ChainStep(g) == Starts(g) \/ ReadEnds(g) \/ Drops(g) \/ Steps(g) \/ Notifies(g)

Next ==
  \/ Open \/ Abort \/ SendNow \/ SendLater \/ Stop
  \/ Returns \/ Emits \/ Leaves
  \/ \E g \in Generations : ChainStep(g)

\* Handlers return, calls go on, and the host runs the tasks and ends the reads.
Fairness ==
  /\ WF_vars(Returns \/ Emits \/ Leaves)
  /\ WF_vars(\E g \in Generations : ChainStep(g))

Spec == Init /\ [][Next]_vars /\ Fairness

(***************************************************************************)
(* Properties.                                                             *)
(***************************************************************************)

\* The on-handlers are told of one exchange at a time, its events once and in
\* order, whatever handlers and tasks call between two of them; they are told
\* load when there is a response and error when there is none.
AsTold == INSTANCE Exchange WITH
  response <- IF taken THEN "taken" ELSE IF response # 0 THEN "there" ELSE "none"
ToldInOrder == AsTold!Spec

\* A request that is opened again or aborted is not overwritten by the read of
\* an earlier generation that comes back late.
NoForeignResponse == response \in {0, generation}

\* A request that was sent comes to its loadend, found or not, through read
\* failures and fallbacks, unless it is opened again or aborted, the dispatcher
\* stops, or its contents cannot be converted: then it is never told.
ExchangeEnds ==
  \A g \in Generations :
    generation = g /\ sent ~>
      generation # g \/ told = "loadend" \/ stopped \/ chain[g].at = "failed"
=============================================================================
