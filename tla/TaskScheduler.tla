--------------------------- MODULE TaskScheduler ---------------------------
(***************************************************************************)
(* The task dispatcher of js/pmjs-web/scheduler.js (PMJS.tasks): one array *)
(* of callbacks with a head index, the continuations of the frame that is  *)
(* being rendered, and the host immediate that runs one of them per turn.  *)
(*                                                                         *)
(* JavaScript runs to completion, so a host turn is split in two: the part *)
(* of step() up to the call of the callback, and the part after it.        *)
(* Between the two `onStack' names the callback, and what the callback     *)
(* does to the dispatcher (enqueue, invoke, runFrame, idle, stop) are the  *)
(* actions of the dispatcher's own interface, which host events and        *)
(* promise reactions also call when nothing is on the stack.               *)
(***************************************************************************)
EXTENDS Integers, Sequences, FiniteSets

CONSTANTS
  Task,           \* identities of the entries: one may be submitted again when it is done
  Invoked,        \* the entries made by invoke(), whose callback never throws
  FrameLimit,     \* tasks a pending frame lets run before it starts (64 in the code)
  CompactAfter,   \* consumed slots the array keeps before it is compacted (64 in the code)
  Body,           \* onStack while the frame callback runs its synchronous part
  None,           \* nothing on the stack
  Gone            \* an array slot whose entry was taken

ASSUME SchedulerAssumption ==
  /\ Invoked \subseteq Task
  /\ FrameLimit \in Nat \ {0}
  /\ CompactAfter \in Nat
  /\ {Body, None, Gone} \cap Task = {}
  /\ Body # None

VARIABLES
  tasks,          \* the array of entries, consumed slots included
  head,           \* slots of it that are consumed
  continuations,  \* entries of the frame that is being rendered
  scheduled,      \* a host immediate will call step()
  stopped,
  rendering,      \* a frame callback was called and its promise has not settled
  frame,          \* runFrame() was called and the frame has not started
  frameTasks,     \* tasks run since the pending frame was requested
  idleWaiters,    \* somebody awaits idle()
  onStack,        \* the callback that is running
  entry           \* history: what became of each entry

vars == <<tasks, head, continuations, scheduled, stopped, rendering, frame,
          frameTasks, idleWaiters, onStack, entry>>

Fate == {"unsubmitted", "accepted", "taken", "dropped"}

TypeOK ==
  /\ tasks \in Seq(Task \cup {Gone})
  /\ head \in 0..Len(tasks)
  /\ continuations \in Seq(Task)
  /\ scheduled \in BOOLEAN
  /\ stopped \in BOOLEAN
  /\ rendering \in BOOLEAN
  /\ frame \in BOOLEAN
  /\ frameTasks \in 0..FrameLimit
  /\ idleWaiters \in BOOLEAN
  /\ onStack \in Task \cup {Body, None}
  /\ entry \in [Task -> Fate]

Init ==
  /\ tasks = <<>>
  /\ head = 0
  /\ continuations = <<>>
  /\ scheduled = FALSE
  /\ stopped = FALSE
  /\ rendering = FALSE
  /\ frame = FALSE
  /\ frameTasks = 0
  /\ idleWaiters = FALSE
  /\ onStack = None
  /\ entry = [t \in Task |-> "unsubmitted"]

-----------------------------------------------------------------------------
(* The interface: what callbacks, host events and promise reactions call.  *)

\* wake() asks for a host turn unless the dispatcher was stopped.
Wake == scheduled' = (scheduled \/ ~stopped)

\* An entry can be submitted (again) once it is neither waiting nor running.
Free(t) == entry[t] # "accepted" /\ onStack # t

\* A stopped dispatcher discards what is submitted to it.
Refuse(t) ==
  /\ stopped
  /\ entry' = [entry EXCEPT ![t] = "dropped"]
  /\ UNCHANGED <<tasks, continuations, scheduled>>

Push(t) ==
  /\ ~stopped
  /\ tasks' = Append(tasks, t)
  /\ entry' = [entry EXCEPT ![t] = "accepted"]
  /\ Wake
  /\ UNCHANGED continuations

PushContinuation(t) ==
  /\ ~stopped
  /\ continuations' = Append(continuations, t)
  /\ entry' = [entry EXCEPT ![t] = "accepted"]
  /\ Wake
  /\ UNCHANGED tasks

Enqueue(t) ==
  /\ t \notin Invoked /\ Free(t)
  /\ Refuse(t) \/ Push(t)
  /\ UNCHANGED <<head, stopped, rendering, frame, frameTasks, idleWaiters, onStack>>

\* An entry waits with the continuations only if it was submitted through
\* invokeRendering() while a frame is being rendered.
Invoke(t, renderingCallback) ==
  /\ t \in Invoked /\ Free(t)
  /\ \/ Refuse(t)
     \/ rendering /\ renderingCallback /\ PushContinuation(t)
     \/ ~(rendering /\ renderingCallback) /\ Push(t)
  /\ UNCHANGED <<head, stopped, rendering, frame, frameTasks, idleWaiters, onStack>>

\* Mutant of RunFrame: no wake() after the frame is recorded.
RunFrameUnwoken ==
  /\ ~stopped /\ ~frame /\ ~rendering
  /\ frame' = TRUE
  /\ frameTasks' = 0
  /\ UNCHANGED <<tasks, head, continuations, scheduled, stopped, rendering,
                 idleWaiters, onStack, entry>>

\* A stopped dispatcher resolves the frame, an overlapping frame is rejected:
\* neither changes the dispatcher.
RunFrame ==
  /\ ~stopped /\ ~frame /\ ~rendering
  /\ frame' = TRUE
  /\ frameTasks' = 0
  /\ Wake
  /\ UNCHANGED <<tasks, head, continuations, stopped, rendering, idleWaiters,
                 onStack, entry>>

Idle ==
  /\ ~stopped
  /\ idleWaiters' = TRUE
  /\ Wake
  /\ UNCHANGED <<tasks, head, continuations, stopped, rendering, frame,
                 frameTasks, onStack, entry>>

Accepted == {t \in Task : entry[t] = "accepted"}

Waiting == {tasks[i] : i \in head + 1 .. Len(tasks)} \cup
           {continuations[i] : i \in 1 .. Len(continuations)}

\* stop() discards tasks.slice(head) and the continuations, and settles the
\* frame that has not started. `rendering' is left to the frame's own promise.
StopEffects ==
  /\ stopped' = TRUE
  /\ scheduled' = FALSE
  /\ tasks' = <<>>
  /\ head' = 0
  /\ continuations' = <<>>
  /\ entry' = [t \in Task |-> IF t \in Waiting THEN "dropped" ELSE entry[t]]
  /\ frame' = FALSE
  /\ idleWaiters' = FALSE
  /\ UNCHANGED <<rendering, frameTasks>>

Stop ==
  /\ ~stopped
  /\ StopEffects
  /\ UNCHANGED onStack

-----------------------------------------------------------------------------
(* One host turn: step() takes an entry, or starts the frame.              *)

Turn == scheduled /\ ~stopped /\ onStack = None

\* Mutant of BudgetSpent: a pending frame always goes first.
NoBudget == TRUE

\* The frame's budget is spent for certain; a frame that has let one task run
\* may also start because 4 ms went by since that task.
BudgetSpent == head = Len(tasks) \/ frameTasks >= FrameLimit
FrameMayStart == ~rendering /\ frame /\ (BudgetSpent \/ frameTasks > 0)
FrameMustStart == ~rendering /\ frame /\ BudgetSpent

StartFrame ==
  /\ Turn
  /\ FrameMayStart
  /\ scheduled' = FALSE
  /\ frame' = FALSE
  /\ rendering' = TRUE
  /\ onStack' = Body
  /\ UNCHANGED <<tasks, head, continuations, stopped, frameTasks, idleWaiters, entry>>

TakeContinuation ==
  /\ Turn
  /\ rendering
  /\ continuations # <<>>
  /\ scheduled' = FALSE
  /\ onStack' = Head(continuations)
  /\ continuations' = Tail(continuations)
  /\ entry' = [entry EXCEPT ![Head(continuations)] = "taken"]
  /\ UNCHANGED <<tasks, head, stopped, rendering, frame, frameTasks, idleWaiters>>

\* Mutant of TakeTask: tasks run while a frame is being rendered.
TakeTaskInFrame ==
  /\ Turn
  /\ ~FrameMustStart
  /\ head < Len(tasks)
  /\ scheduled' = FALSE
  /\ onStack' = tasks[head + 1]
  /\ tasks' = [tasks EXCEPT ![head + 1] = Gone]
  /\ head' = head + 1
  /\ entry' = [entry EXCEPT ![tasks[head + 1]] = "taken"]
  /\ frameTasks' = IF frame THEN frameTasks + 1 ELSE frameTasks
  /\ UNCHANGED <<continuations, stopped, rendering, frame, idleWaiters>>

TakeTask ==
  /\ Turn
  /\ ~rendering /\ ~FrameMustStart
  /\ head < Len(tasks)
  /\ scheduled' = FALSE
  /\ onStack' = tasks[head + 1]
  /\ tasks' = [tasks EXCEPT ![head + 1] = Gone]
  /\ head' = head + 1
  /\ entry' = [entry EXCEPT ![tasks[head + 1]] = "taken"]
  /\ frameTasks' = IF frame THEN frameTasks + 1 ELSE frameTasks
  /\ UNCHANGED <<continuations, stopped, rendering, frame, idleWaiters>>

\* Mutant of TakeNothing: an empty queue is noticed before the frame that waits.
TakeNothingBeforeFrame ==
  /\ Turn
  /\ scheduled' = FALSE
  /\ \/ /\ rendering /\ continuations = <<>>
        /\ UNCHANGED <<tasks, head, idleWaiters>>
     \/ /\ ~rendering /\ head = Len(tasks)
        /\ tasks' = <<>>
        /\ head' = 0
        /\ idleWaiters' = FALSE
  /\ UNCHANGED <<continuations, stopped, rendering, frame, frameTasks, onStack, entry>>

\* Nothing to take: outside a frame the array is reset and idle() resolves.
TakeNothing ==
  /\ Turn
  /\ scheduled' = FALSE
  /\ \/ /\ rendering /\ continuations = <<>>
        /\ UNCHANGED <<tasks, head, idleWaiters>>
     \/ /\ ~rendering /\ ~frame /\ head = Len(tasks)
        /\ tasks' = <<>>
        /\ head' = 0
        /\ idleWaiters' = FALSE
  /\ UNCHANGED <<continuations, stopped, rendering, frame, frameTasks, onStack, entry>>

Step == StartFrame \/ TakeContinuation \/ TakeTask \/ TakeNothing

-----------------------------------------------------------------------------
(* The rest of step(), when the callback has returned or thrown.           *)

\* Mutants of Compact: the head index is not reset with the array, the splice
\* takes one entry too many, a refilled array is never compacted.
CompactKeepsHead ==
  IF ~rendering /\ head >= Len(tasks) THEN tasks' = <<>> /\ UNCHANGED head
  ELSE UNCHANGED <<tasks, head>>

CompactOneTooMany ==
  IF rendering THEN UNCHANGED <<tasks, head>>
  ELSE IF head >= Len(tasks) THEN tasks' = <<>> /\ head' = 0
  ELSE IF head > CompactAfter /\ head * 2 >= Len(tasks)
       THEN tasks' = SubSeq(tasks, head + 2, Len(tasks)) /\ head' = 0
       ELSE UNCHANGED <<tasks, head>>

CompactWhenEmpty ==
  IF ~rendering /\ head >= Len(tasks) THEN tasks' = <<>> /\ head' = 0
  ELSE UNCHANGED <<tasks, head>>

\* The array is emptied when it is consumed, and loses its consumed slots
\* when they are many and at least half of it.
Compact ==
  IF rendering THEN UNCHANGED <<tasks, head>>
  ELSE IF head >= Len(tasks) THEN tasks' = <<>> /\ head' = 0
  ELSE IF head > CompactAfter /\ head * 2 >= Len(tasks)
       THEN tasks' = SubSeq(tasks, head + 1, Len(tasks)) /\ head' = 0
       ELSE UNCHANGED <<tasks, head>>

\* Mutant of EndTask: idle() resolves after the last callback, in a frame too.
EndTaskResolvesIdle ==
  /\ onStack \in Task
  /\ onStack' = None
  /\ idleWaiters' = (idleWaiters /\ (frame \/ head < Len(tasks) \/ continuations # <<>>))
  /\ Compact
  /\ Wake
  /\ UNCHANGED <<continuations, stopped, rendering, frame, frameTasks, entry>>

\* The callback returned, or its error went to a reporter.
EndTask ==
  /\ onStack \in Task
  /\ onStack' = None
  /\ Compact
  /\ Wake
  /\ UNCHANGED <<continuations, stopped, rendering, frame, frameTasks, idleWaiters, entry>>

\* The callback of an entry with no error mode threw: fatal() stops the
\* dispatcher (stop() returns at once when the callback already stopped it).
EndTaskFatally ==
  /\ onStack \in Task \ Invoked
  /\ onStack' = None
  /\ IF stopped
     THEN UNCHANGED <<tasks, head, continuations, scheduled, stopped, rendering,
                      frame, frameTasks, idleWaiters, entry>>
     ELSE StopEffects

\* The frame callback returned its promise.
FrameReturns ==
  /\ onStack = Body
  /\ onStack' = None
  /\ UNCHANGED <<tasks, head, continuations, scheduled, stopped, rendering, frame,
                 frameTasks, idleWaiters, entry>>

\* Mutant of FrameThrows: the work the frame held back is not woken up.
FrameThrowsUnwoken ==
  /\ onStack = Body
  /\ onStack' = None
  /\ rendering' = FALSE
  /\ UNCHANGED <<tasks, head, continuations, scheduled, stopped, frame,
                 frameTasks, idleWaiters, entry>>

\* The frame callback threw.
FrameThrows ==
  /\ onStack = Body
  /\ onStack' = None
  /\ rendering' = FALSE
  /\ Wake
  /\ UNCHANGED <<tasks, head, continuations, stopped, frame, frameTasks,
                 idleWaiters, entry>>

\* The reaction to the promise of the frame callback, resolved or rejected.
FrameSettles ==
  /\ onStack = None
  /\ rendering
  /\ rendering' = FALSE
  /\ Wake
  /\ UNCHANGED <<tasks, head, continuations, stopped, frame, frameTasks,
                 idleWaiters, onStack, entry>>

EndTurn == EndTask \/ EndTaskFatally \/ FrameReturns \/ FrameThrows

Next ==
  \/ \E t \in Task : \/ Enqueue(t)
                     \/ \E renderingCallback \in BOOLEAN : Invoke(t, renderingCallback)
  \/ RunFrame \/ Idle \/ Stop
  \/ Step \/ EndTurn \/ FrameSettles

Spec == Init /\ [][Next]_vars

-----------------------------------------------------------------------------
(* Properties *)

\* Where an entry waits: a slot of the array that is not consumed, or a
\* place among the continuations.
Slots == {<<"task", i>> : i \in head + 1 .. Len(tasks)} \cup
         {<<"continuation", i>> : i \in 1 .. Len(continuations)}

Occupant(slot) ==
  IF slot[1] = "task" THEN tasks[slot[2]] ELSE continuations[slot[2]]

\* Every accepted entry waits in exactly one place and nothing else waits:
\* neither the head index, the reset of the array, its compaction (which
\* runs after a callback that may have pushed, or stopped the dispatcher)
\* nor stop() loses an entry or leaves one that would run twice.
NothingLostOrTwice ==
  /\ \A t \in Accepted : \E slot \in Slots : Occupant(slot) = t
  /\ \A slot \in Slots : Occupant(slot) \in Accepted
  /\ \A s1, s2 \in Slots : Occupant(s1) = Occupant(s2) => s1 = s2

\* No lost wakeup: as long as there is something step() could do outside
\* rendering (a task, a pending frame, somebody who awaits idle()) and no
\* callback is running, a host turn is scheduled. Inside rendering the same
\* of continuations needs a frame that awaits what it submits: FrameLoop
\* states it of the frame the host runs.
NoLostWakeup ==
  (~stopped /\ onStack = None /\ ~rendering
     /\ (head < Len(tasks) \/ frame \/ idleWaiters)) => scheduled

\* Between turns the consumed slots the array retains are few, or fewer than
\* the entries that wait: a queue that is refilled as it drains cannot grow.
ConsumedSlotsBounded ==
  (onStack = None) => (head <= CompactAfter \/ head * 2 < Len(tasks))

\* The dispatcher implements two FIFO queues that a frame keeps apart.
Abstract == INSTANCE DispatchQueue WITH
  ordinary <- SubSeq(tasks, head + 1, Len(tasks)),
  urgent <- continuations,
  inFrame <- rendering,
  closed <- stopped,
  current <- onStack

ImplementsDispatchQueue == Abstract!Spec

=============================================================================
