--------------------------- MODULE DispatchQueue ---------------------------
(***************************************************************************)
(* What the task dispatcher of js/pmjs-web/scheduler.js promises to the    *)
(* code that submits callbacks to it, with no array, no head index, no     *)
(* host immediate and no frame budget.                                     *)
(*                                                                         *)
(*   - callbacks run one at a time, each class in the order it was         *)
(*     accepted;                                                           *)
(*   - while a frame is being rendered only the callbacks submitted as     *)
(*     rendering continuations run, and outside a frame only the others;   *)
(*   - closing drops everything accepted and not yet taken, and nothing is *)
(*     accepted or taken afterwards.                                       *)
(*                                                                         *)
(* TaskScheduler implements this specification.                            *)
(***************************************************************************)
EXTENDS Sequences

CONSTANTS
  Task,   \* the callbacks that can be submitted
  Body,   \* what is on the stack while the frame callback itself runs
  None    \* nothing is on the stack

VARIABLES
  ordinary,  \* accepted callbacks that wait for no frame to be rendering
  urgent,    \* accepted callbacks of the frame that is being rendered
  inFrame,   \* a frame is being rendered
  closed,    \* the dispatcher was stopped
  current    \* the callback on the stack

vars == <<ordinary, urgent, inFrame, closed, current>>

Init ==
  /\ ordinary = <<>>
  /\ urgent = <<>>
  /\ inFrame = FALSE
  /\ closed = FALSE
  /\ current = None

Accept(t) ==
  /\ ~closed
  /\ ordinary' = Append(ordinary, t)
  /\ UNCHANGED <<urgent, inFrame, closed, current>>

AcceptUrgent(t) ==
  /\ ~closed
  /\ inFrame
  /\ urgent' = Append(urgent, t)
  /\ UNCHANGED <<ordinary, inFrame, closed, current>>

TakeOrdinary ==
  /\ ~closed /\ ~inFrame /\ current = None
  /\ ordinary # <<>>
  /\ current' = Head(ordinary)
  /\ ordinary' = Tail(ordinary)
  /\ UNCHANGED <<urgent, inFrame, closed>>

TakeUrgent ==
  /\ ~closed /\ inFrame /\ current = None
  /\ urgent # <<>>
  /\ current' = Head(urgent)
  /\ urgent' = Tail(urgent)
  /\ UNCHANGED <<ordinary, inFrame, closed>>

Finish ==
  /\ current \in Task
  /\ current' = None
  /\ UNCHANGED <<ordinary, urgent, inFrame, closed>>

EnterFrame ==
  /\ ~closed /\ ~inFrame /\ current = None
  /\ inFrame' = TRUE
  /\ current' = Body
  /\ UNCHANGED <<ordinary, urgent, closed>>

\* The frame callback returned a promise, or (with inFrame' FALSE) it threw.
LeaveBody ==
  /\ current = Body
  /\ current' = None
  /\ inFrame' \in BOOLEAN
  /\ UNCHANGED <<ordinary, urgent, closed>>

LeaveFrame ==
  /\ inFrame /\ current = None
  /\ inFrame' = FALSE
  /\ UNCHANGED <<ordinary, urgent, closed, current>>

\* A callback that fails fatally closes the dispatcher as it ends.
Close ==
  /\ ~closed
  /\ closed' = TRUE
  /\ ordinary' = <<>>
  /\ urgent' = <<>>
  /\ current' \in {current, None}
  /\ UNCHANGED inFrame

Next ==
  \/ \E t \in Task : Accept(t) \/ AcceptUrgent(t)
  \/ TakeOrdinary \/ TakeUrgent \/ Finish
  \/ EnterFrame \/ LeaveBody \/ LeaveFrame
  \/ Close

Spec == Init /\ [][Next]_vars

=============================================================================
