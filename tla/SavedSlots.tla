----------------------------- MODULE SavedSlots -----------------------------
(***************************************************************************)
(* What the save slots promise to the game, whatever files they are kept   *)
(* in: a slot holds progress or nothing, a call changes one slot from what *)
(* it held to what the call asks for, a call that is told to have          *)
(* succeeded has done so, and one that fails or is cut by the end of the   *)
(* process leaves the slot as it was or as it was asked to be.             *)
(***************************************************************************)
CONSTANTS Slots, Progress, Nothing
VARIABLES slot,    \* what each slot holds
          task,    \* the call in progress: its slot, what the slot held, what it shall hold
          answer   \* what the last call returned

Idle == [on |-> "idle"]
Told(what, s) == [told |-> what, on |-> s, held |-> slot'[s]]

Init == /\ slot \in [Slots -> Progress \cup {Nothing}]
        /\ task = Idle
        /\ answer = [told |-> "none"]

Begin == /\ task = Idle
         /\ \E s \in Slots, p \in Progress \cup {Nothing} :
              task' = [on |-> s, before |-> slot[s], to |-> p]
         /\ answer' = [told |-> "none"]
         /\ UNCHANGED slot

Write == /\ task # Idle
         /\ \E p \in {task.before, task.to} : slot' = [slot EXCEPT ![task.on] = p]
         /\ UNCHANGED <<task, answer>>

Succeed == /\ task # Idle
           /\ slot' = [slot EXCEPT ![task.on] = task.to]
           /\ task' = Idle
           /\ answer' = Told("done", task.on)

GiveUp == /\ task # Idle
          /\ \E p \in {slot[task.on], task.before, task.to} : slot' = [slot EXCEPT ![task.on] = p]
          /\ task' = Idle
          /\ answer' = [told |-> "failed"]

\* Progress the slot holds already is saved by doing nothing.
Repeat == /\ task = Idle
          /\ UNCHANGED <<slot, task>>
          /\ \E s \in Slots : answer' = Told("done", s)

Load == /\ task = Idle
        /\ UNCHANGED <<slot, task>>
        /\ \E s \in Slots : answer' = Told("loaded", s)

\* The process ends and starts again: nothing is told, and nothing moves.
Restart == /\ task' = Idle
           /\ answer' = [told |-> "none"]
           /\ UNCHANGED slot

Next == Begin \/ Write \/ Succeed \/ GiveUp \/ Repeat \/ Load \/ Restart
Spec == Init /\ [][Next]_<<slot, task, answer>>
=============================================================================
