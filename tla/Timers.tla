------------------------------- MODULE Timers -------------------------------
(***************************************************************************)
(* setTimeout, setInterval and clearTimeout of js/pmjs-web/scheduler.js on  *)
(* top of the task dispatcher: the map of timers, the one host timeout that *)
(* waits for the earliest deadline (armTimers), and the tasks queueDueTimers*)
(* submits for the timers that are due.                                     *)
(*                                                                         *)
(* Deadlines are kept relative to the clock: `due' is deadline - now, so    *)
(* that time can pass forever in a finite state space. A timer that is more *)
(* than MaxLate late counts as MaxLate late.                                *)
(***************************************************************************)
EXTENDS TaskScheduler, SequencesExt

CONSTANTS
  Timer,     \* timer ids; the id of a timer is also the id of its task
  MaxDelay,  \* bound on the delays the guest asks for
  MaxLate,   \* bound on how late a timer can be told to be
  NoWake     \* no host timeout is armed

ASSUME TimersAssumption ==
  /\ Timer \subseteq Task \ Invoked
  /\ MaxDelay \in Nat \ {0}
  /\ MaxLate \in Nat
  /\ NoWake \notin Int

VARIABLES
  timers,   \* the map of timers: what is known of each id
  order,    \* the ids in the map, oldest first (nextId grows)
  wakeIn,   \* time left on the host timeout
  firing    \* the timer whose callback is on the stack, with its period

timerVars == <<timers, order, wakeIn, firing>>
timedVars == <<vars, timerVars>>

Absent == [state |-> "absent", period |-> 0, due |-> 0]
NotFiring == [id |-> None, period |-> 0]

TimersInit ==
  /\ Init
  /\ timers = [t \in Timer |-> Absent]
  /\ order = <<>>
  /\ wakeIn = NoWake
  /\ firing = NotFiring

Armed(map) == {t \in Timer : map[t].state = "armed"}

\* armTimers(): one host timeout, for the earliest timer that has no task yet.
ArmTimers(map, isStopped) ==
  IF isStopped \/ Armed(map) = {} THEN NoWake
  ELSE Max({0, Min({map[t].due : t \in Armed(map)})})

-----------------------------------------------------------------------------
(* The guest's interface. *)

\* An id nobody else holds, neither in the map nor in a task of a timer that
\* was cleared. A stopped dispatcher hands out the id and forgets the timer.
AddTimer(t, delay, interval) ==
  /\ ~stopped
  /\ timers[t].state = "absent" /\ Free(t)
  /\ interval => delay >= 1
  /\ timers' = [timers EXCEPT ![t] =
       [state |-> "armed", period |-> IF interval THEN delay ELSE 0, due |-> delay]]
  /\ order' = Append(order, t)
  /\ wakeIn' = ArmTimers(timers', FALSE)
  /\ UNCHANGED <<vars, firing>>

ClearTimer(t) ==
  /\ timers[t].state # "absent"
  /\ timers' = [timers EXCEPT ![t] = Absent]
  /\ order' = Remove(order, t)
  /\ wakeIn' = ArmTimers(timers', stopped)
  /\ UNCHANGED <<vars, firing>>

\* stop() clears the map and the host timeout.
TimersStop ==
  /\ Stop
  /\ timers' = [t \in Timer |-> Absent]
  /\ order' = <<>>
  /\ wakeIn' = NoWake
  /\ UNCHANGED firing

-----------------------------------------------------------------------------
(* The host timeout and the tasks of timers. *)

Due == {t \in Timer : timers[t].state = "armed" /\ timers[t].due <= 0}

Position(t) == CHOOSE i \in DOMAIN order : order[i] = t

\* Mutant of DueFirst: tasks are submitted in the order of the map.
OldestFirst(a, b) == Position(a) < Position(b)

\* By deadline, then by id.
DueFirst(a, b) ==
  \/ timers[a].due < timers[b].due
  \/ timers[a].due = timers[b].due /\ Position(a) < Position(b)

\* The due timers, sorted.
InDueOrder(batch) ==
  \A i, j \in DOMAIN batch : i < j => DueFirst(batch[i], batch[j])

\* Mutant of QueueDueTimers: the host timeout is not armed again for the timers
\* that are not due.
QueueDueOnce ==
  /\ wakeIn = 0 /\ onStack = None
  /\ \E batch \in SetToSeqs(Due) : InDueOrder(batch) /\ tasks' = tasks \o batch
  /\ entry' = [t \in Task |-> IF t \in Due THEN "accepted" ELSE entry[t]]
  /\ timers' = [t \in Timer |-> IF t \in Due THEN [timers[t] EXCEPT !.state = "queued"]
                                ELSE timers[t]]
  /\ wakeIn' = NoWake
  /\ IF Due = {} THEN UNCHANGED scheduled ELSE Wake
  /\ UNCHANGED <<head, continuations, stopped, rendering, frame, frameTasks,
                 idleWaiters, onStack, order, firing>>

QueueDueTimers ==
  /\ wakeIn = 0 /\ onStack = None
  /\ \E batch \in SetToSeqs(Due) : InDueOrder(batch) /\ tasks' = tasks \o batch
  /\ entry' = [t \in Task |-> IF t \in Due THEN "accepted" ELSE entry[t]]
  /\ timers' = [t \in Timer |-> IF t \in Due THEN [timers[t] EXCEPT !.state = "queued"]
                                ELSE timers[t]]
  /\ wakeIn' = ArmTimers(timers', stopped)
  /\ IF Due = {} THEN UNCHANGED scheduled ELSE Wake
  /\ UNCHANGED <<head, continuations, stopped, rendering, frame, frameTasks,
                 idleWaiters, onStack, order, firing>>

\* The task of a timer that was cleared meanwhile does nothing; a timeout
\* leaves the map before its callback is called.
TakeTimerTask ==
  /\ TakeTask
  /\ LET t == onStack' IN
     IF t \in Timer /\ timers[t].state # "absent"
     THEN /\ firing' = [id |-> t, period |-> timers[t].period]
          /\ IF timers[t].period = 0
             THEN timers' = [timers EXCEPT ![t] = Absent] /\ order' = Remove(order, t)
             ELSE UNCHANGED <<timers, order>>
     ELSE UNCHANGED <<timers, order, firing>>
  /\ UNCHANGED wakeIn

\* Mutant of NextDue: a late interval catches up on every period it missed.
NextDueCatchesUp(due, period) == due + period

\* An interval goes on at its next multiple that is still to come.
NextDue(due, period) == due + Max({1, ((-due) \div period) + 1}) * period

\* Mutant of EndTimerTask: the host timeout is not armed for the interval.
EndTimerTaskUnarmed ==
  /\ EndTask
  /\ timers' = IF firing # NotFiring /\ firing.period # 0 /\ timers[firing.id].state # "absent"
               THEN [timers EXCEPT ![firing.id].state = "armed",
                                   ![firing.id].due = NextDue(@, firing.period)]
               ELSE timers
  /\ firing' = NotFiring
  /\ UNCHANGED <<order, wakeIn>>

\* The finally block of a timer's task.
EndTimerTask ==
  /\ EndTask
  /\ IF firing = NotFiring
     THEN UNCHANGED timerVars
     ELSE LET t == firing.id IN
          /\ timers' = IF firing.period # 0 /\ timers[t].state # "absent"
                       THEN [timers EXCEPT ![t].state = "armed",
                                           ![t].due = NextDue(@, firing.period)]
                       ELSE timers
          /\ wakeIn' = ArmTimers(timers', stopped)
          /\ firing' = NotFiring
          /\ UNCHANGED order

\* Time passes, also while callbacks run.
Elapse ==
  /\ timers' = [t \in Timer |->
       IF timers[t].state = "absent" THEN Absent
       ELSE [timers[t] EXCEPT !.due = Max({@ - 1, -MaxLate})]]
  /\ wakeIn' = IF wakeIn \in {NoWake, 0} THEN wakeIn ELSE wakeIn - 1
  /\ UNCHANGED <<vars, order, firing>>

\* Frames hold timer tasks back; what runs inside them is FrameLoop's.
Frames == (RunFrame \/ StartFrame \/ FrameReturns \/ FrameThrows \/ FrameSettles)
          /\ UNCHANGED timerVars

NothingToTake == TakeNothing /\ UNCHANGED timerVars

TimersNext ==
  \/ \E t \in Timer : \/ \E delay \in 0..MaxDelay, interval \in BOOLEAN :
                           AddTimer(t, delay, interval)
                      \/ ClearTimer(t)
  \/ TimersStop \/ QueueDueTimers \/ TakeTimerTask \/ EndTimerTask
  \/ Elapse \/ Frames \/ NothingToTake

\* Time passes; the event loop visits its timer phase and its immediate phase
\* in turn; callbacks return and the promise of a frame settles (FrameLoop).
TimersSpec ==
  /\ TimersInit /\ [][TimersNext]_timedVars
  /\ WF_timedVars(Elapse)
  /\ SF_timedVars(QueueDueTimers)
  /\ WF_timedVars((StartFrame /\ UNCHANGED timerVars) \/ TakeTimerTask \/ NothingToTake)
  /\ WF_timedVars(EndTimerTask \/ ((FrameReturns \/ FrameThrows) /\ UNCHANGED timerVars))
  /\ SF_timedVars(FrameSettles /\ UNCHANGED timerVars)

-----------------------------------------------------------------------------
(* Properties *)

\* The one host timeout always waits for the earliest timer that has no task:
\* no add, clear, firing, re-arm or stop leaves it missing, late or stale.
WakeArmed == wakeIn = ArmTimers(timers, stopped)

\* Tasks of timers wait in the order of their deadlines, also when they were
\* queued by different host timeouts with timers added in between.
FireInDeadlineOrder ==
  \A i, j \in head + 1 .. Len(tasks) :
    (i < j /\ tasks[i] \in Timer /\ tasks[j] \in Timer
       /\ timers[tasks[i]].state = "queued" /\ timers[tasks[j]].state = "queued")
    => timers[tasks[i]].due <= timers[tasks[j]].due

\* An interval that fires late skips the periods it missed and keeps its
\* phase: it is never due again at once, nor later than one period ahead.
IntervalKeepsPhase ==
  [][\A t \in Timer :
       (timers[t].state = "queued" /\ timers'[t].state = "armed") =>
         /\ timers'[t].due \in 1..timers[t].period
         /\ (timers'[t].due - timers[t].due) % timers[t].period = 0]_timedVars

\* A timeout fires unless it is cleared, and an interval fires again and again.
TimersFire ==
  \A t \in Timer :
    /\ (timers[t].state = "armed") ~> (timers[t].state # "armed")
    /\ (timers[t].state = "queued") ~> (timers[t].state # "queued")

=============================================================================
