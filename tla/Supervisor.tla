----------------------------- MODULE Supervisor -----------------------------
(***************************************************************************)
(* runSupervised of runner/supervisor.cjs and the worker it forks,         *)
(* runner/session.cjs. The supervisor starts a worker per session, passes  *)
(* signals on to it, and starts the next one when the game asked for a     *)
(* reload. While a worker lives, the supervisor samples the memory and     *)
(* asks the worker for a snapshot when memory is short, over an IPC        *)
(* channel that the worker reads when its game leaves it the time.         *)
(*                                                                         *)
(* Both processes speak the same protocol version, the supervisor has a    *)
(* session log, and the files of /proc can be read while a worker lives.   *)
(* What the snapshots contain, heartbeats and output are left out.         *)
(***************************************************************************)
EXTENDS Naturals, Sequences, FiniteSetsExt

CONSTANTS MaxSessions, MaxCaptures, MaxSignals  \* bounds of the model

ASSUME SupervisorAssumption ==
  MaxSessions \in Nat \ {0} /\ MaxCaptures \in Nat /\ MaxSignals \in {0, 1}

VARIABLES
  phase,         \* of the loop: "preparing", "supervising" or "returned"
  signal,        \* a signal arrived
  sessions,      \* workers forked
  captures,      \* samples of this session that asked for a snapshot
  reload,        \* the worker reported that the game wants a reload
  monitor,       \* the diagnostics the supervisor keeps of its worker
  worker,        \* "none", "loading", "waiting", "running", "complete" or "dead"
  kill,          \* a signal is on its way to the worker
  exit,          \* how the worker ended: "none", "zero", "failed"
  toWorker, toSupervisor  \* the IPC channel, in order

vars == <<phase, signal, sessions, captures, reload, monitor, worker, kill, exit,
          toWorker, toSupervisor>>

Causes == {"memory-pressure", "critical-memory-pressure", "oom-event"}
Critical(cause) == cause \in Causes \ {"memory-pressure"}

Message(type) == [type |-> type]
Request(id, cause) == [type |-> "request", id |-> id, cause |-> cause]
Snapshot(id, error) == [type |-> "snapshot", id |-> id, error |-> error]
Complete(again) == [type |-> "complete", reload |-> again]

FreshMonitor ==
  [online |-> FALSE,         \* workerMonitorOnline
   ready |-> FALSE,          \* diagnosticsReady
   probeSent |-> FALSE,      \* diagnosticsProbeSent
   queued |-> "none",        \* queuedSnapshotRequest, by its cause
   lastId |-> 0,             \* snapshotRequestId
   pending |-> 0,            \* pendingSnapshotId, and the timer that runs with it
   timedOut |-> 0,           \* timedOutSnapshotId
   memories |-> {},          \* the keys of supervisorMemoryByRequest
   cooling |-> FALSE,        \* less than the cooldown since the last request
   samples |-> 0,            \* pressureSampleCount, up to 2; pressureActive if not 0
   criticalRequested |-> FALSE,
   sends |-> << >>]          \* what this step sends to the worker

Init ==
  /\ phase = "preparing" /\ signal = FALSE /\ sessions = 0 /\ captures = 0 /\ reload = FALSE
  /\ monitor = FreshMonitor
  /\ worker = "none" /\ kill = FALSE /\ exit = "none"
  /\ toWorker = << >> /\ toSupervisor = << >>

-----------------------------------------------------------------------------
(* Requests for a snapshot. These operators return the monitor a call      *)
(* leaves, with the messages it sent.                                      *)

Connected == worker # "dead"

Probe(m) ==  \* sendMonitorProbe
  IF m.online /\ ~m.probeSent /\ Connected
  THEN [m EXCEPT !.probeSent = TRUE, !.sends = Append(@, Message("probe"))]
  ELSE m

Replaces(cause, queued) ==
  \/ queued = "none"
  \/ Critical(cause) /\ ~Critical(queued)
  \/ cause = "oom-event" /\ queued # "oom-event"

Newest(ids) == {id \in ids : Cardinality({other \in ids : other > id}) < 2}

\* Mutant of SendRequest: an earlier request that timed out is still awaited.
SendAwaitingBoth(m, cause) ==
  LET id == m.lastId + 1 IN
  [m EXCEPT !.lastId = id, !.pending = id, !.cooling = TRUE,
            !.memories = Newest(@ \cup {id}), !.sends = Append(@, Request(id, cause))]

SendRequest(m, cause) ==
  LET id == m.lastId + 1 IN
  [m EXCEPT !.lastId = id, !.pending = id, !.timedOut = 0, !.cooling = TRUE,
            !.memories = Newest(@ \cup {id}), !.sends = Append(@, Request(id, cause))]

\* Mutant of RequestSnapshot: the latest cause is the one that is queued.
RequestLatest(m, cause) ==
  CASE ~m.ready -> Probe([m EXCEPT !.queued = cause])
    [] m.ready /\ (~Connected \/ (~Critical(cause) /\ (m.pending # 0 \/ m.cooling))) -> m
    [] OTHER -> SendRequest(m, cause)

RequestSnapshot(m, cause) ==
  CASE ~m.ready ->
         Probe([m EXCEPT !.queued = IF Replaces(cause, @) THEN cause ELSE @])
    [] m.ready /\ (~Connected \/ (~Critical(cause) /\ (m.pending # 0 \/ m.cooling))) -> m
    [] OTHER -> SendRequest(m, cause)

\* Mutant of SetReady: the flag of the probe is not reset.
SetReadyOnce(m) ==
  LET ready == [m EXCEPT !.ready = TRUE, !.queued = "none"] IN
  IF m.queued = "none" THEN ready ELSE RequestSnapshot(ready, m.queued)

SetReady(m) ==  \* setDiagnosticsReady
  LET ready == [m EXCEPT !.ready = TRUE, !.probeSent = FALSE, !.queued = "none"] IN
  IF m.queued = "none" THEN ready ELSE RequestSnapshot(ready, m.queued)

Suspend(m) == Probe([m EXCEPT !.ready = FALSE])

Updates(m) ==
  /\ monitor' = [m EXCEPT !.sends = << >>]
  /\ toWorker' = toWorker \o m.sends

-----------------------------------------------------------------------------
(* The supervisor's loop.                                                  *)

Fork ==
  /\ worker' = "loading" /\ kill' = FALSE /\ exit' = "none"
  /\ sessions' = sessions + 1 /\ captures' = 0 /\ reload' = FALSE
  /\ monitor' = FreshMonitor
  /\ toWorker' = <<Message("options")>> /\ toSupervisor' = << >>

\* await prepare() returned; a signal that came meanwhile ends the loop.
Prepared ==
  /\ phase = "preparing"
  /\ IF signal
     THEN /\ phase' = "returned"
          /\ UNCHANGED <<sessions, captures, reload, monitor, worker, kill, exit,
                         toWorker, toSupervisor>>
     ELSE phase' = "supervising" /\ Fork
  /\ UNCHANGED signal

\* prepare() or fork() throws, and so does the supervisor.
PrepareFails ==
  /\ phase = "preparing"
  /\ phase' = "returned"
  /\ UNCHANGED <<signal, sessions, captures, reload, monitor, worker, kill, exit,
                 toWorker, toSupervisor>>

\* Mutant of Signal: the signal is recorded and not passed on.
SignalKept ==
  /\ phase # "returned" /\ ~signal /\ MaxSignals = 1
  /\ signal' = TRUE
  /\ UNCHANGED <<phase, sessions, captures, reload, monitor, worker, kill, exit,
                 toWorker, toSupervisor>>

Signal ==
  /\ phase # "returned" /\ ~signal /\ MaxSignals = 1
  /\ signal' = TRUE
  /\ kill' = (phase = "supervising" /\ worker # "dead")
  /\ UNCHANGED <<phase, sessions, captures, reload, monitor, worker, exit,
                 toWorker, toSupervisor>>

Unchanged == <<signal, sessions, captures, reload, monitor, worker, kill, exit,
               toWorker, toSupervisor>>

\* Mutant of Close: a signal is looked at only after prepare().
CloseIgnoresSignal ==
  /\ phase = "supervising" /\ worker = "dead" /\ toSupervisor = << >>
  /\ phase' = IF exit = "zero" /\ reload /\ sessions < MaxSessions
              THEN "preparing" ELSE "returned"
  /\ UNCHANGED Unchanged

\* The worker's 'close' event, when its channel has been read to the end. A
\* model of MaxSessions workers takes the last reload for a normal end.
Close ==
  /\ phase = "supervising" /\ worker = "dead" /\ toSupervisor = << >>
  /\ phase' = IF ~signal /\ exit = "zero" /\ reload /\ sessions < MaxSessions
              THEN "preparing" ELSE "returned"
  /\ UNCHANGED Unchanged

-----------------------------------------------------------------------------
(* Diagnostics of the supervisor.                                          *)

Cause(level, oom, samples) ==  \* memorySnapshotCause
  CASE oom -> "oom-event"
    [] ~oom /\ level = "critical" -> "critical-memory-pressure"
    [] ~oom /\ level = "low" /\ samples >= 2 -> "memory-pressure"
    [] OTHER -> "none"

Sample(level, oom) ==  \* sampleMemory
  LET pressured == level # "fine"
      samples == IF pressured THEN Min({monitor.samples + 1, 2}) ELSE 0
      cause == Cause(level, oom, samples)
      capture == cause # "none" /\ (Critical(cause) => ~monitor.criticalRequested \/ oom)
      recovered == ~pressured /\ monitor.samples > 0
      sampled == [monitor EXCEPT
        !.samples = samples,
        !.criticalRequested = (capture /\ Critical(cause)) \/ (@ /\ ~recovered)]
  IN /\ phase = "supervising" /\ worker # "dead"
     /\ capture => captures < MaxCaptures
     /\ captures' = captures + (IF capture THEN 1 ELSE 0)
     /\ Updates(IF capture THEN RequestSnapshot(sampled, cause) ELSE sampled)
     /\ UNCHANGED <<phase, signal, sessions, reload, worker, kill, exit, toSupervisor>>

CoolDown ==
  /\ phase = "supervising" /\ monitor.cooling
  /\ monitor' = [monitor EXCEPT !.cooling = FALSE]
  /\ UNCHANGED <<phase, signal, sessions, captures, reload, worker, kill, exit,
                 toWorker, toSupervisor>>

SnapshotTimeout ==
  /\ phase = "supervising" /\ monitor.pending # 0
  /\ Updates(Suspend([monitor EXCEPT !.timedOut = monitor.pending, !.pending = 0]))
  /\ UNCHANGED <<phase, signal, sessions, captures, reload, worker, kill, exit, toSupervisor>>

\* The send of the request that is pending is refused by the channel.
SendError ==
  /\ phase = "supervising" /\ worker = "dead" /\ monitor.pending # 0
  /\ Updates(Suspend([monitor EXCEPT !.pending = 0]))
  /\ UNCHANGED <<phase, signal, sessions, captures, reload, worker, kill, exit, toSupervisor>>

Awaited(m, id) == id = m.pending \/ (m.pending = 0 /\ id = m.timedOut)

\* Mutant of Answered: any answer is taken for the one that is awaited.
AnsweredByAny(m, reply) ==
  LET heard == [m EXCEPT !.memories = @ \ {reply.id}, !.pending = 0, !.timedOut = 0] IN
  CASE m.pending = 0 /\ m.timedOut = 0 -> m
    [] (m.pending # 0 \/ m.timedOut # 0) /\ reply.error -> Suspend(heard)
    [] OTHER -> IF heard.ready THEN heard ELSE SetReady(heard)

Answered(m, reply) ==
  LET heard == [m EXCEPT !.memories = @ \ {reply.id}, !.pending = 0, !.timedOut = 0] IN
  CASE ~Awaited(m, reply.id) -> m
    [] Awaited(m, reply.id) /\ reply.error -> Suspend(heard)
    [] OTHER -> IF heard.ready THEN heard ELSE SetReady(heard)

Receive ==  \* child.on('message')
  /\ phase = "supervising" /\ toSupervisor # << >>
  /\ toSupervisor' = Tail(toSupervisor)
  /\ LET message == Head(toSupervisor) IN
     /\ Updates(CASE message.type = "online" -> [monitor EXCEPT !.online = TRUE]
                  [] message.type = "ready" -> SetReady([monitor EXCEPT !.online = TRUE])
                  [] message.type = "snapshot" -> Answered(monitor, message)
                  [] message.type = "complete" -> monitor)
     /\ reload' = IF message.type = "complete" THEN message.reload ELSE reload
  /\ UNCHANGED <<phase, signal, sessions, captures, worker, kill, exit>>

-----------------------------------------------------------------------------
(* The worker.                                                             *)

WorkerLoads ==
  /\ worker = "loading"
  /\ worker' = "waiting"
  /\ toSupervisor' = Append(toSupervisor, Message("online"))
  /\ UNCHANGED <<phase, signal, sessions, captures, reload, monitor, kill, exit, toWorker>>

\* The first message holds the options: run() installs the snapshot handler.
WorkerStarts ==
  /\ worker = "waiting" /\ toWorker # << >>
  /\ worker' = "running"
  /\ toWorker' = Tail(toWorker)
  /\ toSupervisor' = Append(toSupervisor, Message("ready"))
  /\ UNCHANGED <<phase, signal, sessions, captures, reload, monitor, kill, exit>>

\* A capture may throw, and there is none before run() and after it.
Answers(message) ==
  IF message.type = "probe"
  THEN IF worker = "running" THEN {<<Message("ready")>>} ELSE {<< >>}
  ELSE {<<Snapshot(message.id, error)>> :
         error \in IF worker = "running" THEN BOOLEAN ELSE {TRUE}}

WorkerReceives ==
  /\ worker \in {"running", "complete"} /\ toWorker # << >>
  /\ toWorker' = Tail(toWorker)
  /\ \E answer \in Answers(Head(toWorker)) : toSupervisor' = toSupervisor \o answer
  /\ UNCHANGED <<phase, signal, sessions, captures, reload, monitor, worker, kill, exit>>

\* run() ended: the handler is removed and the outcome reported.
WorkerCompletes ==
  /\ worker = "running"
  /\ worker' = "complete"
  /\ \E again \in BOOLEAN : toSupervisor' = Append(toSupervisor, Complete(again))
  /\ UNCHANGED <<phase, signal, sessions, captures, reload, monitor, kill, exit, toWorker>>

WorkerExits ==
  /\ worker = "complete"
  /\ worker' = "dead" /\ exit' = "zero"
  /\ UNCHANGED <<phase, signal, sessions, captures, reload, monitor, kill, toWorker, toSupervisor>>

\* It throws, is killed, or dies of the signal it was sent; what it had not
\* yet written to the channel is lost.
WorkerFails ==
  /\ worker' = "dead" /\ exit' = "failed"
  /\ \E n \in 0 .. Len(toSupervisor) : toSupervisor' = SubSeq(toSupervisor, 1, n)
  /\ UNCHANGED <<phase, signal, sessions, captures, reload, monitor, kill, toWorker>>

WorkerCrashes == worker \in {"loading", "waiting", "running", "complete"} /\ WorkerFails

WorkerKilled == kill /\ worker # "dead" /\ WorkerFails

Next ==
  \/ Prepared \/ PrepareFails \/ Signal \/ Close
  \/ \E level \in {"fine", "low", "critical"}, oom \in BOOLEAN : Sample(level, oom)
  \/ CoolDown \/ SnapshotTimeout \/ SendError \/ Receive
  \/ WorkerLoads \/ WorkerStarts \/ WorkerReceives \/ WorkerCompletes \/ WorkerExits
  \/ WorkerCrashes \/ WorkerKilled

\* Timers and the game owe nothing. The supervisor's event loop and the
\* worker's read their channel, and a signal that was sent arrives.
Fairness ==
  /\ WF_vars(Prepared) /\ WF_vars(Close) /\ WF_vars(Receive)
  /\ WF_vars(WorkerLoads) /\ WF_vars(WorkerStarts) /\ WF_vars(WorkerReceives)
  /\ WF_vars(WorkerExits) /\ WF_vars(WorkerKilled)

Spec == Init /\ [][Next]_vars /\ Fairness

-----------------------------------------------------------------------------
(* Properties *)

\* The captured memory of a request stays until its answer can no longer be
\* accepted, although the map keeps only two; only the last request, and only
\* on a channel that is open, is awaited.
AwaitedRequestIsKnown ==
  /\ \A id \in {monitor.pending, monitor.timedOut} \ {0} :
       id = monitor.lastId /\ id \in monitor.memories
  /\ monitor.pending # 0 => monitor.ready /\ monitor.timedOut = 0

\* A message ends the wait for a request only if it answers that request,
\* whatever was sent, timed out or answered late in between.
AnswersMatch ==
  [][(Receive /\ monitor'.lastId = monitor.lastId) =>
       \A id \in {monitor.pending, monitor.timedOut} \ {0} :
         id \in {monitor'.pending, monitor'.timedOut}
         \/ Head(toSupervisor) \in {Snapshot(id, error) : error \in BOOLEAN}]_vars

\* A critical cause that waits for the channel is sent when it opens: it is
\* neither dropped nor displaced by anything but an OOM event.
CriticalCauseIsSent ==
  [][(Critical(monitor.queued) /\ monitor'.queued # monitor.queued
       /\ phase' = "supervising" /\ sessions' = sessions) =>
       \/ monitor'.queued = "oom-event"
       \/ monitor'.queued = "none" /\ (worker # "dead" =>
            /\ monitor'.pending = monitor.lastId + 1
            /\ toWorker'[Len(toWorker')] = Request(monitor'.pending, monitor.queued))]_vars

\* A signal at any moment ends the supervisor: no worker is started after it,
\* also when the worker had already asked for a reload, and it returns.
NoWorkerAfterSignal ==
  [][signal => /\ sessions' = sessions
               /\ phase' = "preparing" => phase = "preparing"]_vars

SignalEndsSupervisor == signal ~> phase = "returned"

\* A channel that was suspended by a timeout or a failed capture opens again,
\* unless the session ends.
ChannelReopens ==
  (monitor.online /\ ~monitor.ready) ~> (monitor.ready \/ worker \in {"complete", "dead"})

=============================================================================
