--------------------------- MODULE SupervisorProofs ---------------------------
(***************************************************************************)
(* Theorems about Supervisor, for any number of sessions and captures: the *)
(* request that is awaited is the last one and its memory is kept, only    *)
(* its answer ends the wait, a critical cause that waits for the channel   *)
(* is sent when it opens, and no worker starts after a signal.  The        *)
(* invariant adds what each channel may carry, that an open channel has    *)
(* nothing queued, and that no memory is kept of a request yet to come.    *)
(***************************************************************************)
EXTENDS Supervisor, SequenceTheorems, FiniteSetTheorems, TLAPS

\* What the two processes send each other; the options come first. Requests
\* are numbered from 1: 0 stands for none.
Ids == Nat \ {0}
Later == {Message("probe")} \cup {Request(id, cause) : id \in Ids, cause \in Causes}
ToWorker == {Message("options")} \cup Later
FromWorker == {Message("online"), Message("ready")}
              \cup {Snapshot(id, error) : id \in Ids, error \in BOOLEAN}
              \cup {Complete(again) : again \in BOOLEAN}

IsMonitor(m) ==
  m = [online |-> m.online, ready |-> m.ready, probeSent |-> m.probeSent, queued |-> m.queued,
       lastId |-> m.lastId, pending |-> m.pending, timedOut |-> m.timedOut,
       memories |-> m.memories, cooling |-> m.cooling, samples |-> m.samples,
       criticalRequested |-> m.criticalRequested, sends |-> m.sends]

\* The promise of AwaitedRequestIsKnown, of any monitor.
Awaits(m) ==
  /\ \A id \in {m.pending, m.timedOut} \ {0} : id = m.lastId /\ id \in m.memories
  /\ m.pending # 0 => m.ready /\ m.timedOut = 0

MonitorOK(m) ==
  /\ IsMonitor(m)
  /\ m.ready \in BOOLEAN /\ m.queued \in Causes \cup {"none"}
  /\ m.lastId \in Nat /\ m.pending \in Nat /\ m.timedOut \in Nat
  /\ \A id \in m.memories : id \in Nat /\ id <= m.lastId
  /\ m.sends \in Seq(Later)
  /\ Awaits(m)
  /\ m.ready => m.queued = "none"

ChannelsOK ==
  /\ toSupervisor \in Seq(FromWorker)
  /\ toWorker \in Seq(ToWorker)
  /\ \A i \in 1 .. Len(toWorker) :
       toWorker[i] = Message("options") => i = 1 /\ worker \notin {"running", "complete"}

IInv == /\ sessions \in Nat
        /\ MonitorOK(monitor) /\ monitor.sends = << >>
        /\ ChannelsOK

-----------------------------------------------------------------------------
(* The operators on the monitor keep it in order.                          *)

\* A message may be sent: the sends stay a sequence of messages.
LEMMA SendsGrow ==
  ASSUME NEW s \in Seq(Later), NEW x \in Later
  PROVE  Append(s, x) \in Seq(Later)
OBVIOUS

\* The probe changes nothing but that it was sent.
LEMMA ProbeKeeps ==
  ASSUME NEW m, MonitorOK(m), NEW n, n = Probe(m)
  PROVE  /\ MonitorOK(n)
         /\ n.online = m.online /\ n.ready = m.ready /\ n.queued = m.queued
         /\ n.lastId = m.lastId /\ n.pending = m.pending /\ n.timedOut = m.timedOut
         /\ m.ready => n = m \/ n.sends # << >>
<1>1. CASE m.online /\ ~m.probeSent /\ Connected
  <2> DEFINE sent == Append(m.sends, Message("probe"))
  <2>1. n = [m EXCEPT !.probeSent = TRUE, !.sends = sent]
    BY <1>1 DEF Probe
  <2>2. sent \in Seq(Later)
    BY SendsGrow DEF MonitorOK, Later
  <2>3. sent # << >>
    BY DEF MonitorOK
  <2> HIDE DEF sent
  <2>4. n = [online |-> m.online, ready |-> m.ready, probeSent |-> TRUE, queued |-> m.queued,
             lastId |-> m.lastId, pending |-> m.pending, timedOut |-> m.timedOut,
             memories |-> m.memories, cooling |-> m.cooling, samples |-> m.samples,
             criticalRequested |-> m.criticalRequested, sends |-> sent]
    <3>1. IsMonitor(m)
      BY DEF MonitorOK
    <3> QED
      BY <2>1, <3>1 DEF IsMonitor
  <2> QED
    BY <2>2, <2>3, <2>4 DEF MonitorOK, IsMonitor, Awaits
<1>2. CASE ~(m.online /\ ~m.probeSent /\ Connected)
  BY <1>2 DEF Probe
<1> QED
  BY <1>1, <1>2

\* The request that was just sent keeps its memory.
LEMMA NewestKeepsLast ==
  ASSUME NEW last \in Nat, NEW ids, \A id \in ids : id \in Nat /\ id <= last
  PROVE  /\ last + 1 \in Newest(ids \cup {last + 1})
         /\ \A id \in Newest(ids \cup {last + 1}) : id \in Nat /\ id <= last + 1
<1>1. {other \in ids \cup {last + 1} : other > last + 1} = {}
  OBVIOUS
<1>2. Cardinality({other \in ids \cup {last + 1} : other > last + 1}) = 0
  BY <1>1, FS_EmptySet
<1> QED
  BY <1>2 DEF Newest

\* A request that is sent is the only one awaited.
LEMMA SendRequestKeeps ==
  ASSUME NEW m, MonitorOK(m), m.ready, NEW cause \in Causes, NEW n, n = SendRequest(m, cause)
  PROVE  /\ MonitorOK(n) /\ n.ready = m.ready /\ n.queued = m.queued
         /\ n.lastId = m.lastId + 1 /\ n.pending = m.lastId + 1
         /\ n.sends = Append(m.sends, Request(m.lastId + 1, cause))
<1> DEFINE id == m.lastId + 1
           memories == Newest(m.memories \cup {id})
           sent == Append(m.sends, Request(id, cause))
<1>1. n = [m EXCEPT !.lastId = id, !.pending = id, !.timedOut = 0, !.cooling = TRUE,
                    !.memories = memories, !.sends = sent]
  BY DEF SendRequest
<1>2. id \in memories /\ \A other \in memories : other \in Nat /\ other <= id
  BY NewestKeepsLast DEF MonitorOK
<1>3. id \in Ids
  BY DEF MonitorOK, Ids
<1>4. sent \in Seq(Later)
  BY <1>3, SendsGrow DEF MonitorOK, Later
<1> HIDE DEF memories, sent
<1>5. n = [online |-> m.online, ready |-> m.ready, probeSent |-> m.probeSent, queued |-> m.queued,
           lastId |-> id, pending |-> id, timedOut |-> 0,
           memories |-> memories, cooling |-> TRUE, samples |-> m.samples,
           criticalRequested |-> m.criticalRequested, sends |-> sent]
  <2>1. IsMonitor(m)
    BY DEF MonitorOK
  <2> QED
    BY <1>1, <2>1 DEF IsMonitor
<1>6. MonitorOK(n)
  BY <1>2, <1>3, <1>4, <1>5 DEF MonitorOK, IsMonitor, Awaits, Ids
<1> QED
  BY <1>5, <1>6 DEF sent

\* Asking for a snapshot queues the cause, changes nothing, or sends it.
LEMMA RequestKeeps ==
  ASSUME NEW m, MonitorOK(m), NEW cause \in Causes, NEW n, n = RequestSnapshot(m, cause)
  PROVE  /\ MonitorOK(n) /\ n.ready = m.ready
         /\ \/ /\ n.lastId = m.lastId /\ n.pending = m.pending /\ n.timedOut = m.timedOut
               /\ n.queued = m.queued \/ (n.queued = cause /\ Replaces(cause, m.queued))
            \/ n.lastId = m.lastId + 1 /\ n.queued = m.queued
         /\ m.ready /\ Critical(cause) /\ Connected =>
              /\ n.pending = m.lastId + 1
              /\ n.sends = Append(m.sends, Request(m.lastId + 1, cause))
<1>1. CASE ~m.ready
  <2> DEFINE q == IF Replaces(cause, m.queued) THEN cause ELSE m.queued
             w == [m EXCEPT !.queued = q]
  <2>1. n = Probe(w)
    BY <1>1 DEF RequestSnapshot
  <2>2. q \in Causes \cup {"none"}
    BY DEF MonitorOK
  <2>3. q = m.queued \/ (q = cause /\ Replaces(cause, m.queued))
    OBVIOUS
  <2> HIDE DEF q
  <2>4. w = [online |-> m.online, ready |-> m.ready, probeSent |-> m.probeSent, queued |-> q,
             lastId |-> m.lastId, pending |-> m.pending, timedOut |-> m.timedOut,
             memories |-> m.memories, cooling |-> m.cooling, samples |-> m.samples,
             criticalRequested |-> m.criticalRequested, sends |-> m.sends]
    <3>1. IsMonitor(m)
      BY DEF MonitorOK
    <3> QED
      BY <3>1 DEF IsMonitor
  <2> HIDE DEF w
  <2>5. MonitorOK(w)
    BY <1>1, <2>2, <2>4 DEF MonitorOK, IsMonitor, Awaits
  <2> QED
    BY <1>1, <2>1, <2>3, <2>4, <2>5, ProbeKeeps
<1>2. CASE m.ready /\ (~Connected \/ (~Critical(cause) /\ (m.pending # 0 \/ m.cooling)))
  BY <1>2 DEF RequestSnapshot
<1>3. CASE m.ready /\ ~(~Connected \/ (~Critical(cause) /\ (m.pending # 0 \/ m.cooling)))
  <2>1. n = SendRequest(m, cause)
    BY <1>3 DEF RequestSnapshot
  <2> QED
    BY <1>3, <2>1, SendRequestKeeps
<1> QED
  BY <1>1, <1>2, <1>3 DEF MonitorOK

\* An opened channel has nothing queued; what was is sent or has no channel.
LEMMA SetReadyKeeps ==
  ASSUME NEW m, MonitorOK(m), NEW n, n = SetReady(m)
  PROVE  /\ MonitorOK(n) /\ n.ready /\ n.queued = "none"
         /\ \/ n.lastId = m.lastId /\ n.pending = m.pending /\ n.timedOut = m.timedOut
            \/ n.lastId = m.lastId + 1
         /\ Critical(m.queued) /\ Connected =>
              /\ n.pending = m.lastId + 1
              /\ n.sends = Append(m.sends, Request(m.lastId + 1, m.queued))
<1> DEFINE w == [m EXCEPT !.ready = TRUE, !.probeSent = FALSE, !.queued = "none"]
<1>1. n = IF m.queued = "none" THEN w ELSE RequestSnapshot(w, m.queued)
  BY DEF SetReady
<1>2. w = [online |-> m.online, ready |-> TRUE, probeSent |-> FALSE, queued |-> "none",
           lastId |-> m.lastId, pending |-> m.pending, timedOut |-> m.timedOut,
           memories |-> m.memories, cooling |-> m.cooling, samples |-> m.samples,
           criticalRequested |-> m.criticalRequested, sends |-> m.sends]
  <2> DEFINE v == [m EXCEPT !.ready = TRUE, !.probeSent = FALSE]
  <2>1. IsMonitor(m)
    BY DEF MonitorOK
  <2>2. v = [m EXCEPT !.ready = TRUE, !.probeSent = FALSE] /\ w = [v EXCEPT !.queued = "none"]
    OBVIOUS
  <2> HIDE DEF v, w
  <2>3. v = [online |-> m.online, ready |-> TRUE, probeSent |-> FALSE, queued |-> m.queued,
             lastId |-> m.lastId, pending |-> m.pending, timedOut |-> m.timedOut,
             memories |-> m.memories, cooling |-> m.cooling, samples |-> m.samples,
             criticalRequested |-> m.criticalRequested, sends |-> m.sends]
    BY <2>1, <2>2 DEF IsMonitor
  <2> QED
    BY <2>2, <2>3
<1> HIDE DEF w
<1>3. MonitorOK(w)
  BY <1>2 DEF MonitorOK, IsMonitor, Awaits
<1>4. CASE m.queued = "none"
  BY <1>1, <1>2, <1>3, <1>4 DEF Critical, Causes
<1>5. CASE m.queued # "none"
  <2>1. m.queued \in Causes
    BY <1>5 DEF MonitorOK
  <2>2. n = RequestSnapshot(w, m.queued)
    BY <1>1, <1>5
  <2>3. /\ w.ready /\ w.queued = "none" /\ w.lastId = m.lastId /\ w.pending = m.pending
        /\ w.timedOut = m.timedOut /\ w.sends = m.sends
    BY <1>2
  <2>4. /\ MonitorOK(n) /\ n.ready = w.ready
        /\ \/ /\ n.lastId = w.lastId /\ n.pending = w.pending /\ n.timedOut = w.timedOut
           \/ n.lastId = w.lastId + 1
        /\ w.ready /\ Critical(m.queued) /\ Connected =>
              /\ n.pending = w.lastId + 1
              /\ n.sends = Append(w.sends, Request(w.lastId + 1, m.queued))
    BY <1>3, <2>1, <2>2, RequestKeeps
  <2>5. n.queued = "none"
    BY <2>3, <2>4 DEF MonitorOK
  <2> QED
    BY <2>3, <2>4, <2>5
<1> QED
  BY <1>4, <1>5

\* A suspended channel awaits nothing it can be answered by.
LEMMA SuspendKeeps ==
  ASSUME NEW m, NEW n, n = Suspend(m), MonitorOK([m EXCEPT !.ready = FALSE]), IsMonitor(m)
  PROVE  /\ MonitorOK(n) /\ n.queued = m.queued
         /\ n.lastId = m.lastId /\ n.pending = m.pending /\ n.timedOut = m.timedOut
<1> DEFINE w == [m EXCEPT !.ready = FALSE]
<1>1. n = Probe(w)
  BY DEF Suspend
<1>2. /\ w.queued = m.queued /\ w.lastId = m.lastId /\ w.pending = m.pending
      /\ w.timedOut = m.timedOut
  BY DEF IsMonitor
<1> HIDE DEF w
<1> QED
  BY <1>1, <1>2, ProbeKeeps DEF w

\* An answer changes what is awaited only if it was awaited.
LEMMA AnsweredKeeps ==
  ASSUME NEW m, MonitorOK(m), NEW reply, NEW n, n = Answered(m, reply)
  PROVE  /\ MonitorOK(n)
         /\ Awaited(m, reply.id) \/ n = m
         /\ \/ n.queued = m.queued
            \/ /\ n.queued = "none"
               /\ Critical(m.queued) /\ Connected =>
                    /\ n.pending = m.lastId + 1
                    /\ n.sends = Append(m.sends, Request(m.lastId + 1, m.queued))
<1> DEFINE left == m.memories \ {reply.id}
           heard == [m EXCEPT !.memories = left, !.pending = 0, !.timedOut = 0]
           closed == [heard EXCEPT !.ready = FALSE]
<1>1. n = CASE ~Awaited(m, reply.id) -> m
            [] Awaited(m, reply.id) /\ reply.error -> Suspend(heard)
            [] OTHER -> IF heard.ready THEN heard ELSE SetReady(heard)
  BY DEF Answered
<1>2. \A id \in left : id \in m.memories
  OBVIOUS
<1>3. closed = [heard EXCEPT !.ready = FALSE]
  OBVIOUS
<1> HIDE DEF left, closed
<1>4. heard = [online |-> m.online, ready |-> m.ready, probeSent |-> m.probeSent,
               queued |-> m.queued, lastId |-> m.lastId, pending |-> 0, timedOut |-> 0,
               memories |-> left, cooling |-> m.cooling, samples |-> m.samples,
               criticalRequested |-> m.criticalRequested, sends |-> m.sends]
  <2>1. IsMonitor(m)
    BY DEF MonitorOK
  <2>2. heard = [m EXCEPT !.memories = left, !.pending = 0, !.timedOut = 0]
    OBVIOUS
  <2> HIDE DEF heard
  <2> QED
    BY <2>1, <2>2 DEF IsMonitor
<1> HIDE DEF heard
<1>5. IsMonitor(heard) /\ MonitorOK(heard)
  BY <1>2, <1>4 DEF MonitorOK, IsMonitor, Awaits
<1>6. CASE ~Awaited(m, reply.id)
  BY <1>1, <1>6
<1>7. CASE Awaited(m, reply.id) /\ reply.error
  <2>1. n = Suspend(heard)
    BY <1>1, <1>7
  <2>2. closed = [online |-> m.online, ready |-> FALSE, probeSent |-> m.probeSent,
                  queued |-> m.queued, lastId |-> m.lastId, pending |-> 0, timedOut |-> 0,
                  memories |-> left, cooling |-> m.cooling, samples |-> m.samples,
                  criticalRequested |-> m.criticalRequested, sends |-> m.sends]
    BY <1>3, <1>4
  <2>3. MonitorOK(closed)
    BY <1>2, <2>2 DEF MonitorOK, IsMonitor, Awaits
  <2>4. MonitorOK([heard EXCEPT !.ready = FALSE])
    BY <1>3, <2>3
  <2>5. MonitorOK(n) /\ n.queued = heard.queued
    BY <1>5, <2>1, <2>4, SuspendKeeps
  <2> QED
    BY <1>4, <1>7, <2>5
<1>8. CASE Awaited(m, reply.id) /\ ~reply.error
  <2>1. CASE heard.ready
    <3>1. n = heard
      BY <1>1, <1>8, <2>1
    <3> QED
      BY <1>4, <1>5, <1>8, <3>1
  <2>2. CASE ~heard.ready
    <3>1. n = SetReady(heard)
      BY <1>1, <1>8, <2>2
    <3>2. /\ heard.queued = m.queued /\ heard.lastId = m.lastId /\ heard.sends = m.sends
      BY <1>4
    <3>3. /\ MonitorOK(n) /\ n.queued = "none"
          /\ Critical(heard.queued) /\ Connected =>
               /\ n.pending = heard.lastId + 1
               /\ n.sends = Append(heard.sends, Request(heard.lastId + 1, heard.queued))
      BY <1>5, <3>1, SetReadyKeeps
    <3> QED
      BY <1>8, <3>2, <3>3
  <2> QED
    BY <2>1, <2>2
<1> QED
  BY <1>6, <1>7, <1>8

-----------------------------------------------------------------------------
(* The steps.                                                              *)

\* What the properties ask of a step.
MatchStep ==
  (Receive /\ monitor'.lastId = monitor.lastId) =>
    \A id \in {monitor.pending, monitor.timedOut} \ {0} :
      id \in {monitor'.pending, monitor'.timedOut}
      \/ Head(toSupervisor) \in {Snapshot(id, error) : error \in BOOLEAN}

CriticalStep ==
  (Critical(monitor.queued) /\ monitor'.queued # monitor.queued
    /\ phase' = "supervising" /\ sessions' = sessions) =>
    \/ monitor'.queued = "oom-event"
    \/ monitor'.queued = "none" /\ (worker # "dead" =>
         /\ monitor'.pending = monitor.lastId + 1
         /\ toWorker'[Len(toWorker')] = Request(monitor'.pending, monitor.queued))

\* The monitor's messages go to the end of the channel.
LEMMA UpdatingKeeps ==
  ASSUME IInv, NEW m, MonitorOK(m), Updates(m), worker' = worker, sessions' = sessions,
         toSupervisor' \in Seq(FromWorker)
  PROVE  /\ IInv'
         /\ monitor'.queued = m.queued /\ monitor'.lastId = m.lastId
         /\ monitor'.pending = m.pending /\ monitor'.timedOut = m.timedOut
         /\ \A x : m.sends = <<x>> => toWorker'[Len(toWorker')] = x
<1>1. monitor' = [m EXCEPT !.sends = << >>] /\ toWorker' = toWorker \o m.sends
  BY DEF Updates
<1>2. IsMonitor(m)
  BY DEF MonitorOK
<1>3. monitor' = [online |-> m.online, ready |-> m.ready, probeSent |-> m.probeSent,
                  queued |-> m.queued, lastId |-> m.lastId, pending |-> m.pending,
                  timedOut |-> m.timedOut, memories |-> m.memories, cooling |-> m.cooling,
                  samples |-> m.samples, criticalRequested |-> m.criticalRequested,
                  sends |-> << >>]
  BY <1>1, <1>2 DEF IsMonitor
<1>4. << >> \in Seq(Later)
  OBVIOUS
<1>5. MonitorOK(monitor') /\ monitor'.sends = << >>
  BY <1>3, <1>4 DEF MonitorOK, IsMonitor, Awaits
<1>6. m.sends \in Seq(Later) /\ toWorker \in Seq(ToWorker) /\ Later \subseteq ToWorker
  BY DEF MonitorOK, IInv, ChannelsOK, ToWorker
<1>7. Message("options") \notin Later
  <2>1. \A x \in Later : x.type \in {"probe", "request"}
    BY DEF Later, Message, Request
  <2>2. Message("options").type = "options"
    BY DEF Message
  <2> QED
    BY <2>1, <2>2
<1>8. ChannelsOK'
  <2>1. toWorker' \in Seq(ToWorker)
    BY <1>1, <1>6
  <2>2. ASSUME NEW i \in 1 .. Len(toWorker'), toWorker'[i] = Message("options")
        PROVE  i = 1 /\ worker \notin {"running", "complete"}
    <3>1. i \in 1 .. Len(toWorker)
      <4>1. SUFFICES ASSUME i \notin 1 .. Len(toWorker) PROVE FALSE
        OBVIOUS
      <4>2. toWorker'[i] = m.sends[i - Len(toWorker)] /\ i - Len(toWorker) \in 1 .. Len(m.sends)
        BY <1>1, <1>6, <4>1
      <4> QED
        BY <1>6, <1>7, <2>2, <4>2
    <3>2. toWorker'[i] = toWorker[i]
      BY <1>1, <1>6, <3>1
    <3> QED
      BY <2>2, <3>1, <3>2 DEF IInv, ChannelsOK
  <2> QED
    BY <2>1, <2>2 DEF ChannelsOK
<1>9. ASSUME NEW x, m.sends = <<x>> PROVE toWorker'[Len(toWorker')] = x
  BY <1>1, <1>6, <1>9
<1> QED
  BY <1>3, <1>5, <1>8, <1>9 DEF IInv

\* A step that leaves the queue and the monitor's order.
LEMMA RestingKeeps ==
  ASSUME IInv, UNCHANGED <<monitor, sessions, toWorker, worker>>, toSupervisor' \in Seq(FromWorker)
  PROVE  IInv' /\ CriticalStep
BY DEF IInv, MonitorOK, IsMonitor, Awaits, ChannelsOK, CriticalStep

\* Every message of the worker is one of four.
LEMMA MessagesOfWorker ==
  ASSUME NEW x \in FromWorker
  PROVE  /\ x.type \in {"online", "ready", "snapshot", "complete"}
         /\ x.type = "snapshot" => \E id \in Ids, error \in BOOLEAN : x = Snapshot(id, error)
<1>1. CASE x = Message("online") \/ x = Message("ready")
  BY <1>1 DEF Message
<1>2. CASE \E id \in Ids, error \in BOOLEAN : x = Snapshot(id, error)
  BY <1>2 DEF Snapshot
<1>3. CASE \E again \in BOOLEAN : x = Complete(again)
  BY <1>3 DEF Complete
<1> QED
  BY <1>1, <1>2, <1>3 DEF FromWorker

\* A monitor that learns its worker is there is in order.
LEMMA OnlineKeeps ==
  ASSUME NEW m, MonitorOK(m), NEW n, n = [m EXCEPT !.online = TRUE]
  PROVE  /\ MonitorOK(n) /\ n.queued = m.queued /\ n.lastId = m.lastId
         /\ n.pending = m.pending /\ n.timedOut = m.timedOut /\ n.sends = m.sends
<1>1. IsMonitor(m)
  BY DEF MonitorOK
<1>2. n = [online |-> TRUE, ready |-> m.ready, probeSent |-> m.probeSent, queued |-> m.queued,
           lastId |-> m.lastId, pending |-> m.pending, timedOut |-> m.timedOut,
           memories |-> m.memories, cooling |-> m.cooling, samples |-> m.samples,
           criticalRequested |-> m.criticalRequested, sends |-> m.sends]
  BY <1>1 DEF IsMonitor
<1> QED
  BY <1>2 DEF MonitorOK, IsMonitor, Awaits

\* A critical cause that was queued is sent by what the message led to.
LEMMA QueuedIsSent ==
  ASSUME IInv, NEW m, MonitorOK(m), Updates(m), worker' = worker, sessions' = sessions,
         toSupervisor' \in Seq(FromWorker),
         \/ m.queued = monitor.queued
         \/ m.queued = "none" /\ (Critical(monitor.queued) /\ Connected =>
              /\ m.pending = monitor.lastId + 1
              /\ m.sends = Append(monitor.sends, Request(monitor.lastId + 1, monitor.queued)))
  PROVE  CriticalStep
<1>1. /\ monitor'.queued = m.queued /\ monitor'.pending = m.pending
      /\ \A x : m.sends = <<x>> => toWorker'[Len(toWorker')] = x
  BY UpdatingKeeps
<1>2. monitor.sends = << >>
  BY DEF IInv
<1>3. \A x : Append(<< >>, x) = <<x>>
  OBVIOUS
<1> QED
  BY <1>1, <1>2, <1>3 DEF CriticalStep, Connected

\* Each message of the worker leaves the monitor in order.
LEMMA ReceiveKeeps == ASSUME IInv, Receive PROVE IInv' /\ CriticalStep /\ MatchStep
<1> DEFINE message == Head(toSupervisor)
           online == [monitor EXCEPT !.online = TRUE]
           m == CASE message.type = "online" -> online
                  [] message.type = "ready" -> SetReady(online)
                  [] message.type = "snapshot" -> Answered(monitor, message)
                  [] message.type = "complete" -> monitor
<1>1. /\ toSupervisor # << >> /\ toSupervisor' = Tail(toSupervisor)
      /\ Updates(m) /\ worker' = worker /\ sessions' = sessions
  BY DEF Receive
<1>2. toSupervisor \in Seq(FromWorker) /\ MonitorOK(monitor)
  BY DEF IInv, ChannelsOK
<1>3. message \in FromWorker /\ toSupervisor' \in Seq(FromWorker)
  BY <1>1, <1>2
<1>4. /\ message.type \in {"online", "ready", "snapshot", "complete"}
      /\ message.type = "snapshot" => \E id \in Ids, error \in BOOLEAN : message = Snapshot(id, error)
  BY <1>3, MessagesOfWorker
<1>5. /\ MonitorOK(online) /\ online.queued = monitor.queued /\ online.lastId = monitor.lastId
      /\ online.pending = monitor.pending /\ online.timedOut = monitor.timedOut
      /\ online.sends = monitor.sends
  BY <1>2, OnlineKeeps
<1>6. /\ message.type = "online" => m = online
      /\ message.type = "ready" => m = SetReady(online)
      /\ message.type = "snapshot" => m = Answered(monitor, message)
      /\ message.type = "complete" => m = monitor
  OBVIOUS
<1> HIDE DEF m, online
<1>7. CASE message.type = "online"
  <2>1. MonitorOK(m) /\ m.queued = monitor.queued /\ m.pending = monitor.pending /\ m.timedOut = monitor.timedOut
    BY <1>5, <1>6, <1>7
  <2>2. IInv' /\ CriticalStep /\ monitor'.pending = m.pending /\ monitor'.timedOut = m.timedOut
    BY <1>1, <1>3, <2>1, UpdatingKeeps, QueuedIsSent
  <2> QED
    BY <2>1, <2>2 DEF MatchStep
<1>8. CASE message.type = "ready"
  <2>1. m = SetReady(online)
    BY <1>6, <1>8
  <2>2. /\ MonitorOK(m) /\ m.queued = "none"
        /\ \/ m.lastId = online.lastId /\ m.pending = online.pending /\ m.timedOut = online.timedOut
           \/ m.lastId = online.lastId + 1
        /\ Critical(online.queued) /\ Connected =>
             /\ m.pending = online.lastId + 1
             /\ m.sends = Append(online.sends, Request(online.lastId + 1, online.queued))
    BY <1>5, <2>1, SetReadyKeeps
  <2>3. /\ IInv' /\ CriticalStep
        /\ monitor'.lastId = m.lastId /\ monitor'.pending = m.pending /\ monitor'.timedOut = m.timedOut
    <3>1. /\ IInv' /\ monitor'.lastId = m.lastId /\ monitor'.pending = m.pending
          /\ monitor'.timedOut = m.timedOut
      BY <1>1, <1>3, <2>2, UpdatingKeeps
    <3>2. \/ m.queued = monitor.queued
          \/ m.queued = "none" /\ (Critical(monitor.queued) /\ Connected =>
               /\ m.pending = monitor.lastId + 1
               /\ m.sends = Append(monitor.sends, Request(monitor.lastId + 1, monitor.queued)))
      BY <1>5, <2>2
    <3>3. CriticalStep
      BY <1>1, <1>3, <2>2, <3>2, QueuedIsSent
    <3> QED
      BY <3>1, <3>3
  <2>4. monitor'.lastId = monitor.lastId =>
          monitor'.pending = monitor.pending /\ monitor'.timedOut = monitor.timedOut
    BY <1>2, <1>5, <2>2, <2>3 DEF MonitorOK
  <2> QED
    BY <2>3, <2>4 DEF MatchStep
<1>9. CASE message.type = "snapshot"
  <2>1. m = Answered(monitor, message)
    BY <1>6, <1>9
  <2>2. /\ MonitorOK(m) /\ (Awaited(monitor, message.id) \/ m = monitor)
        /\ \/ m.queued = monitor.queued
           \/ m.queued = "none" /\ (Critical(monitor.queued) /\ Connected =>
                /\ m.pending = monitor.lastId + 1
                /\ m.sends = Append(monitor.sends, Request(monitor.lastId + 1, monitor.queued)))
    BY <1>2, <2>1, AnsweredKeeps
  <2>3. /\ IInv' /\ monitor'.pending = m.pending /\ monitor'.timedOut = m.timedOut
    BY <1>1, <1>3, <2>2, UpdatingKeeps
  <2>4. CriticalStep
    BY <1>1, <1>3, <2>2, QueuedIsSent
  <2>5. CASE m = monitor
    BY <2>3, <2>4, <2>5 DEF MatchStep
  <2>6. CASE Awaited(monitor, message.id)
    <3>1. PICK id \in Ids, error \in BOOLEAN : message = Snapshot(id, error)
      BY <1>4, <1>9
    <3>2. message.id = id
      BY <3>1 DEF Snapshot
    <3>3. \A other \in {monitor.pending, monitor.timedOut} \ {0} : other = id
      BY <1>2, <2>6, <3>2 DEF Awaited, MonitorOK, Awaits, Ids
    <3>4. ASSUME NEW other \in {monitor.pending, monitor.timedOut} \ {0}
          PROVE  message \in {Snapshot(other, e) : e \in BOOLEAN}
      BY <3>1, <3>3
    <3>5. MatchStep
      BY <3>4 DEF MatchStep
    <3> QED
      BY <2>3, <2>4, <3>5
  <2> QED
    BY <2>2, <2>5, <2>6
<1>10. CASE message.type = "complete"
  <2>1. m = monitor
    BY <1>6, <1>10
  <2>2. IInv' /\ CriticalStep /\ monitor'.pending = m.pending /\ monitor'.timedOut = m.timedOut
    BY <1>1, <1>2, <1>3, <2>1, UpdatingKeeps, QueuedIsSent
  <2> QED
    BY <2>1, <2>2 DEF MatchStep
<1> QED
  BY <1>4, <1>7, <1>8, <1>9, <1>10

\* A sample asks for a snapshot, or changes only what it counts.
LEMMA SampleKeeps ==
  ASSUME IInv, NEW level, NEW oom \in BOOLEAN, Sample(level, oom)
  PROVE  IInv' /\ CriticalStep
<1> DEFINE samples == IF level # "fine" THEN Min({monitor.samples + 1, 2}) ELSE 0
           cause == Cause(level, oom, samples)
           capture == cause # "none" /\ (Critical(cause) => ~monitor.criticalRequested \/ oom)
           recovered == ~(level # "fine") /\ monitor.samples > 0
           requested == (capture /\ Critical(cause)) \/ (monitor.criticalRequested /\ ~recovered)
           sampled == [monitor EXCEPT !.samples = samples, !.criticalRequested = requested]
           m == IF capture THEN RequestSnapshot(sampled, cause) ELSE sampled
<1>1. /\ Updates(m) /\ worker' = worker /\ sessions' = sessions /\ toSupervisor' = toSupervisor
  BY DEF Sample
<1>2. cause \in Causes \cup {"none"}
  BY DEF Cause, Causes
<1> HIDE DEF samples, requested
<1>3. sampled = [online |-> monitor.online, ready |-> monitor.ready,
                 probeSent |-> monitor.probeSent, queued |-> monitor.queued,
                 lastId |-> monitor.lastId, pending |-> monitor.pending,
                 timedOut |-> monitor.timedOut, memories |-> monitor.memories,
                 cooling |-> monitor.cooling, samples |-> samples,
                 criticalRequested |-> requested, sends |-> monitor.sends]
  <2>1. IsMonitor(monitor)
    BY DEF IInv, MonitorOK
  <2>2. sampled = [monitor EXCEPT !.samples = samples, !.criticalRequested = requested]
    OBVIOUS
  <2> HIDE DEF sampled
  <2> QED
    BY <2>1, <2>2 DEF IsMonitor
<1> HIDE DEF sampled
<1>4. MonitorOK(sampled)
  BY <1>3 DEF IInv, MonitorOK, IsMonitor, Awaits
<1>5. MonitorOK(m) /\ (m.queued = monitor.queued \/ (m.queued = cause /\ Replaces(cause, monitor.queued)))
  <2>1. CASE capture
    <3>1. cause \in Causes /\ m = RequestSnapshot(sampled, cause)
      BY <1>2, <2>1
    <3>2. sampled.queued = monitor.queued
      BY <1>3
    <3> HIDE DEF m, cause
    <3> QED
      BY <1>4, <3>1, <3>2, RequestKeeps
  <2>2. CASE ~capture
    <3>1. m = sampled
      BY <2>2
    <3> QED
      BY <1>3, <1>4, <3>1
  <2> QED
    BY <2>1, <2>2
<1>6. toSupervisor' \in Seq(FromWorker)
  BY <1>1 DEF IInv, ChannelsOK
<1> HIDE DEF m, cause
<1>7. IInv' /\ monitor'.queued = m.queued
  BY <1>1, <1>5, <1>6, UpdatingKeeps
<1>8. CriticalStep
  <2>1. ASSUME Critical(monitor.queued), Replaces(cause, monitor.queued) PROVE cause = "oom-event"
    BY <2>1 DEF Replaces, Critical, Causes
  <2> QED
    BY <1>5, <1>7, <2>1 DEF CriticalStep
<1> QED
  BY <1>7, <1>8

\* A monitor whose channel is suspended, with nothing pending, is in order.
LEMMA ClosingKeeps ==
  ASSUME IInv, NEW timedOut, timedOut = 0 \/ (timedOut = monitor.lastId /\ timedOut \in monitor.memories),
         NEW m, IsMonitor(m), m.queued = monitor.queued, m.lastId = monitor.lastId,
         m.memories = monitor.memories, m.sends = monitor.sends, m.pending = 0,
         m.timedOut = timedOut, Updates(Suspend(m)),
         worker' = worker, sessions' = sessions, toSupervisor' = toSupervisor
  PROVE  IInv' /\ CriticalStep
<1> DEFINE closed == [m EXCEPT !.ready = FALSE]
<1>1. closed = [m EXCEPT !.ready = FALSE]
  OBVIOUS
<1> HIDE DEF closed
<1>2. closed = [online |-> m.online, ready |-> FALSE, probeSent |-> m.probeSent,
                queued |-> m.queued, lastId |-> m.lastId, pending |-> m.pending,
                timedOut |-> m.timedOut, memories |-> m.memories, cooling |-> m.cooling,
                samples |-> m.samples, criticalRequested |-> m.criticalRequested,
                sends |-> m.sends]
  BY <1>1 DEF IsMonitor
<1>3. MonitorOK(closed)
  BY <1>2 DEF IInv, MonitorOK, IsMonitor, Awaits
<1>4. MonitorOK([m EXCEPT !.ready = FALSE])
  BY <1>1, <1>3
<1>5. PICK n : n = Suspend(m)
  OBVIOUS
<1>6. MonitorOK(n) /\ n.queued = m.queued
  BY <1>4, <1>5, SuspendKeeps
<1>7. toSupervisor' \in Seq(FromWorker)
  BY DEF IInv, ChannelsOK
<1>8. Updates(n)
  BY <1>5
<1>9. IInv' /\ monitor'.queued = n.queued
  BY <1>6, <1>7, <1>8, UpdatingKeeps
<1> QED
  BY <1>6, <1>9 DEF CriticalStep

\* A request that times out is remembered.
LEMMA SnapshotTimeoutKeeps == ASSUME IInv, SnapshotTimeout PROVE IInv' /\ CriticalStep
<1> DEFINE m == [monitor EXCEPT !.timedOut = monitor.pending, !.pending = 0]
<1>1. /\ monitor.pending # 0 /\ Updates(Suspend(m))
      /\ worker' = worker /\ sessions' = sessions /\ toSupervisor' = toSupervisor
  BY DEF SnapshotTimeout
<1>2. IsMonitor(monitor)
  BY DEF IInv, MonitorOK
<1>3. m = [monitor EXCEPT !.timedOut = monitor.pending, !.pending = 0]
  OBVIOUS
<1> HIDE DEF m
<1>4. m = [online |-> monitor.online, ready |-> monitor.ready, probeSent |-> monitor.probeSent,
           queued |-> monitor.queued, lastId |-> monitor.lastId, pending |-> 0,
           timedOut |-> monitor.pending, memories |-> monitor.memories,
           cooling |-> monitor.cooling, samples |-> monitor.samples,
           criticalRequested |-> monitor.criticalRequested, sends |-> monitor.sends]
  BY <1>2, <1>3 DEF IsMonitor
<1>5. monitor.pending = monitor.lastId /\ monitor.pending \in monitor.memories
  BY <1>1 DEF IInv, MonitorOK, Awaits
<1>6. IsMonitor(m)
  BY <1>4 DEF IsMonitor
<1>7. /\ m.queued = monitor.queued /\ m.lastId = monitor.lastId /\ m.memories = monitor.memories
      /\ m.sends = monitor.sends /\ m.pending = 0 /\ m.timedOut = monitor.pending
  BY <1>4
<1> QED
  BY <1>1, <1>5, <1>6, <1>7, ClosingKeeps

\* A request that could not be sent is not awaited.
LEMMA SendErrorKeeps == ASSUME IInv, SendError PROVE IInv' /\ CriticalStep
<1> DEFINE m == [monitor EXCEPT !.pending = 0]
<1>1. /\ monitor.pending # 0 /\ Updates(Suspend(m))
      /\ worker' = worker /\ sessions' = sessions /\ toSupervisor' = toSupervisor
  BY DEF SendError
<1>2. IsMonitor(monitor)
  BY DEF IInv, MonitorOK
<1>3. m = [monitor EXCEPT !.pending = 0]
  OBVIOUS
<1> HIDE DEF m
<1>4. m = [online |-> monitor.online, ready |-> monitor.ready, probeSent |-> monitor.probeSent,
           queued |-> monitor.queued, lastId |-> monitor.lastId, pending |-> 0,
           timedOut |-> monitor.timedOut, memories |-> monitor.memories,
           cooling |-> monitor.cooling, samples |-> monitor.samples,
           criticalRequested |-> monitor.criticalRequested, sends |-> monitor.sends]
  BY <1>2, <1>3 DEF IsMonitor
<1>5. monitor.timedOut = 0
  BY <1>1 DEF IInv, MonitorOK, Awaits
<1>6. IsMonitor(m)
  BY <1>4 DEF IsMonitor
<1>7. /\ m.queued = monitor.queued /\ m.lastId = monitor.lastId /\ m.memories = monitor.memories
      /\ m.sends = monitor.sends /\ m.pending = 0 /\ m.timedOut = 0
  BY <1>4, <1>5
<1> QED
  BY <1>1, <1>6, <1>7, ClosingKeeps

\* The end of a cooldown opens and closes nothing.
LEMMA CoolDownKeeps == ASSUME IInv, CoolDown PROVE IInv' /\ CriticalStep
<1>1. IsMonitor(monitor)
  BY DEF IInv, MonitorOK
<1>2. /\ monitor' = [monitor EXCEPT !.cooling = FALSE]
      /\ UNCHANGED <<sessions, toWorker, toSupervisor, worker>>
  BY DEF CoolDown
<1>3. monitor' = [online |-> monitor.online, ready |-> monitor.ready,
                  probeSent |-> monitor.probeSent, queued |-> monitor.queued,
                  lastId |-> monitor.lastId, pending |-> monitor.pending,
                  timedOut |-> monitor.timedOut, memories |-> monitor.memories,
                  cooling |-> FALSE, samples |-> monitor.samples,
                  criticalRequested |-> monitor.criticalRequested, sends |-> monitor.sends]
  BY <1>1, <1>2 DEF IsMonitor
<1>4. MonitorOK(monitor') /\ monitor'.sends = << >> /\ monitor'.queued = monitor.queued
  BY <1>3 DEF IInv, MonitorOK, IsMonitor, Awaits
<1> QED
  BY <1>2, <1>4 DEF IInv, ChannelsOK, CriticalStep

\* A worker starts with a monitor that awaits nothing.
LEMMA FreshIsOK == MonitorOK(FreshMonitor) /\ FreshMonitor.sends = << >>
<1>1. << >> \in Seq(Later)
  OBVIOUS
<1> QED
  BY <1>1 DEF MonitorOK, IsMonitor, Awaits, FreshMonitor

\* A worker is forked after the signal was looked at.
LEMMA PreparedKeeps == ASSUME IInv, Prepared PROVE IInv' /\ CriticalStep
<1>1. CASE signal
  BY <1>1, RestingKeeps DEF Prepared, IInv, ChannelsOK
<1>2. CASE ~signal
  <2>1. /\ worker' = "loading" /\ sessions' = sessions + 1 /\ monitor' = FreshMonitor
        /\ toWorker' = <<Message("options")>> /\ toSupervisor' = << >>
    BY <1>2 DEF Prepared, Fork
  <2>2. sessions' \in Nat /\ sessions' # sessions
    BY <2>1 DEF IInv
  <2>3. ChannelsOK'
    BY <2>1 DEF ChannelsOK, ToWorker
  <2> QED
    BY <2>1, <2>2, <2>3, FreshIsOK DEF IInv, CriticalStep
<1> QED
  BY <1>1, <1>2

\* The worker takes the options first, and answers what comes later.
LEMMA WorkerStartsKeeps == ASSUME IInv, WorkerStarts PROVE IInv' /\ CriticalStep
<1>1. /\ worker = "waiting" /\ toWorker # << >> /\ worker' = "running" /\ toWorker' = Tail(toWorker)
      /\ toSupervisor' = Append(toSupervisor, Message("ready"))
      /\ UNCHANGED <<sessions, monitor>>
  BY DEF WorkerStarts
<1>2. toWorker \in Seq(ToWorker) /\ toSupervisor \in Seq(FromWorker) /\ Message("ready") \in FromWorker
  BY DEF IInv, ChannelsOK, FromWorker
<1>3. toSupervisor' \in Seq(FromWorker) /\ toWorker' \in Seq(ToWorker)
  BY <1>1, <1>2
<1>4. ASSUME NEW i \in 1 .. Len(toWorker') PROVE toWorker'[i] # Message("options")
  <2>1. toWorker'[i] = toWorker[i + 1] /\ i + 1 \in 1 .. Len(toWorker) /\ i + 1 # 1
    BY <1>1, <1>2
  <2> QED
    BY <2>1 DEF IInv, ChannelsOK
<1> QED
  BY <1>1, <1>3, <1>4 DEF IInv, ChannelsOK, CriticalStep, MonitorOK, IsMonitor, Awaits

\* A worker answers each request once, under its number.
LEMMA WorkerReceivesKeeps == ASSUME IInv, WorkerReceives PROVE IInv' /\ CriticalStep
<1>1. /\ worker \in {"running", "complete"} /\ toWorker # << >> /\ toWorker' = Tail(toWorker)
      /\ UNCHANGED <<sessions, monitor, worker>>
  BY DEF WorkerReceives
<1>2. toWorker \in Seq(ToWorker) /\ toSupervisor \in Seq(FromWorker)
  BY DEF IInv, ChannelsOK
<1>3. toWorker' \in Seq(ToWorker)
  BY <1>1, <1>2
<1>4. ASSUME NEW i \in 1 .. Len(toWorker') PROVE toWorker'[i] # Message("options")
  <2>1. toWorker'[i] = toWorker[i + 1] /\ i + 1 \in 1 .. Len(toWorker) /\ i + 1 # 1
    BY <1>1, <1>2
  <2> QED
    BY <2>1 DEF IInv, ChannelsOK
<1>5. Head(toWorker) \in Later
  <2>1. Head(toWorker) = toWorker[1] /\ 1 \in 1 .. Len(toWorker) /\ toWorker[1] \in ToWorker
    BY <1>1, <1>2
  <2>2. toWorker[1] # Message("options")
    BY <1>1, <2>1 DEF IInv, ChannelsOK
  <2> QED
    BY <2>1, <2>2 DEF ToWorker
<1>6. PICK answer \in Answers(Head(toWorker)) : toSupervisor' = toSupervisor \o answer
  BY DEF WorkerReceives
<1>7. answer \in Seq(FromWorker)
  <2>1. CASE Head(toWorker) = Message("probe")
    <3>1. Message("probe").type = "probe"
      BY DEF Message
    <3>2. answer = <<Message("ready")>> \/ answer = << >>
      BY <1>6, <2>1, <3>1 DEF Answers
    <3>3. Message("ready") \in FromWorker
      BY DEF FromWorker
    <3>4. CASE answer = << >>
      BY <3>4
    <3>5. CASE answer = <<Message("ready")>>
      BY <3>3, <3>5
    <3> QED
      BY <3>2, <3>4, <3>5
  <2>2. CASE \E id \in Ids, cause \in Causes : Head(toWorker) = Request(id, cause)
    <3>1. PICK id \in Ids, cause \in Causes : Head(toWorker) = Request(id, cause)
      BY <2>2
    <3>2. Head(toWorker).type = "request" /\ Head(toWorker).id = id
      BY <3>1 DEF Request
    <3>3. PICK error \in BOOLEAN : answer = <<Snapshot(id, error)>>
      BY <1>6, <3>2 DEF Answers
    <3>4. Snapshot(id, error) \in FromWorker
      BY DEF FromWorker
    <3> QED
      BY <3>3, <3>4
  <2> QED
    BY <1>5, <2>1, <2>2 DEF Later
<1>8. toSupervisor' \in Seq(FromWorker)
  BY <1>2, <1>6, <1>7
<1> QED
  BY <1>1, <1>3, <1>4, <1>8 DEF IInv, ChannelsOK, CriticalStep, MonitorOK, IsMonitor, Awaits

\* What the worker says of itself is one of its messages, and what it takes
\* to its end was said before.
LEMMA WorkerMovesKeeps ==
  ASSUME IInv, UNCHANGED <<monitor, sessions, toWorker>>, toSupervisor' \in Seq(FromWorker),
         worker' \in {"running", "complete"} => worker \in {"running", "complete"}
  PROVE  IInv' /\ CriticalStep
BY DEF IInv, MonitorOK, IsMonitor, Awaits, ChannelsOK, CriticalStep

\* What is lost of a channel is its end.
LEMMA WorkerFailsKeeps == ASSUME IInv, WorkerFails PROVE IInv' /\ CriticalStep
<1>1. PICK n \in 0 .. Len(toSupervisor) : toSupervisor' = SubSeq(toSupervisor, 1, n)
  BY DEF WorkerFails
<1>2. toSupervisor \in Seq(FromWorker)
  BY DEF IInv, ChannelsOK
<1>3. toSupervisor' \in Seq(FromWorker)
  BY <1>1, <1>2
<1> QED
  BY <1>3, WorkerMovesKeeps DEF WorkerFails

\* The worker speaks of itself with its own messages.
LEMMA WorkerTellsKeeps ==
  ASSUME IInv, WorkerLoads \/ WorkerCompletes \/ WorkerExits
  PROVE  IInv' /\ CriticalStep
<1>1. toSupervisor \in Seq(FromWorker) /\ Message("online") \in FromWorker
      /\ \A again \in BOOLEAN : Complete(again) \in FromWorker
  BY DEF IInv, ChannelsOK, FromWorker
<1>2. CASE WorkerLoads
  BY <1>1, <1>2, WorkerMovesKeeps DEF WorkerLoads
<1>3. CASE WorkerCompletes
  BY <1>1, <1>3, WorkerMovesKeeps DEF WorkerCompletes
<1>4. CASE WorkerExits
  BY <1>1, <1>4, WorkerMovesKeeps DEF WorkerExits
<1> QED
  BY <1>2, <1>3, <1>4

\* Every step keeps the invariant and sends what waited.
LEMMA NextKeeps == IInv /\ [Next]_vars => IInv' /\ CriticalStep
<1> SUFFICES ASSUME IInv, [Next]_vars PROVE IInv' /\ CriticalStep
  OBVIOUS
<1>1. CASE PrepareFails \/ Signal \/ Close \/ UNCHANGED vars
  <2>1. UNCHANGED <<monitor, sessions, toWorker, worker, toSupervisor>>
    BY <1>1 DEF PrepareFails, Signal, Close, Unchanged, vars
  <2> QED
    BY <2>1, RestingKeeps DEF IInv, ChannelsOK
<1> QED
  BY <1>1, PreparedKeeps, SampleKeeps, CoolDownKeeps, SnapshotTimeoutKeeps, SendErrorKeeps,
     ReceiveKeeps, WorkerTellsKeeps, WorkerStartsKeeps, WorkerReceivesKeeps, WorkerFailsKeeps
     DEF Next, WorkerCrashes, WorkerKilled

\* Before the first worker nothing is awaited.
LEMMA InitOK == Init => IInv
<1>1. << >> \in Seq(FromWorker) /\ << >> \in Seq(ToWorker) /\ Len(<< >>) = 0
  OBVIOUS
<1> QED
  BY <1>1, FreshIsOK DEF Init, IInv, ChannelsOK

-----------------------------------------------------------------------------
(* Theorems.                                                               *)

\* Only the last request is awaited, on an open channel or as the one that
\* timed out, and the memory captured for it is still there, although the
\* map keeps two entries (supervisor.cjs, requestMemorySnapshot and its timer).
THEOREM AwaitedRequestsAreKnown == Spec => []AwaitedRequestIsKnown
<1>1. IInv /\ [Next]_vars => IInv'
  BY NextKeeps
<1>2. IInv => AwaitedRequestIsKnown
  BY DEF IInv, MonitorOK, Awaits, AwaitedRequestIsKnown
<1> QED
  BY InitOK, <1>1, <1>2, PTL DEF Spec

\* Only its own answer ends the wait for a request, whatever other answers
\* come late (supervisor.cjs, the 'message' handler of the child).
THEOREM OnlyItsAnswerEndsTheWait == Spec => AnswersMatch
<1>1. IInv /\ [Next]_vars => IInv'
  BY NextKeeps
<1>2. IInv => MatchStep
  BY ReceiveKeeps DEF MatchStep
<1> QED
  BY InitOK, <1>1, <1>2, PTL DEF Spec, AnswersMatch, MatchStep

\* A critical cause that waits for the channel is sent with its opening, by
\* whatever step opens it, unless an OOM event takes its place
\* (supervisor.cjs, queuedSnapshotRequest and setDiagnosticsReady).
THEOREM CriticalCausesAreSent == Spec => CriticalCauseIsSent
<1>1. IInv /\ [Next]_vars => IInv' /\ CriticalStep
  BY NextKeeps
<1> QED
  BY InitOK, <1>1, PTL DEF Spec, CriticalCauseIsSent, CriticalStep

\* After a signal no worker is forked and no preparation begins, also when a
\* reload had been asked for (supervisor.cjs, the loop of runSupervised).
THEOREM NoWorkerStartsAfterSignal == Spec => NoWorkerAfterSignal
<1>1. [Next]_vars =>
        [signal => /\ sessions' = sessions
                   /\ phase' = "preparing" => phase = "preparing"]_vars
  <2> SUFFICES ASSUME Next, signal
               PROVE  sessions' = sessions /\ (phase' = "preparing" => phase = "preparing")
    BY DEF vars
  <2> QED
    BY DEF Next, Prepared, PrepareFails, Signal, Close, Unchanged, Sample, CoolDown,
           SnapshotTimeout, SendError, Receive, WorkerLoads, WorkerStarts, WorkerReceives,
           WorkerCompletes, WorkerExits, WorkerCrashes, WorkerKilled, WorkerFails
<1> QED
  BY <1>1, PTL DEF Spec, NoWorkerAfterSignal
=============================================================================
