-------------------------- MODULE EventLoopProofs --------------------------
(***************************************************************************)
(* Proofs about the task dispatcher and what a session runs on it:         *)
(* TaskScheduler, for every set of entries, every frame limit and every    *)
(* compaction threshold, and on top of its invariant FrameLoop, for every  *)
(* set of animation callbacks, and Timers, for every set of timers.        *)
(***************************************************************************)
EXTENDS FrameLoop, Timers, SequenceTheorems, FiniteSetTheorems, WellFoundedInduction, TLAPS

----------------------------------------------------------------------------
(* The dispatcher.                                                         *)

\* A stopped dispatcher holds nothing and has no turn coming.
Quiescent ==
  stopped => /\ tasks = <<>> /\ head = 0 /\ continuations = <<>>
             /\ ~scheduled /\ ~frame

\* The frame callback is only ever on the stack of a frame being rendered.
BodyRenders == (onStack = Body) => rendering

LEMMA InitTypeOK == Init => TypeOK
<1> SUFFICES ASSUME Init PROVE TypeOK
  OBVIOUS
<1>1. <<>> \in Seq(Task \cup {Gone}) /\ <<>> \in Seq(Task) /\ Len(<<>>) = 0
  BY EmptySeq
<1>2. tasks \in Seq(Task \cup {Gone}) /\ continuations \in Seq(Task)
  BY <1>1 DEF Init
<1>3. head \in 0..Len(tasks) /\ frameTasks \in 0..FrameLimit
  BY <1>1, SchedulerAssumption DEF Init
<1>4. entry \in [Task -> Fate]
  BY DEF Init, Fate
<1>5. QED
  BY <1>2, <1>3, <1>4 DEF Init, TypeOK

\* Every action of the dispatcher changes the two queues in one of the ways
\* below, whatever else it does.
Refused(t) ==
  /\ entry' = [entry EXCEPT ![t] = "dropped"]
  /\ UNCHANGED <<tasks, head, continuations>>

Pushed(t) ==
  /\ tasks' = Append(tasks, t)
  /\ entry' = [entry EXCEPT ![t] = "accepted"]
  /\ UNCHANGED <<head, continuations>>

PushedContinuation(t) ==
  /\ continuations' = Append(continuations, t)
  /\ entry' = [entry EXCEPT ![t] = "accepted"]
  /\ UNCHANGED <<tasks, head>>

TookContinuation ==
  /\ continuations # <<>>
  /\ continuations' = Tail(continuations)
  /\ entry' = [entry EXCEPT ![Head(continuations)] = "taken"]
  /\ UNCHANGED <<tasks, head>>

TookTask ==
  /\ head < Len(tasks)
  /\ tasks' = [tasks EXCEPT ![head + 1] = Gone]
  /\ head' = head + 1
  /\ entry' = [entry EXCEPT ![tasks[head + 1]] = "taken"]
  /\ UNCHANGED continuations

Emptied ==
  /\ head = Len(tasks)
  /\ tasks' = <<>> /\ head' = 0
  /\ UNCHANGED <<continuations, entry>>

Spliced ==
  /\ head < Len(tasks)
  /\ tasks' = SubSeq(tasks, head + 1, Len(tasks)) /\ head' = 0
  /\ UNCHANGED <<continuations, entry>>

Dropped ==
  /\ tasks' = <<>> /\ head' = 0 /\ continuations' = <<>>
  /\ entry' = [t \in Task |-> IF t \in Waiting THEN "dropped" ELSE entry[t]]

QueueStep ==
  \/ \E t \in Task : entry[t] # "accepted" /\ (Refused(t) \/ Pushed(t) \/ PushedContinuation(t))
  \/ TookContinuation \/ TookTask \/ Emptied \/ Spliced \/ Dropped
  \/ UNCHANGED <<tasks, head, continuations, entry>>

QueuesOK ==
  /\ tasks \in Seq(Task \cup {Gone})
  /\ head \in 0..Len(tasks)
  /\ continuations \in Seq(Task)
  /\ entry \in [Task -> Fate]

\* Accepted entries and the slots and places that hold them correspond one to
\* one, said with indices.
Placement ==
  /\ \A i \in head + 1 .. Len(tasks) : tasks[i] \in Task /\ entry[tasks[i]] = "accepted"
  /\ \A i \in 1 .. Len(continuations) : entry[continuations[i]] = "accepted"
  /\ \A i, j \in head + 1 .. Len(tasks) : tasks[i] = tasks[j] => i = j
  /\ \A i, j \in 1 .. Len(continuations) : continuations[i] = continuations[j] => i = j
  /\ \A i \in head + 1 .. Len(tasks), j \in 1 .. Len(continuations) :
       tasks[i] # continuations[j]
  /\ \A t \in Task : entry[t] = "accepted" =>
       \/ \E i \in head + 1 .. Len(tasks) : tasks[i] = t
       \/ \E i \in 1 .. Len(continuations) : continuations[i] = t

LEMMA NextIsQueueStep ==
  ASSUME QueuesOK, Placement, [Next]_vars
  PROVE  QueueStep
<1>1. ASSUME NEW t \in Task, Enqueue(t) PROVE QueueStep
  BY <1>1 DEF Enqueue, Free, Refuse, Push, QueueStep, Refused, Pushed
<1>2. ASSUME NEW t \in Task, NEW r \in BOOLEAN, Invoke(t, r) PROVE QueueStep
  BY <1>2 DEF Invoke, Free, Refuse, Push, PushContinuation, QueueStep, Refused,
              Pushed, PushedContinuation
<1>3. ASSUME RunFrame \/ Idle PROVE QueueStep
  BY <1>3 DEF RunFrame, Idle, QueueStep
<1>4. ASSUME Stop PROVE QueueStep
  BY <1>4 DEF Stop, StopEffects, QueueStep, Dropped
<1>5. ASSUME Step PROVE QueueStep
  <2>1. CASE StartFrame
    BY <2>1 DEF StartFrame, QueueStep
  <2>2. CASE TakeContinuation
    BY <2>2 DEF TakeContinuation, QueueStep, TookContinuation
  <2>3. CASE TakeTask
    BY <2>3 DEF TakeTask, QueueStep, TookTask
  <2>4. CASE TakeNothing
    BY <2>4 DEF TakeNothing, QueueStep, Emptied
  <2>5. QED
    BY <1>5, <2>1, <2>2, <2>3, <2>4 DEF Step
<1>6. ASSUME EndTurn PROVE QueueStep
  <2>1. CASE EndTask
    <3>1. Len(tasks) \in Nat /\ head \in Nat /\ head <= Len(tasks)
      BY LenProperties DEF QueuesOK
    <3>2. QED
      BY <2>1, <3>1 DEF EndTask, Compact, QueueStep, Emptied, Spliced
  <2>2. CASE EndTaskFatally
    BY <2>2 DEF EndTaskFatally, StopEffects, QueueStep, Dropped
  <2>3. CASE FrameReturns \/ FrameThrows
    BY <2>3 DEF FrameReturns, FrameThrows, QueueStep
  <2>4. QED
    BY <1>6, <2>1, <2>2, <2>3 DEF EndTurn
<1>7. ASSUME FrameSettles PROVE QueueStep
  BY <1>7 DEF FrameSettles, QueueStep
<1>8. ASSUME UNCHANGED vars PROVE QueueStep
  BY <1>8 DEF vars, QueueStep
<1>9. QED
  BY <1>1, <1>2, <1>3, <1>4, <1>5, <1>6, <1>7, <1>8 DEF Next

LEMMA PushedKeeps ==
  ASSUME QueuesOK, Placement, NEW t \in Task, entry[t] # "accepted", Pushed(t)
  PROVE  QueuesOK' /\ Placement'
<1>1. /\ tasks' \in Seq(Task \cup {Gone})
      /\ Len(tasks') = Len(tasks) + 1
      /\ \A i \in 1 .. Len(tasks) : tasks'[i] = tasks[i]
      /\ tasks'[Len(tasks) + 1] = t
      /\ Len(tasks) \in Nat /\ head \in 0..Len(tasks)
  BY AppendProperties, LenProperties DEF QueuesOK, Pushed
<1>2. /\ entry' \in [Task -> Fate] /\ entry'[t] = "accepted"
      /\ \A x \in Task : x # t => entry'[x] = entry[x]
  BY DEF QueuesOK, Pushed, Fate
<1>3. /\ head' = head /\ continuations' = continuations
      /\ Len(continuations) \in Nat
      /\ \A i \in 1 .. Len(continuations) : continuations[i] \in Task /\ continuations[i] # t
  BY LenProperties, ElementOfSeq DEF QueuesOK, Pushed, Placement
<1>4. QueuesOK'
  BY <1>1, <1>2, <1>3 DEF QueuesOK
<1>5. \A i \in head + 1 .. Len(tasks) : tasks[i] # t
  BY DEF Placement
<1>6. \A i \in head + 1 .. Len(tasks') :
         \/ i \in head + 1 .. Len(tasks) /\ tasks'[i] = tasks[i]
         \/ i = Len(tasks) + 1 /\ tasks'[i] = t
  BY <1>1
<1>7. \A i \in head' + 1 .. Len(tasks') : tasks'[i] \in Task /\ entry'[tasks'[i]] = "accepted"
  BY <1>2, <1>3, <1>5, <1>6 DEF Placement
<1>8. \A i, j \in head' + 1 .. Len(tasks') : tasks'[i] = tasks'[j] => i = j
  BY <1>3, <1>5, <1>6 DEF Placement
<1>9. \A i \in head' + 1 .. Len(tasks'), j \in 1 .. Len(continuations') :
         tasks'[i] # continuations'[j]
  BY <1>3, <1>6 DEF Placement
<1>10. \A x \in Task : entry'[x] = "accepted" =>
         \/ \E i \in head' + 1 .. Len(tasks') : tasks'[i] = x
         \/ \E i \in 1 .. Len(continuations') : continuations'[i] = x
  BY <1>1, <1>2, <1>3 DEF Placement
<1>11. \A i \in 1 .. Len(continuations') : entry'[continuations'[i]] = "accepted"
  BY <1>2, <1>3 DEF Placement
<1>12. \A i, j \in 1 .. Len(continuations') : continuations'[i] = continuations'[j] => i = j
  BY <1>3 DEF Placement
<1>13. Placement'
  BY <1>7, <1>8, <1>9, <1>10, <1>11, <1>12 DEF Placement
<1>14. QED
  BY <1>4, <1>13

LEMMA PushedContinuationKeeps ==
  ASSUME QueuesOK, Placement, NEW t \in Task, entry[t] # "accepted", PushedContinuation(t)
  PROVE  QueuesOK' /\ Placement'
<1>1. /\ continuations' \in Seq(Task)
      /\ Len(continuations') = Len(continuations) + 1
      /\ \A i \in 1 .. Len(continuations) : continuations'[i] = continuations[i]
      /\ continuations'[Len(continuations) + 1] = t
      /\ Len(continuations) \in Nat
  BY AppendProperties, LenProperties DEF QueuesOK, PushedContinuation
<1>2. /\ entry' \in [Task -> Fate] /\ entry'[t] = "accepted"
      /\ \A x \in Task : x # t => entry'[x] = entry[x]
  BY DEF QueuesOK, PushedContinuation, Fate
<1>3. /\ head' = head /\ tasks' = tasks /\ Len(tasks) \in Nat /\ head \in 0..Len(tasks)
      /\ \A i \in head + 1 .. Len(tasks) : tasks[i] \in Task /\ tasks[i] # t
  BY LenProperties DEF QueuesOK, PushedContinuation, Placement
<1>4. QueuesOK'
  BY <1>1, <1>2, <1>3 DEF QueuesOK
<1>5. \A i \in 1 .. Len(continuations) : continuations[i] \in Task /\ continuations[i] # t
  BY ElementOfSeq DEF Placement, QueuesOK
<1>6. \A i \in 1 .. Len(continuations') :
         \/ i \in 1 .. Len(continuations) /\ continuations'[i] = continuations[i]
         \/ i = Len(continuations) + 1 /\ continuations'[i] = t
  BY <1>1
<1>7. \A i \in 1 .. Len(continuations') : entry'[continuations'[i]] = "accepted"
  BY <1>2, <1>5, <1>6 DEF Placement
<1>8. \A i, j \in 1 .. Len(continuations') : continuations'[i] = continuations'[j] => i = j
  BY <1>5, <1>6 DEF Placement
<1>9. \A i \in head' + 1 .. Len(tasks'), j \in 1 .. Len(continuations') :
         tasks'[i] # continuations'[j]
  BY <1>3, <1>6 DEF Placement
<1>10. \A x \in Task : entry'[x] = "accepted" =>
         \/ \E i \in head' + 1 .. Len(tasks') : tasks'[i] = x
         \/ \E i \in 1 .. Len(continuations') : continuations'[i] = x
  BY <1>1, <1>2, <1>3 DEF Placement
<1>11. \A i \in head' + 1 .. Len(tasks') : tasks'[i] \in Task /\ entry'[tasks'[i]] = "accepted"
  BY <1>2, <1>3 DEF Placement
<1>12. QED
  BY <1>3, <1>4, <1>7, <1>8, <1>9, <1>10, <1>11 DEF Placement

LEMMA TookContinuationKeeps ==
  ASSUME QueuesOK, Placement, TookContinuation
  PROVE  QueuesOK' /\ Placement'
<1> DEFINE x == Head(continuations)
<1>1. /\ continuations' \in Seq(Task)
      /\ Len(continuations) \in Nat \ {0}
      /\ Len(continuations') = Len(continuations) - 1
      /\ \A i \in 1 .. Len(continuations') : continuations'[i] = continuations[i + 1]
      /\ x = continuations[1] /\ x \in Task
  BY HeadTailProperties, EmptySeq DEF QueuesOK, TookContinuation
<1>2. /\ entry' \in [Task -> Fate] /\ entry'[x] = "taken"
      /\ \A y \in Task : y # x => entry'[y] = entry[y]
  BY <1>1 DEF QueuesOK, TookContinuation, Fate
<1>3. /\ head' = head /\ tasks' = tasks /\ Len(tasks) \in Nat /\ head \in 0..Len(tasks)
      /\ \A i \in head + 1 .. Len(tasks) : tasks[i] \in Task /\ tasks[i] # x
  BY <1>1, LenProperties DEF QueuesOK, TookContinuation, Placement
<1>4. QueuesOK'
  BY <1>1, <1>2, <1>3 DEF QueuesOK
<1>5. \A i \in 1 .. Len(continuations') :
         /\ i + 1 \in 1 .. Len(continuations)
         /\ continuations'[i] = continuations[i + 1]
         /\ continuations[i + 1] \in Task
         /\ continuations[i + 1] # x
  <2> SUFFICES ASSUME NEW i \in 1 .. Len(continuations')
               PROVE  /\ i + 1 \in 1 .. Len(continuations)
                      /\ continuations'[i] = continuations[i + 1]
                      /\ continuations[i + 1] \in Task
                      /\ continuations[i + 1] # x
    OBVIOUS
  <2>1. i + 1 \in 1 .. Len(continuations) /\ 1 \in 1 .. Len(continuations) /\ i + 1 # 1
    BY <1>1
  <2>2. continuations[i + 1] \in Task
    BY <2>1, ElementOfSeq DEF QueuesOK
  <2>3. QED
    BY <1>1, <2>1, <2>2 DEF Placement
<1>6. \A i \in 1 .. Len(continuations') : entry'[continuations'[i]] = "accepted"
  BY <1>2, <1>5 DEF Placement
<1>7. \A i, j \in 1 .. Len(continuations') : continuations'[i] = continuations'[j] => i = j
  <2> SUFFICES ASSUME NEW i \in 1 .. Len(continuations'), NEW j \in 1 .. Len(continuations'),
                      continuations'[i] = continuations'[j]
               PROVE  i = j
    OBVIOUS
  <2>1. i + 1 = j + 1
    BY <1>5 DEF Placement
  <2>2. QED
    BY <2>1
<1>8. \A i \in head' + 1 .. Len(tasks'), j \in 1 .. Len(continuations') :
         tasks'[i] # continuations'[j]
  BY <1>3, <1>5 DEF Placement
<1>9. \A i \in head' + 1 .. Len(tasks') : tasks'[i] \in Task /\ entry'[tasks'[i]] = "accepted"
  BY <1>2, <1>3 DEF Placement
<1>10. ASSUME NEW y \in Task, entry'[y] = "accepted"
       PROVE  \/ \E i \in head' + 1 .. Len(tasks') : tasks'[i] = y
              \/ \E i \in 1 .. Len(continuations') : continuations'[i] = y
  <2>1. y # x /\ entry[y] = "accepted"
    BY <1>2, <1>10
  <2>2. CASE \E i \in head + 1 .. Len(tasks) : tasks[i] = y
    BY <2>2, <1>3
  <2>3. CASE \E i \in 1 .. Len(continuations) : continuations[i] = y
    <3>1. PICK i \in 1 .. Len(continuations) : continuations[i] = y
      BY <2>3
    <3>2. i # 1
      BY <3>1, <2>1, <1>1
    <3>3. i - 1 \in 1 .. Len(continuations') /\ (i - 1) + 1 = i
      BY <3>1, <3>2, <1>1
    <3>4. continuations'[i - 1] = y
      BY <3>1, <3>3, <1>1
    <3>5. QED
      BY <3>3, <3>4
  <2>4. QED
    BY <2>1, <2>2, <2>3 DEF Placement
<1>11. QED
  BY <1>3, <1>4, <1>6, <1>7, <1>8, <1>9, <1>10 DEF Placement

LEMMA TookTaskKeeps ==
  ASSUME QueuesOK, Placement, TookTask
  PROVE  QueuesOK' /\ Placement'
<1> DEFINE x == tasks[head + 1]
<1>1. /\ Len(tasks) \in Nat /\ head \in 0..Len(tasks)
      /\ head + 1 \in 1..Len(tasks) /\ head + 1 \in head + 1 .. Len(tasks)
  BY LenProperties DEF QueuesOK, TookTask
<1>2. x \in Task
  BY <1>1 DEF Placement
<1>3. /\ tasks' \in Seq(Task \cup {Gone})
      /\ Len(tasks') = Len(tasks)
      /\ \A i \in 1 .. Len(tasks) : tasks'[i] = IF i = head + 1 THEN Gone ELSE tasks[i]
  BY <1>1, ExceptSeq DEF QueuesOK, TookTask
<1>4. /\ entry' \in [Task -> Fate] /\ entry'[x] = "taken"
      /\ \A y \in Task : y # x => entry'[y] = entry[y]
  BY <1>2 DEF QueuesOK, TookTask, Fate
<1>5. /\ continuations' = continuations /\ Len(continuations) \in Nat
      /\ \A i \in 1 .. Len(continuations) : continuations[i] \in Task /\ continuations[i] # x
  BY <1>1, LenProperties, ElementOfSeq DEF QueuesOK, TookTask, Placement
<1>6. head' = head + 1
  BY DEF TookTask
<1>7. QueuesOK'
  BY <1>1, <1>3, <1>4, <1>5, <1>6 DEF QueuesOK
<1>8. \A i \in head' + 1 .. Len(tasks') :
         /\ i \in head + 1 .. Len(tasks)
         /\ tasks'[i] = tasks[i]
         /\ tasks[i] # x
  BY <1>1, <1>3, <1>6 DEF Placement
<1>9. \A i \in head' + 1 .. Len(tasks') : tasks'[i] \in Task /\ entry'[tasks'[i]] = "accepted"
  BY <1>4, <1>8 DEF Placement
<1>10. \A i, j \in head' + 1 .. Len(tasks') : tasks'[i] = tasks'[j] => i = j
  BY <1>8 DEF Placement
<1>11. \A i \in head' + 1 .. Len(tasks'), j \in 1 .. Len(continuations') :
         tasks'[i] # continuations'[j]
  BY <1>5, <1>8 DEF Placement
<1>12. \A i \in 1 .. Len(continuations') : entry'[continuations'[i]] = "accepted"
  BY <1>4, <1>5 DEF Placement
<1>13. ASSUME NEW y \in Task, entry'[y] = "accepted"
       PROVE  \/ \E i \in head' + 1 .. Len(tasks') : tasks'[i] = y
              \/ \E i \in 1 .. Len(continuations') : continuations'[i] = y
  <2>1. y # x /\ entry[y] = "accepted"
    BY <1>4, <1>13
  <2>2. CASE \E i \in head + 1 .. Len(tasks) : tasks[i] = y
    <3>1. PICK i \in head + 1 .. Len(tasks) : tasks[i] = y
      BY <2>2
    <3>2. i \in head' + 1 .. Len(tasks') /\ tasks'[i] = y
      BY <3>1, <2>1, <1>1, <1>3, <1>6
    <3>3. QED
      BY <3>2
  <2>3. CASE \E i \in 1 .. Len(continuations) : continuations[i] = y
    BY <2>3, <1>5
  <2>4. QED
    BY <2>1, <2>2, <2>3 DEF Placement
<1>14. QED
  BY <1>5, <1>7, <1>9, <1>10, <1>11, <1>12, <1>13 DEF Placement

LEMMA SplicedKeeps ==
  ASSUME QueuesOK, Placement, Spliced
  PROVE  QueuesOK' /\ Placement'
<1>1. Len(tasks) \in Nat /\ head \in 0..Len(tasks) /\ head < Len(tasks)
  BY LenProperties DEF QueuesOK, Spliced
<1>2. \A i \in head + 1 .. Len(tasks) : tasks[i] \in Task \cup {Gone}
  BY <1>1, ElementOfSeq DEF QueuesOK
<1>3. /\ tasks' \in Seq(Task \cup {Gone})
      /\ Len(tasks') = Len(tasks) - head
      /\ \A i \in 1 .. Len(tasks) - head : tasks'[i] = tasks[head + i]
  <2>1. head + 1 \in Int /\ Len(tasks) \in Int
    BY <1>1
  <2>2. /\ tasks' \in Seq(Task \cup {Gone})
        /\ Len(tasks') = IF head + 1 <= Len(tasks) THEN Len(tasks) - (head + 1) + 1 ELSE 0
        /\ \A i \in 1 .. Len(tasks) - (head + 1) + 1 : tasks'[i] = tasks[head + 1 + i - 1]
    BY <2>1, <1>2, SubSeqProperties DEF Spliced
  <2>3. head + 1 <= Len(tasks) /\ Len(tasks) - (head + 1) + 1 = Len(tasks) - head
    BY <1>1
  <2>4. \A i \in 1 .. Len(tasks) - head : head + 1 + i - 1 = head + i
    BY <1>1
  <2>5. Len(tasks') = Len(tasks) - head
    BY <2>2, <2>3
  <2>6. \A i \in 1 .. Len(tasks) - head : tasks'[i] = tasks[head + i]
    BY <2>2, <2>3, <2>4
  <2>7. QED
    BY <2>2, <2>5, <2>6
<1>4. head' = 0 /\ UNCHANGED <<continuations, entry>>
  BY DEF Spliced
<1>5. QueuesOK'
  BY <1>1, <1>3, <1>4 DEF QueuesOK
<1>6. \A i \in head' + 1 .. Len(tasks') :
         head + i \in head + 1 .. Len(tasks) /\ tasks'[i] = tasks[head + i]
  BY <1>1, <1>3, <1>4
<1>7. \A i \in head' + 1 .. Len(tasks') : tasks'[i] \in Task /\ entry'[tasks'[i]] = "accepted"
  BY <1>4, <1>6 DEF Placement
<1>8. \A i, j \in head' + 1 .. Len(tasks') : tasks'[i] = tasks'[j] => i = j
  <2> SUFFICES ASSUME NEW i \in head' + 1 .. Len(tasks'), NEW j \in head' + 1 .. Len(tasks'),
                      tasks'[i] = tasks'[j]
               PROVE  i = j
    OBVIOUS
  <2>1. head + i = head + j
    BY <1>6 DEF Placement
  <2>2. QED
    BY <2>1, <1>1
<1>9. \A i \in head' + 1 .. Len(tasks'), j \in 1 .. Len(continuations') :
         tasks'[i] # continuations'[j]
  BY <1>4, <1>6 DEF Placement
<1>10. ASSUME NEW y \in Task, entry'[y] = "accepted"
       PROVE  \/ \E i \in head' + 1 .. Len(tasks') : tasks'[i] = y
              \/ \E i \in 1 .. Len(continuations') : continuations'[i] = y
  <2>1. CASE \E i \in head + 1 .. Len(tasks) : tasks[i] = y
    <3>1. PICK i \in head + 1 .. Len(tasks) : tasks[i] = y
      BY <2>1
    <3>2. i - head \in 1 .. Len(tasks) - head /\ head + (i - head) = i
      BY <3>1, <1>1
    <3>3. tasks'[i - head] = y
      BY <3>1, <3>2, <1>3
    <3>4. i - head \in head' + 1 .. Len(tasks')
      BY <3>2, <1>3, <1>4
    <3>5. QED
      BY <3>3, <3>4
  <2>2. CASE \E i \in 1 .. Len(continuations) : continuations[i] = y
    BY <2>2, <1>4
  <2>3. QED
    BY <2>1, <2>2, <1>10, <1>4 DEF Placement
<1>11. QED
  BY <1>4, <1>5, <1>7, <1>8, <1>9, <1>10 DEF Placement

LEMMA DroppedKeeps ==
  ASSUME QueuesOK, Placement, Dropped
  PROVE  QueuesOK' /\ Placement'
<1>1. tasks' = <<>> /\ head' = 0 /\ continuations' = <<>>
  BY DEF Dropped
<1>2. /\ <<>> \in Seq(Task \cup {Gone}) /\ <<>> \in Seq(Task) /\ Len(<<>>) = 0
  BY EmptySeq
<1>3. entry' \in [Task -> Fate]
  BY DEF Dropped, QueuesOK, Fate
<1>4. \A t \in Task : entry'[t] # "accepted"
  BY DEF Dropped, Waiting, Placement
<1>5. QueuesOK'
  BY <1>1, <1>2, <1>3 DEF QueuesOK
<1>6. QED
  BY <1>1, <1>2, <1>4, <1>5 DEF Placement

\* The two queues and the history of the entries stay consistent whatever the
\* dispatcher does.
LEMMA QueuesKeep ==
  ASSUME QueuesOK, Placement, [Next]_vars
  PROVE  QueuesOK' /\ Placement'
<1>1. ASSUME NEW t \in Task, entry[t] # "accepted", Refused(t) PROVE QueuesOK' /\ Placement'
  <2>1. /\ entry' \in [Task -> Fate]
        /\ entry'[t] # "accepted"
        /\ \A y \in Task : y # t => entry'[y] = entry[y]
    BY <1>1 DEF QueuesOK, Refused, Fate
  <2>2. UNCHANGED <<tasks, head, continuations>>
    BY <1>1 DEF Refused
  <2>3. \A i \in 1 .. Len(continuations) : continuations[i] \in Task
    BY ElementOfSeq DEF QueuesOK
  <2>4. QED
    BY <1>1, <2>1, <2>2, <2>3 DEF QueuesOK, Placement
<1>2. ASSUME Emptied PROVE QueuesOK' /\ Placement'
  <2>1. <<>> \in Seq(Task \cup {Gone}) /\ Len(<<>>) = 0 /\ Len(tasks) \in Nat
    BY EmptySeq, LenProperties DEF QueuesOK
  <2>2. QED
    BY <1>2, <2>1 DEF Emptied, QueuesOK, Placement
<1>3. CASE UNCHANGED <<tasks, head, continuations, entry>>
  BY <1>3 DEF QueuesOK, Placement
<1>4. QueueStep
  BY NextIsQueueStep
<1>5. QED
  BY <1>1, <1>2, <1>3, <1>4, PushedKeeps, PushedContinuationKeeps, TookContinuationKeeps,
     TookTaskKeeps, SplicedKeeps, DroppedKeeps DEF QueueStep

\* The variables that are not queues.
FlagsOK ==
  /\ scheduled \in BOOLEAN
  /\ stopped \in BOOLEAN
  /\ rendering \in BOOLEAN
  /\ frame \in BOOLEAN
  /\ frameTasks \in 0..FrameLimit
  /\ idleWaiters \in BOOLEAN
  /\ onStack \in Task \cup {Body, None}

LEMMA FlagsKeep ==
  ASSUME QueuesOK, Placement, FlagsOK, [Next]_vars
  PROVE  FlagsOK'
<1>1. ASSUME NEW t \in Task, Enqueue(t) PROVE FlagsOK'
  BY <1>1 DEF Enqueue, Refuse, Push, Wake, FlagsOK
<1>2. ASSUME NEW t \in Task, NEW r \in BOOLEAN, Invoke(t, r) PROVE FlagsOK'
  BY <1>2 DEF Invoke, Refuse, Push, PushContinuation, Wake, FlagsOK
<1>3. ASSUME RunFrame \/ Idle PROVE FlagsOK'
  <2>1. 0 \in 0..FrameLimit
    BY SchedulerAssumption
  <2>2. frameTasks' \in 0..FrameLimit
    BY <1>3, <2>1 DEF RunFrame, Idle, FlagsOK
  <2>3. QED
    BY <1>3, <2>2 DEF RunFrame, Idle, Wake, FlagsOK
<1>4. ASSUME Stop PROVE FlagsOK'
  BY <1>4 DEF Stop, StopEffects, FlagsOK
<1>5. ASSUME StartFrame PROVE FlagsOK'
  BY <1>5 DEF StartFrame, FlagsOK
<1>6. ASSUME TakeContinuation PROVE FlagsOK'
  <2>1. Head(continuations) \in Task
    BY <1>6, HeadTailProperties DEF TakeContinuation, QueuesOK
  <2>2. QED
    BY <1>6, <2>1 DEF TakeContinuation, FlagsOK
<1>7. ASSUME TakeTask PROVE FlagsOK'
  <2>1. head + 1 \in head + 1 .. Len(tasks)
    BY <1>7, LenProperties DEF TakeTask, QueuesOK
  <2>2. tasks[head + 1] \in Task
    BY <2>1 DEF Placement
  <2>3. frameTasks' \in 0..FrameLimit
    BY <1>7, SchedulerAssumption DEF TakeTask, FrameMustStart, BudgetSpent, FlagsOK
  <2>4. QED
    BY <1>7, <2>2, <2>3 DEF TakeTask, FlagsOK
<1>8. ASSUME TakeNothing PROVE FlagsOK'
  BY <1>8 DEF TakeNothing, FlagsOK
<1>9. ASSUME EndTurn PROVE FlagsOK'
  BY <1>9 DEF EndTurn, EndTask, EndTaskFatally, FrameReturns, FrameThrows, StopEffects,
              Wake, FlagsOK
<1>10. ASSUME FrameSettles PROVE FlagsOK'
  BY <1>10 DEF FrameSettles, Wake, FlagsOK
<1>11. ASSUME UNCHANGED vars PROVE FlagsOK'
  BY <1>11 DEF vars, FlagsOK
<1>12. QED
  BY <1>1, <1>2, <1>3, <1>4, <1>5, <1>6, <1>7, <1>8, <1>9, <1>10, <1>11 DEF Next, Step

LEMMA TypeOKParts == TypeOK <=> (FlagsOK /\ QueuesOK)
BY DEF TypeOK, FlagsOK, QueuesOK

LEMMA InitPlacement == Init => Placement
<1>1. Len(<<>>) = 0
  BY EmptySeq
<1>2. QED
  BY <1>1 DEF Init, Placement

\* The variables keep their types, and accepted entries and the places that
\* hold them correspond one to one.
THEOREM TypeAndPlacement == Spec => [](TypeOK /\ Placement)
<1>1. Init => TypeOK /\ Placement
  BY InitTypeOK, InitPlacement
<1>2. TypeOK /\ Placement /\ [Next]_vars => (TypeOK /\ Placement)'
  <2> SUFFICES ASSUME TypeOK, Placement, [Next]_vars PROVE (TypeOK /\ Placement)'
    OBVIOUS
  <2>1. FlagsOK /\ QueuesOK
    BY TypeOKParts
  <2>2. FlagsOK' /\ QueuesOK' /\ Placement'
    BY <2>1, FlagsKeep, QueuesKeep
  <2>3. TypeOK'
    BY <2>2 DEF TypeOK, FlagsOK, QueuesOK
  <2>4. QED
    BY <2>2, <2>3
<1>3. QED
  BY <1>1, <1>2, PTL DEF Spec

\* Type correctness of the dispatcher, for every set of entries and limits.
THEOREM TypeCorrect == Spec => []TypeOK
<1>1. TypeOK /\ Placement => TypeOK
  OBVIOUS
<1>2. QED
  BY <1>1, TypeAndPlacement, PTL

\* Said of slots and their occupants.
LEMMA PlacementSuffices ==
  ASSUME TypeOK, Placement
  PROVE  NothingLostOrTwice
<1>1. \A i \in 1 .. Len(continuations) : continuations[i] \in Task
  BY ElementOfSeq DEF TypeOK
<1>2. \A t \in Accepted : \E slot \in Slots : Occupant(slot) = t
  <2> SUFFICES ASSUME NEW t \in Accepted PROVE \E slot \in Slots : Occupant(slot) = t
    OBVIOUS
  <2>1. CASE \E i \in head + 1 .. Len(tasks) : tasks[i] = t
    <3>1. PICK i \in head + 1 .. Len(tasks) : tasks[i] = t
      BY <2>1
    <3>2. <<"task", i>> \in Slots /\ Occupant(<<"task", i>>) = t
      BY <3>1 DEF Slots, Occupant
    <3>3. QED
      BY <3>2
  <2>2. CASE \E i \in 1 .. Len(continuations) : continuations[i] = t
    <3>1. PICK i \in 1 .. Len(continuations) : continuations[i] = t
      BY <2>2
    <3>2. <<"continuation", i>> \in Slots /\ Occupant(<<"continuation", i>>) = t
      BY <3>1 DEF Slots, Occupant
    <3>3. QED
      BY <3>2
  <2>3. QED
    BY <2>1, <2>2 DEF Accepted, Placement
<1>3. \A slot \in Slots : Occupant(slot) \in Accepted
  BY <1>1 DEF Slots, Occupant, Accepted, Placement
<1>4. \A s1, s2 \in Slots : Occupant(s1) = Occupant(s2) => s1 = s2
  BY DEF Slots, Occupant, Placement
<1>5. QED
  BY <1>2, <1>3, <1>4 DEF NothingLostOrTwice

\* No accepted entry is ever lost or held twice: what the head index, the
\* reset, the compaction and stop() of scheduler.js must not break.
THEOREM EntriesConserved == Spec => []NothingLostOrTwice
<1>1. TypeOK /\ Placement => NothingLostOrTwice
  BY PlacementSuffices
<1>2. QED
  BY <1>1, TypeAndPlacement, PTL

-----------------------------------------------------------------------------
(* Turns: wakeups, the bound on consumed slots, and what a stop leaves.    *)

\* While a continuation runs the array is as the task before it left it.
CompactedOutsideTasks ==
  (onStack \in {None, Body} \/ rendering) =>
    (head <= CompactAfter \/ head * 2 < Len(tasks))

TurnInv == Quiescent /\ BodyRenders /\ NoLostWakeup /\ CompactedOutsideTasks

LEMMA InitTurnInv == Init => TurnInv
<1>1. Len(<<>>) = 0
  BY EmptySeq
<1>2. Init => CompactedOutsideTasks
  BY SchedulerAssumption DEF Init, CompactedOutsideTasks
<1>3. Init => NoLostWakeup
  BY <1>1 DEF Init, NoLostWakeup
<1>4. Init => Quiescent /\ BodyRenders
  BY SchedulerAssumption DEF Init, Quiescent, BodyRenders
<1>5. QED
  BY <1>2, <1>3, <1>4 DEF TurnInv

LEMMA TurnInvKeeps ==
  ASSUME TypeOK, Placement, TurnInv, [Next]_vars
  PROVE  TurnInv'
<1>1. /\ Len(tasks) \in Nat /\ head \in Nat /\ head <= Len(tasks)
      /\ Body \notin Task /\ None \notin Task /\ Body # None
      /\ CompactAfter \in Nat
      /\ Len(<<>>) = 0
      /\ \A t : Len(Append(tasks, t)) = Len(tasks) + 1
  BY LenProperties, EmptySeq, SchedulerAssumption DEF TypeOK
<1> USE DEF TurnInv
<1>2. ASSUME NEW t \in Task,
             Refuse(t) \/ Push(t) \/ PushContinuation(t),
             UNCHANGED <<head, stopped, rendering, frame, frameTasks, idleWaiters, onStack>>
      PROVE  TurnInv'
  <2>1. Quiescent'
    BY <1>2 DEF Quiescent, Refuse, Push, PushContinuation, Wake
  <2>2. BodyRenders'
    BY <1>2 DEF BodyRenders
  <2>3. NoLostWakeup'
    BY <1>2 DEF NoLostWakeup, Refuse, Push, PushContinuation, Wake
  <2>4. Len(tasks') >= Len(tasks) /\ Len(tasks') \in Nat
    BY <1>1, <1>2 DEF Refuse, Push, PushContinuation
  <2>5. CompactedOutsideTasks'
    BY <1>1, <1>2, <2>4 DEF CompactedOutsideTasks
  <2>6. QED
    BY <2>1, <2>2, <2>3, <2>5
<1>3. ASSUME NEW t \in Task, Enqueue(t) PROVE TurnInv'
  BY <1>2, <1>3 DEF Enqueue
<1>4. ASSUME NEW t \in Task, NEW r \in BOOLEAN, Invoke(t, r) PROVE TurnInv'
  BY <1>2, <1>4 DEF Invoke
<1>5. ASSUME RunFrame \/ Idle PROVE TurnInv'
  <2>1. Quiescent' /\ BodyRenders' /\ CompactedOutsideTasks'
    BY <1>5 DEF RunFrame, Idle, Quiescent, BodyRenders, CompactedOutsideTasks
  <2>2. NoLostWakeup'
    BY <1>5 DEF RunFrame, Idle, Wake, NoLostWakeup
  <2>3. QED
    BY <2>1, <2>2
<1>6. ASSUME StopEffects, onStack' \in {onStack, None} PROVE TurnInv'
  BY <1>1, <1>6 DEF StopEffects, Quiescent, BodyRenders, NoLostWakeup, CompactedOutsideTasks
<1>7. ASSUME StartFrame PROVE TurnInv'
  BY <1>1, <1>7 DEF StartFrame, Turn, Quiescent, BodyRenders, NoLostWakeup,
                    CompactedOutsideTasks
<1>8. ASSUME TakeContinuation PROVE TurnInv'
  <2>1. Head(continuations) \in Task
    BY <1>8, HeadTailProperties DEF TakeContinuation, TypeOK
  <2>2. QED
    BY <1>1, <1>8, <2>1 DEF TakeContinuation, Turn, Quiescent, BodyRenders, NoLostWakeup,
                            CompactedOutsideTasks
<1>9. ASSUME TakeTask PROVE TurnInv'
  <2>1. tasks[head + 1] \in Task
    BY <1>1, <1>9 DEF TakeTask, Placement
  <2>2. QED
    BY <1>1, <1>9, <2>1 DEF TakeTask, Turn, Quiescent, BodyRenders, NoLostWakeup,
                            CompactedOutsideTasks
<1>10. ASSUME TakeNothing PROVE TurnInv'
  BY <1>1, <1>10 DEF TakeNothing, Turn, Quiescent, BodyRenders, NoLostWakeup,
                     CompactedOutsideTasks
<1>11. ASSUME EndTask PROVE TurnInv'
  <2>1. Quiescent'
    BY <1>1, <1>11 DEF EndTask, Compact, Wake, Quiescent
  <2>2. BodyRenders' /\ NoLostWakeup'
    BY <1>1, <1>11 DEF EndTask, Wake, BodyRenders, NoLostWakeup
  <2>3. CompactedOutsideTasks'
    BY <1>1, <1>11 DEF EndTask, Compact, CompactedOutsideTasks
  <2>4. QED
    BY <2>1, <2>2, <2>3
<1>12. ASSUME EndTaskFatally PROVE TurnInv'
  <2>1. CASE stopped
    BY <1>1, <1>12, <2>1 DEF EndTaskFatally, Quiescent, BodyRenders, NoLostWakeup,
                             CompactedOutsideTasks
  <2>2. CASE ~stopped
    BY <1>6, <1>12, <2>2 DEF EndTaskFatally
  <2>3. QED
    BY <2>1, <2>2
<1>13. ASSUME FrameReturns \/ FrameThrows PROVE TurnInv'
  <2>1. rendering
    BY <1>13 DEF FrameReturns, FrameThrows, BodyRenders
  <2>2. Quiescent'
    BY <1>13 DEF FrameReturns, FrameThrows, Wake, Quiescent
  <2>3. BodyRenders'
    BY <1>1, <1>13 DEF FrameReturns, FrameThrows, BodyRenders
  <2>6. CompactedOutsideTasks'
    BY <1>13, <2>1 DEF FrameReturns, FrameThrows, CompactedOutsideTasks
  <2>4. CASE FrameReturns
    <3>1. rendering'
      BY <2>1, <2>4 DEF FrameReturns
    <3>2. NoLostWakeup'
      BY <3>1 DEF NoLostWakeup
    <3>3. QED
      BY <2>2, <2>3, <2>6, <3>2
  <2>5. CASE FrameThrows
    <3>1. scheduled' = (scheduled \/ ~stopped) /\ stopped' = stopped
      BY <2>5 DEF FrameThrows, Wake
    <3>2. ~stopped' => scheduled'
      BY <3>1
    <3>3. NoLostWakeup'
      BY <3>2 DEF NoLostWakeup
    <3>4. QED
      BY <2>2, <2>3, <2>6, <3>3
  <2>7. QED
    BY <1>13, <2>4, <2>5
<1>14. ASSUME FrameSettles PROVE TurnInv'
  BY <1>1, <1>14 DEF FrameSettles, Wake, Quiescent, BodyRenders, NoLostWakeup,
                     CompactedOutsideTasks
<1>15. ASSUME UNCHANGED vars PROVE TurnInv'
  BY <1>15 DEF vars, Quiescent, BodyRenders, NoLostWakeup, CompactedOutsideTasks
<1>16. ASSUME Stop PROVE TurnInv'
  BY <1>6, <1>16 DEF Stop
<1>17. QED
  BY <1>3, <1>4, <1>5, <1>7, <1>8, <1>9, <1>10, <1>11, <1>12, <1>13, <1>14, <1>15, <1>16
     DEF Next, Step, EndTurn

IndInv == TypeOK /\ Placement /\ TurnInv

\* Every step of the dispatcher keeps the whole invariant.
LEMMA IndInvKeeps ==
  ASSUME IndInv, [Next]_vars
  PROVE  IndInv'
<1>1. FlagsOK /\ QueuesOK /\ Placement /\ TurnInv
  BY TypeOKParts DEF IndInv
<1>2. FlagsOK' /\ QueuesOK' /\ Placement'
  BY <1>1, FlagsKeep, QueuesKeep
<1>3. TurnInv'
  BY <1>1, TurnInvKeeps DEF IndInv
<1>4. QED
  BY <1>2, <1>3 DEF IndInv, TypeOK, FlagsOK, QueuesOK

LEMMA InitIndInv == Init => IndInv
BY InitTypeOK, InitPlacement, InitTurnInv DEF IndInv

LEMMA Inductive == Spec => []IndInv
<1>1. IndInv /\ [Next]_vars => IndInv'
  BY IndInvKeeps
<1>2. QED
  BY <1>1, InitIndInv, PTL DEF Spec

\* No host turn is missing while step() has something to do outside a frame.
THEOREM WakeupsNeverLost == Spec => []NoLostWakeup
<1>1. IndInv => NoLostWakeup
  BY DEF IndInv, TurnInv
<1>2. QED
  BY <1>1, Inductive, PTL

\* The consumed slots the array keeps between turns are few or fewer than the
\* entries that wait, for every compaction threshold.
THEOREM ConsumedSlotsStayBounded == Spec => []ConsumedSlotsBounded
<1>1. IndInv => ConsumedSlotsBounded
  BY DEF IndInv, TurnInv, CompactedOutsideTasks, ConsumedSlotsBounded
<1>2. QED
  BY <1>1, Inductive, PTL

-----------------------------------------------------------------------------
(* Refinement: every step maps to a step of DispatchQueue or a stutter.    *)

\* The abstract queue of ordinary callbacks.
Pending == SubSeq(tasks, head + 1, Len(tasks))

\* What waits after the first h slots.
LEMMA PendingProperties ==
  ASSUME NEW S, NEW s \in Seq(S), NEW h \in 0..Len(s)
  PROVE  /\ SubSeq(s, h + 1, Len(s)) \in Seq(S)
         /\ Len(SubSeq(s, h + 1, Len(s))) = Len(s) - h
         /\ \A i \in 1 .. Len(s) - h : SubSeq(s, h + 1, Len(s))[i] = s[h + i]
<1> DEFINE b == SubSeq(s, h + 1, Len(s))
           L == Len(s)
<1>1. L \in Nat /\ h \in Nat /\ h <= L
  BY LenProperties
<1>2. \A i \in h + 1 .. L : s[i] \in S
  BY <1>1, ElementOfSeq
<1>3. /\ b \in Seq(S)
      /\ Len(b) = IF h + 1 <= L THEN L - (h + 1) + 1 ELSE 0
      /\ \A i \in 1 .. L - (h + 1) + 1 : b[i] = s[h + 1 + i - 1]
  <2>1. h + 1 \in 1 .. L + 1 /\ L \in (h + 1) - 1 .. L
    BY <1>1
  <2>2. b \in Seq(S)
    BY <2>1, SubSeqProperties
  <2>3. Len(b) = IF h + 1 <= L THEN L - (h + 1) + 1 ELSE 0
    BY <2>1, SubSeqProperties
  <2>4. \A i \in 1 .. L - (h + 1) + 1 : b[i] = s[h + 1 + i - 1]
    BY <2>1, SubSeqProperties
  <2>5. QED
    BY <2>2, <2>3, <2>4
<1>4. L - (h + 1) + 1 = L - h /\ (h + 1 <= L \/ L - h = 0)
  <2> HIDE DEF L
  <2>1. QED
    BY <1>1
<1>5. \A i \in 1 .. L - h : h + 1 + i - 1 = h + i
  BY <1>1
<1>6. \A i \in 1 .. L - h : b[i] = s[h + i]
  BY <1>3, <1>4, <1>5
<1>7. QED
  BY <1>1, <1>3, <1>4, <1>6

LEMMA PendingOfPush ==
  ASSUME NEW S, NEW s \in Seq(S), NEW h \in 0..Len(s), NEW x \in S
  PROVE  SubSeq(Append(s, x), h + 1, Len(Append(s, x))) = Append(SubSeq(s, h + 1, Len(s)), x)
<1> DEFINE a == Append(s, x)
           b == SubSeq(s, h + 1, Len(s))
           c == SubSeq(a, h + 1, Len(a))
           d == Append(b, x)
           L == Len(s)
<1>1. /\ L \in Nat /\ h \in Nat /\ h <= L
      /\ a \in Seq(S) /\ Len(a) = L + 1
      /\ \A i \in 1 .. L : a[i] = s[i]
      /\ a[L + 1] = x
  BY AppendProperties, LenProperties
<1>2. /\ b \in Seq(S) /\ Len(b) = L - h
      /\ \A i \in 1 .. L - h : b[i] = s[h + i]
  BY PendingProperties
<1>3. h \in 0 .. Len(a)
  BY <1>1
<1> HIDE DEF a
<1>4. /\ c \in Seq(S) /\ Len(c) = Len(a) - h
      /\ \A i \in 1 .. Len(a) - h : c[i] = a[h + i]
  BY <1>1, <1>3, PendingProperties
<1> HIDE DEF b, c
<1>5. /\ d \in Seq(S) /\ Len(d) = Len(b) + 1
      /\ \A i \in 1 .. Len(b) : d[i] = b[i]
      /\ d[Len(b) + 1] = x
  BY <1>2, AppendProperties
<1> HIDE DEF d, L
<1>6. \A i \in 1 .. Len(c) : c[i] = d[i]
  <2> SUFFICES ASSUME NEW i \in 1 .. Len(c) PROVE c[i] = d[i]
    OBVIOUS
  <2>0. i \in 1 .. L + 1 - h
    BY <1>1, <1>4
  <2>1. CASE i = L + 1 - h
    <3>1. h + i = L + 1 /\ i = Len(b) + 1
      BY <2>1, <1>1, <1>2
    <3>2. QED
      BY <3>1, <1>1, <1>4, <1>5
  <2>2. CASE i # L + 1 - h
    <3>1. i \in 1 .. L - h /\ h + i \in 1 .. L
      BY <2>0, <2>2, <1>1
    <3>2. c[i] = s[h + i]
      BY <3>1, <1>1, <1>4
    <3>3. d[i] = s[h + i]
      BY <3>1, <1>2, <1>5
    <3>4. QED
      BY <3>2, <3>3
  <2>3. QED
    BY <2>1, <2>2
<1>7. Len(c) = Len(d)
  BY <1>1, <1>2, <1>4, <1>5
<1>8. c = d
  BY <1>4, <1>5, <1>6, <1>7, SeqEqual
<1>9. QED
  BY <1>8 DEF a, b, c, d, L

LEMMA PendingOfTake ==
  ASSUME NEW S, NEW s \in Seq(S), NEW h \in 0..Len(s), h < Len(s), NEW g \in S
  PROVE  LET t == [s EXCEPT ![h + 1] = g]
         IN  /\ SubSeq(s, h + 1, Len(s)) # <<>>
             /\ Head(SubSeq(s, h + 1, Len(s))) = s[h + 1]
             /\ SubSeq(t, h + 2, Len(t)) = Tail(SubSeq(s, h + 1, Len(s)))
<1> DEFINE t == [s EXCEPT ![h + 1] = g]
           L == Len(s)
           c == SubSeq(t, h + 2, L)
           d == SubSeq(s, h + 2, L)
           b == SubSeq(s, h + 1, L)
<1>1. L \in Nat /\ h \in Nat /\ h + 1 \in 1 .. L /\ L \in h + 1 .. L
  BY LenProperties
<1>2. /\ t \in Seq(S) /\ Len(t) = L
      /\ \A j \in 1 .. L : t[j] = IF j = h + 1 THEN g ELSE s[j]
  BY <1>1, ExceptSeq
<1>3. Head(b) = s[h + 1] /\ Tail(b) = SubSeq(s, h + 1 + 1, L)
  BY <1>1, HeadTailOfSubSeq
<1>4. h + 1 + 1 = h + 2
  BY <1>1
<1>5. \A i \in h + 2 .. L : t[i] = s[i] /\ t[i] \in S /\ s[i] \in S
  BY <1>1, <1>2, ElementOfSeq
<1>6. /\ c \in Seq(S) /\ d \in Seq(S) /\ Len(c) = Len(d)
      /\ Len(c) = IF h + 2 <= L THEN L - (h + 2) + 1 ELSE 0
      /\ \A i \in 1 .. L - (h + 2) + 1 : c[i] = t[h + 2 + i - 1] /\ d[i] = s[h + 2 + i - 1]
  BY <1>1, <1>5, SubSeqProperties
<1>7. \A i \in 1 .. Len(c) : c[i] = d[i]
  <2> SUFFICES ASSUME NEW i \in 1 .. Len(c) PROVE c[i] = d[i]
    OBVIOUS
  <2>1. i \in 1 .. L - (h + 2) + 1 /\ h + 2 + i - 1 \in h + 2 .. L
    BY <1>1, <1>6
  <2>2. QED
    BY <2>1, <1>5, <1>6
<1>8. c = d
  BY <1>6, <1>7, SeqEqual
<1>9. b # <<>>
  <2>1. \A i \in h + 1 .. L : s[i] \in S
    BY <1>1, ElementOfSeq
  <2>2. Len(b) = IF h + 1 <= L THEN L - (h + 1) + 1 ELSE 0
    BY <1>1, <2>1, SubSeqProperties
  <2>3. Len(b) # 0
    BY <1>1, <2>2
  <2>4. QED
    BY <2>3, EmptySeq
<1>10. QED
  BY <1>2, <1>3, <1>4, <1>8, <1>9

LEMMA PendingUnchanged ==
  ASSUME UNCHANGED <<tasks, head>>
  PROVE  Pending' = Pending
  BY DEF Pending

LEMMA PendingPushed ==
  ASSUME QueuesOK, NEW t \in Task, tasks' = Append(tasks, t), head' = head
  PROVE  Pending' = Append(Pending, t)
<1>1. head \in 0..Len(tasks) /\ t \in Task \cup {Gone}
  BY DEF QueuesOK
<1>2. QED
  BY <1>1, PendingOfPush DEF QueuesOK, Pending

LEMMA PendingTaken ==
  ASSUME QueuesOK, TookTask
  PROVE  Pending # <<>> /\ Head(Pending) = tasks[head + 1] /\ Pending' = Tail(Pending)
<1>1. /\ tasks \in Seq(Task \cup {Gone})
      /\ head \in 0..Len(tasks) /\ head < Len(tasks) /\ Gone \in Task \cup {Gone}
  BY DEF QueuesOK, TookTask
<1>2. head \in Nat /\ head + 1 + 1 = head + 2
  BY <1>1, LenProperties
<1>3. Pending' = SubSeq(tasks', head + 2, Len(tasks'))
  BY <1>2 DEF Pending, TookTask
<1>4. QED
  BY <1>1, <1>3, PendingOfTake DEF Pending, TookTask

LEMMA PendingOfNone ==
  ASSUME NEW S, NEW s \in Seq(S)
  PROVE  SubSeq(s, Len(s) + 1, Len(s)) = <<>>
<1>1. Len(s) \in 0..Len(s) /\ Len(s) - Len(s) = 0
  BY LenProperties
<1>2. QED
  BY <1>1, PendingProperties, EmptySeq

\* Resetting and compacting the array change nothing of what waits.
LEMMA PendingCompacted ==
  ASSUME QueuesOK, Emptied \/ Spliced
  PROVE  Pending' = Pending
<1>1. <<>> \in Seq(Task) /\ Len(<<>>) = 0
  BY EmptySeq
<1>2. CASE Emptied
  <2>1. Pending = <<>>
    BY <1>2, PendingOfNone DEF Emptied, QueuesOK, Pending
  <2>2. Pending' = SubSeq(<<>>, Len(<<>>) + 1, Len(<<>>))
    BY <1>1, <1>2 DEF Emptied, Pending
  <2>3. QED
    BY <1>1, <2>1, <2>2, PendingOfNone
<1>3. CASE Spliced
  <2>1. head \in 0..Len(tasks)
    BY DEF QueuesOK
  <2>2. tasks' = Pending /\ head' = 0
    BY <1>3 DEF Spliced, Pending
  <2>3. Pending \in Seq(Task \cup {Gone})
    BY <2>1, PendingProperties DEF QueuesOK, Pending
  <2>4. Pending' = SubSeq(tasks', 1, Len(tasks'))
    BY <2>2 DEF Pending
  <2>5. QED
    BY <2>2, <2>3, <2>4, SubSeqFull
<1>4. QED
  BY <1>2, <1>3

LEMMA InitRefines == Init => Abstract!Init
<1> SUFFICES ASSUME Init PROVE Abstract!Init
  OBVIOUS
<1>1. tasks \in Seq(Task) /\ head + 1 = Len(tasks) + 1
  BY EmptySeq DEF Init
<1>2. Pending = <<>>
  BY <1>1, PendingOfNone DEF Pending
<1>3. QED
  BY <1>2 DEF Init, Abstract!Init, Pending

LEMMA StepRefines ==
  ASSUME IndInv, [Next]_vars
  PROVE  [Abstract!Next]_(Abstract!vars)
<1> USE DEF Abstract!Next
<1>1. QueuesOK /\ Body \notin Task /\ None \notin Task /\ Body # None
  BY TypeOKParts, SchedulerAssumption DEF IndInv
<1>2. ASSUME NEW t \in Task, Refuse(t), UNCHANGED <<head, stopped, rendering, onStack>>
      PROVE  UNCHANGED Abstract!vars
  <2>1. Pending' = Pending
    BY <1>2, PendingUnchanged DEF Refuse
  <2>2. QED
    BY <1>2, <2>1 DEF Refuse, Abstract!vars, Pending
<1>3. ASSUME NEW t \in Task, Push(t), UNCHANGED <<head, stopped, rendering, onStack>>
      PROVE  Abstract!Accept(t)
  <2>1. Pending' = Append(Pending, t)
    BY <1>1, <1>3, PendingPushed DEF Push
  <2>2. QED
    BY <1>3, <2>1 DEF Push, Abstract!Accept, Pending
<1>4. ASSUME NEW t \in Task, NEW r \in BOOLEAN, Invoke(t, r), rendering, PushContinuation(t)
      PROVE  Abstract!AcceptUrgent(t)
  <2>1. Pending' = Pending
    BY <1>4, PendingUnchanged DEF Invoke, PushContinuation
  <2>2. QED
    BY <1>4, <2>1 DEF Invoke, PushContinuation, Abstract!AcceptUrgent, Pending
<1>5. ASSUME NEW t \in Task, Enqueue(t) PROVE [Abstract!Next]_(Abstract!vars)
  BY <1>2, <1>3, <1>5 DEF Enqueue
<1>6. ASSUME NEW t \in Task, NEW r \in BOOLEAN, Invoke(t, r)
      PROVE  [Abstract!Next]_(Abstract!vars)
  BY <1>2, <1>3, <1>4, <1>6 DEF Invoke
<1>7. ASSUME UNCHANGED <<tasks, head, continuations, stopped, rendering, onStack>>
      PROVE  UNCHANGED Abstract!vars
  <2>1. Pending' = Pending
    BY <1>7, PendingUnchanged
  <2>2. QED
    BY <1>7, <2>1 DEF Abstract!vars, Pending
<1>8. ASSUME RunFrame \/ Idle PROVE UNCHANGED Abstract!vars
  BY <1>7, <1>8 DEF RunFrame, Idle
<1>9. ASSUME ~stopped, StopEffects, onStack' \in {onStack, None} PROVE Abstract!Close
  <2>1. tasks' \in Seq(Task) /\ head' + 1 = Len(tasks') + 1
    BY <1>9, EmptySeq DEF StopEffects
  <2>2. Pending' = <<>>
    BY <2>1, PendingOfNone DEF Pending
  <2>3. QED
    BY <1>9, <2>2 DEF StopEffects, Abstract!Close, Pending
<1>10. ASSUME StartFrame PROVE Abstract!EnterFrame
  <2>1. Pending' = Pending
    BY <1>10, PendingUnchanged DEF StartFrame
  <2>2. QED
    BY <1>10, <2>1 DEF StartFrame, Turn, FrameMayStart, Abstract!EnterFrame, Pending
<1>11. ASSUME TakeContinuation PROVE Abstract!TakeUrgent
  <2>1. Pending' = Pending
    BY <1>11, PendingUnchanged DEF TakeContinuation
  <2>2. QED
    BY <1>11, <2>1 DEF TakeContinuation, Turn, Abstract!TakeUrgent, Pending
<1>12. ASSUME TakeTask PROVE Abstract!TakeOrdinary
  <2>1. TookTask
    BY <1>12 DEF TakeTask, TookTask
  <2>2. Pending # <<>> /\ Head(Pending) = tasks[head + 1] /\ Pending' = Tail(Pending)
    BY <1>1, <2>1, PendingTaken
  <2>3. QED
    BY <1>12, <2>2 DEF TakeTask, Turn, Abstract!TakeOrdinary, Pending
<1>13. ASSUME TakeNothing PROVE UNCHANGED Abstract!vars
  <2>1. Pending' = Pending
    BY <1>1, <1>13, PendingUnchanged, PendingCompacted DEF TakeNothing, Emptied
  <2>2. QED
    BY <1>13, <2>1 DEF TakeNothing, Abstract!vars, Pending
<1>14. ASSUME EndTask PROVE Abstract!Finish
  <2>1. Len(tasks) \in Nat /\ head \in Nat /\ head <= Len(tasks)
    BY <1>1, LenProperties DEF QueuesOK
  <2>2. Emptied \/ Spliced \/ UNCHANGED <<tasks, head>>
    BY <1>14, <2>1 DEF EndTask, Compact, Emptied, Spliced
  <2>3. Pending' = Pending
    BY <1>1, <2>2, PendingUnchanged, PendingCompacted
  <2>4. QED
    BY <1>14, <2>3 DEF EndTask, Abstract!Finish, Pending
<1>15. ASSUME EndTaskFatally PROVE Abstract!Finish \/ Abstract!Close
  <2>1. CASE stopped
    <3>1. Pending' = Pending
      BY <1>15, <2>1, PendingUnchanged DEF EndTaskFatally
    <3>2. QED
      BY <1>15, <2>1, <3>1 DEF EndTaskFatally, Abstract!Finish, Pending
  <2>2. CASE ~stopped
    BY <1>9, <1>15, <2>2 DEF EndTaskFatally
  <2>3. QED
    BY <2>1, <2>2
<1>16. ASSUME FrameReturns \/ FrameThrows PROVE Abstract!LeaveBody
  <2>1. Pending' = Pending
    BY <1>16, PendingUnchanged DEF FrameReturns, FrameThrows
  <2>2. rendering \in BOOLEAN
    BY DEF IndInv, TypeOK
  <2>3. QED
    BY <1>16, <2>1, <2>2 DEF FrameReturns, FrameThrows, Abstract!LeaveBody, Pending
<1>17. ASSUME FrameSettles PROVE Abstract!LeaveFrame
  <2>1. Pending' = Pending
    BY <1>17, PendingUnchanged DEF FrameSettles
  <2>2. QED
    BY <1>17, <2>1 DEF FrameSettles, Abstract!LeaveFrame, Pending
<1>18. ASSUME UNCHANGED vars PROVE UNCHANGED Abstract!vars
  BY <1>7, <1>18 DEF vars
<1>19. ASSUME Stop PROVE Abstract!Close
  BY <1>9, <1>19 DEF Stop
<1>20. QED
  BY <1>5, <1>6, <1>8, <1>10, <1>11, <1>12, <1>13, <1>14, <1>15, <1>16, <1>17, <1>18, <1>19
     DEF Next, Step, EndTurn

\* The dispatcher with its array, head index, budget and host turns behaves as
\* two FIFO queues that a frame keeps apart and a stop empties for good.
THEOREM DispatcherRefines == Spec => ImplementsDispatchQueue
<1>1. IndInv /\ [Next]_vars => [Abstract!Next]_(Abstract!vars)
  BY StepRefines
<1>2. QED
  BY <1>1, InitRefines, Inductive, PTL DEF Spec, ImplementsDispatchQueue, Abstract!Spec

----------------------------------------------------------------------------
(* The frame loop and the timers.                                          *)

LoopTypes ==
  /\ rafs \in Seq(Raf)
  /\ snapshot \in Seq(Raf)
  /\ fresh \subseteq Raf
  /\ link \in Raf \cup {None}

\* The chain has a place exactly while the dispatcher believes a frame is
\* being rendered, and a link only while it drains.
Stages ==
  /\ rendering = (stage # "none")
  /\ onStack = Body => stage \in {"body", "services"}
  /\ link # None => stage = "drain"

\* The only continuation is the entry the chain awaits, and unless a callback
\* is running (whose end wakes the dispatcher) a turn is scheduled to run it.
Awaited ==
  /\ \/ continuations = <<>>
     \/ stage = "services" /\ continuations = <<Services>>
     \/ stage = "drain" /\ link # None /\ continuations = <<link>>
  /\ (continuations # <<>> /\ onStack \notin Task) => scheduled

\* One frame at a time, and none when the loop believes there is none.
OneFrame ==
  /\ ~(frame /\ rendering)
  /\ (~stopped /\ (loop = "scheduled" \/ complete \in {"resolved", "rejected"}))
       => ~frame /\ ~rendering

\* Of the animation callbacks only the awaited link waits in the dispatcher,
\* and what the frame has to submit was registered before its snapshot.
Links ==
  /\ \A id \in Raf : entry[id] = "accepted" => id = link
  /\ fresh \cap (ToSet(snapshot) \cup {link}) = {}

ChainInv == LoopTypes /\ Stages /\ Awaited /\ OneFrame /\ Links

LoopInv == IndInv /\ ChainInv

-----------------------------------------------------------------------------
(* Every step of the loop is a step of the dispatcher.                     *)

LEMMA LoopStepIsStep ==
  ASSUME [LoopNext]_allVars
  PROVE  [Next]_vars
<1>1. Invoked \subseteq Task /\ Services \in Task /\ FALSE \in BOOLEAN /\ TRUE \in BOOLEAN
  BY SchedulerAssumption, FrameLoopAssumption
<1>2. CASE UNCHANGED allVars
  BY <1>2 DEF allVars
<1>3. ASSUME NEW t \in Task, NEW r \in BOOLEAN, Enqueue(t) \/ Invoke(t, r)
      PROVE  Next
  BY <1>3 DEF Next
<1>4. CASE TickEnds \/ FrameCompleted
  BY <1>4 DEF TickEnds, FrameCompleted
<1>5. CASE Tick
  BY <1>5 DEF Tick, Next
<1>6. CASE LoopStop \/ SessionEnds
  BY <1>6 DEF LoopStop, SessionEnds, Next
<1>7. CASE LoopStep
  BY <1>7 DEF LoopStep, LoopStartFrame, LoopTakeContinuation, LoopTake, Next, Step
<1>8. CASE LoopEndTurn
  BY <1>1, <1>3, <1>8 DEF LoopEndTurn, LoopEndTask, LoopEndTaskFatally, LoopFrameReturns,
                          LoopFrameThrows, CallServices, Next, EndTurn
<1>9. CASE ServicesSettle \/ FrameDone
  BY <1>9 DEF ServicesSettle, FrameDone, Next
<1>10. CASE SubmitLink
  <2>1. Head(snapshot) \in Task /\ Invoke(Head(snapshot), TRUE)
    BY <1>1, <1>10 DEF SubmitLink, Invoke
  <2>2. QED
    BY <1>1, <1>3, <2>1
<1>11. CASE OrdinaryCall
  BY <1>1, <1>3, <1>11 DEF OrdinaryCall, Ordinary
<1>12. CASE LoopIdle
  BY <1>12 DEF LoopIdle, Next
<1>13. CASE \E id \in Raf : RequestAnimationFrame(id) \/ CancelAnimationFrame(id)
  BY <1>13 DEF RequestAnimationFrame, CancelAnimationFrame
<1>14. QED
  BY <1>2, <1>4, <1>5, <1>6, <1>7, <1>8, <1>9, <1>10, <1>11, <1>12, <1>13
     DEF LoopNext, Reactions

-----------------------------------------------------------------------------
(* What the steps use of sequences and constants.                          *)

LEMMA Names ==
  /\ Raf \subseteq Task /\ Invoked \subseteq Task /\ Services \in Task \ Raf
  /\ None \notin Task /\ Body \notin Task /\ Body # None
BY SchedulerAssumption, FrameLoopAssumption

LEMMA Singleton ==
  ASSUME NEW t
  PROVE  /\ Append(<<>>, t) = <<t>> /\ <<t>> # <<>>
         /\ Head(<<t>>) = t /\ Tail(<<t>>) = <<>> /\ <<t>>[1] = t /\ Len(<<t>>) = 1
<1>1. <<>> \in Seq({t}) /\ <<t>> \in Seq({t}) /\ Len(<<t>>) = 1 /\ <<t>>[1] = t
  OBVIOUS
<1>2. Tail(<<t>>) = <<>>
  BY <1>1, HeadTailProperties, EmptySeq
<1>3. QED
  BY <1>1, <1>2, AppendProperties, HeadTailProperties, EmptySeq

\* A nonempty set of natural numbers has a least element.
LEMMA LeastElement ==
  ASSUME NEW S, S \subseteq Nat, S # {}
  PROVE  Min(S) \in S /\ \A y \in S : Min(S) <= y
<1> DEFINE R == OpToRel(<, Nat)
<1>1. IsWellFoundedOn(R, Nat)
  BY NatLessThanWellFounded
<1>2. R = {ss \in Nat \X Nat : ss[1] < ss[2]}
  BY DEF R, OpToRel
<1> HIDE DEF R
<1>3. PICK x \in S : \A y \in S : ~ (<<y, x>> \in R)
  BY <1>1, WFMin
<1>4. \A y \in S : x <= y
  <2> TAKE y \in S
  <2>1. /\ <<y, x>> \in Nat \X Nat /\ <<y, x>>[1] = y /\ <<y, x>>[2] = x
        /\ ~ (<<y, x>> \in R)
    BY <1>3
  <2>2. QED
    BY <2>1, <1>2
<1>5. QED
  BY <1>4 DEF Min

\* Taking an id out of the map leaves a sequence of ids.
LEMMA RemoveFirstType ==
  ASSUME NEW S, NEW s \in Seq(S), NEW e
  PROVE  RemoveFirst(s, e) \in Seq(S)
<1> DEFINE I == {i \in 1 .. Len(s) : s[i] = e}
           i == Min(I)
<1>1. SUFFICES ASSUME I # {} PROVE RemoveFirst(s, e) \in Seq(S)
  BY DEF RemoveFirst
<1>2. SelectInSeq(s, LAMBDA v : v = e) = i
  BY <1>1 DEF SelectInSeq
<1>3. RemoveFirst(s, e) = RemoveAt(s, i)
  BY <1>1, <1>2 DEF RemoveFirst
<1>4. i \in 1 .. Len(s)
  <2>1. I \subseteq Nat
    BY LenProperties
  <2>2. i \in I
    BY <1>1, <2>1, LeastElement
  <2>3. QED
    BY <2>2
<1> HIDE DEF i
<1>5. SubSeq(s, 1, i - 1) \in Seq(S) /\ SubSeq(s, i + 1, Len(s)) \in Seq(S)
  BY <1>4, SubSeqProperties, LenProperties
<1>6. QED
  BY <1>3, <1>5, ConcatProperties DEF RemoveAt

\* A continuation waits only for a link, or services entry, that has not settled.
LEMMA NothingAwaited ==
  ASSUME LoopInv
  PROVE  /\ (stage = "drain" /\ LinkSettled) =>
              continuations = <<>> /\ \A id \in Raf : entry[id] # "accepted"
         /\ (stage = "services" /\ Settled(Services)) => continuations = <<>>
         /\ stage \in {"none", "body"} => continuations = <<>>
<1>1. \A t : continuations = <<t>> => entry[t] = "accepted"
  BY Singleton DEF LoopInv, IndInv, Placement
<1>2. QED
  BY <1>1, Names DEF LoopInv, ChainInv, Awaited, Links, LinkSettled, Settled

-----------------------------------------------------------------------------
(* The invariant of the chain is kept by every step.                       *)

LEMMA InitChain == LoopInit => LoopInv
<1> SUFFICES ASSUME LoopInit PROVE LoopInv
  OBVIOUS
<1>1. IndInv
  BY InitIndInv DEF LoopInit
<1>2. <<>> \in Seq(Raf) /\ ToSet(<<>>) = {}
  BY EmptySeq DEF ToSet
<1>3. \A t \in Task : entry[t] = "unsubmitted"
  BY DEF LoopInit, Init
<1>4. LoopTypes /\ Stages /\ Awaited /\ OneFrame
  BY <1>2, Names DEF LoopInit, Init, LoopTypes, Stages, Awaited, OneFrame
<1>5. Links
  BY <1>2, <1>3, Names DEF LoopInit, Links
<1>6. QED
  BY <1>1, <1>4, <1>5 DEF LoopInv, ChainInv

\* What tick() and the reaction to its promise do.
LEMMA TickKeeps ==
  ASSUME LoopInv, TickEnds \/ Tick \/ FrameCompleted
  PROVE  ChainInv'
<1>1. CASE TickEnds
  BY <1>1 DEF TickEnds, LoopInv, ChainInv, LoopTypes, Stages, Awaited, OneFrame, Links, vars
<1>2. CASE Tick
  <2>1. LoopTypes' /\ Stages' /\ Links'
    BY <1>2 DEF Tick, RunFrame, LoopInv, ChainInv, LoopTypes, Stages, Links, vars
  <2>2. UNCHANGED <<continuations, stage, link, onStack>>
    BY <1>2 DEF Tick, RunFrame, vars
  <2>3. scheduled => scheduled'
    BY <1>2, Zenon DEF Tick, RunFrame, Wake, vars
  <2>4. Awaited'
    BY <2>2, <2>3 DEF LoopInv, ChainInv, Awaited
  <2>5. OneFrame'
    BY <1>2 DEF Tick, RunFrame, LoopInv, ChainInv, OneFrame, vars
  <2>6. QED
    BY <2>1, <2>4, <2>5 DEF ChainInv
<1>3. CASE FrameCompleted
  BY <1>3 DEF FrameCompleted, LoopInv, ChainInv, LoopTypes, Stages, Awaited, OneFrame, Links, vars
<1>4. QED
  BY <1>1, <1>2, <1>3

\* stop() empties the queues: nothing is awaited and no frame waits.
LEMMA StopKeeps ==
  ASSUME LoopInv, StopEffects, StopLoop, onStack' = onStack \/ onStack' = None
  PROVE  ChainInv'
<1>1. LoopTypes'
  BY EmptySeq DEF StopLoop, LoopInv, ChainInv, LoopTypes
<1>2. Stages'
  BY Names DEF StopEffects, StopLoop, LoopInv, ChainInv, Stages
<1>3. Awaited' /\ OneFrame'
  BY DEF StopEffects, StopLoop, LoopInv, ChainInv, Awaited, OneFrame
<1>4. \A t \in Task : entry'[t] = "accepted" => entry[t] = "accepted"
  BY DEF StopEffects
<1>5. Links'
  BY <1>4, Names DEF StopLoop, LoopInv, ChainInv, Links
<1>6. QED
  BY <1>1, <1>2, <1>3, <1>5 DEF ChainInv

LEMMA FatalKeeps ==
  ASSUME LoopInv, LoopEndTaskFatally
  PROVE  ChainInv'
<1>1. CASE ~stopped
  BY <1>1, StopKeeps DEF LoopEndTaskFatally, EndTaskFatally
<1>2. CASE stopped
  <2>1. UNCHANGED <<entry, rendering, frame, stopped, continuations, loopVars>> /\ onStack' = None
    BY <1>2 DEF LoopEndTaskFatally, EndTaskFatally
  <2>2. continuations = <<>>
    BY <1>2 DEF LoopInv, IndInv, TurnInv, Quiescent
  <2>3. QED
    BY <2>1, <2>2, Names DEF loopVars, LoopInv, ChainInv, LoopTypes, Stages, Awaited, OneFrame, Links
<1>3. QED
  BY <1>1, <1>2

\* step(): a frame starts, a continuation or a task is taken, or nothing is.
LEMMA StepKeeps ==
  ASSUME LoopInv, LoopStep
  PROVE  ChainInv'
<1>1. CASE LoopStartFrame
  <2>1. continuations = <<>> /\ UNCHANGED <<continuations, entry>>
    BY <1>1, NothingAwaited
       DEF LoopStartFrame, StartFrame, FrameMayStart, LoopInv, ChainInv, Stages
  <2>2. Awaited'
    BY <2>1 DEF Awaited
  <2>3. LoopTypes' /\ Links'
    BY <1>1, <2>1 DEF LoopStartFrame, LoopInv, ChainInv, LoopTypes, Links
  <2>4. Stages' /\ OneFrame'
    BY <1>1 DEF LoopStartFrame, StartFrame, Turn, FrameMayStart, LoopInv, ChainInv, Stages, OneFrame
  <2>5. QED
    BY <2>2, <2>3, <2>4 DEF ChainInv
<1>2. CASE LoopTakeContinuation
  <2>1. continuations # <<>> /\ continuations' = Tail(continuations) /\ onStack' = Head(continuations)
    BY <1>2 DEF LoopTakeContinuation, TakeContinuation
  <2>2. PICK t \in Task : continuations = <<t>>
    BY <2>1, Names DEF LoopInv, ChainInv, Awaited, LoopTypes
  <2>3. continuations' = <<>> /\ onStack' \in Task
    BY <2>1, <2>2, Singleton
  <2>4. LoopTypes'
    BY <1>2, RemoveFirstType DEF LoopTakeContinuation, LoopInv, ChainInv, LoopTypes
  <2>5. Stages' /\ Awaited' /\ OneFrame'
    BY <1>2, <2>3, Names DEF LoopTakeContinuation, TakeContinuation, LoopInv, ChainInv,
                             Stages, Awaited, OneFrame
  <2>6. \A s \in Task : entry'[s] = "accepted" => entry[s] = "accepted"
    BY <1>2 DEF LoopTakeContinuation, TakeContinuation, LoopInv, IndInv, TypeOK
  <2>7. Links'
    BY <1>2, <2>6, Names DEF LoopTakeContinuation, LoopInv, ChainInv, Links
  <2>8. QED
    BY <2>4, <2>5, <2>7 DEF ChainInv
<1>3. CASE LoopTake
  <2>1. /\ continuations' = continuations /\ continuations = <<>>
        /\ UNCHANGED <<stopped, rendering, frame, loopVars>> /\ onStack' # Body
    BY <1>3, Names, NothingAwaited
       DEF LoopTake, TakeTask, TakeNothing, Turn, LoopInv, ChainInv, Stages, IndInv, TypeOK, Placement
  <2>2. LoopTypes' /\ Stages' /\ Awaited' /\ OneFrame'
    BY <2>1 DEF loopVars, LoopInv, ChainInv, LoopTypes, Stages, Awaited, OneFrame
  <2>3. \A t \in Task : entry'[t] = "accepted" => entry[t] = "accepted"
    BY <1>3 DEF LoopTake, TakeTask, TakeNothing, LoopInv, IndInv, TypeOK
  <2>4. Links'
    BY <2>1, <2>3, Names DEF loopVars, LoopInv, ChainInv, Links
  <2>5. QED
    BY <2>2, <2>4 DEF ChainInv
<1>4. QED
  BY <1>1, <1>2, <1>3 DEF LoopStep

\* The end of a turn: the callback returned, or the frame's own part did.
LEMMA EndTurnKeeps ==
  ASSUME LoopInv, LoopEndTask \/ LoopFrameReturns \/ LoopFrameThrows \/ CallServices
  PROVE  ChainInv'
<1>1. CASE LoopEndTask
  <2>1. /\ UNCHANGED <<continuations, stopped, rendering, frame, entry>> /\ onStack' = None
        /\ UNCHANGED <<loop, complete, stage, rafs, snapshot, link, fresh>>
    BY <1>1 DEF LoopEndTask, EndTask
  <2>2. continuations # <<>> => scheduled'
    <3>1. stopped => continuations = <<>>
      BY DEF LoopInv, IndInv, TurnInv, Quiescent
    <3>2. scheduled' = (scheduled \/ ~stopped)
      BY <1>1 DEF LoopEndTask, EndTask, Wake
    <3>3. QED
      BY <3>1, <3>2
  <2>3. QED
    BY <2>1, <2>2, Names
       DEF LoopInv, ChainInv, LoopTypes, Stages, Awaited, OneFrame, Links
<1>2. CASE LoopFrameReturns
  <2>1. /\ UNCHANGED <<continuations, scheduled, stopped, rendering, frame, entry, loopVars>>
        /\ onStack = Body /\ onStack' = None
    BY <1>2 DEF LoopFrameReturns, FrameReturns
  <2>2. QED
    BY <2>1, Names DEF loopVars, LoopInv, ChainInv, LoopTypes, Stages, Awaited, OneFrame, Links
<1>3. CASE LoopFrameThrows
  <2>1. /\ UNCHANGED <<continuations, stopped, frame, entry>>
        /\ UNCHANGED <<loop, rafs, snapshot, link, fresh>>
        /\ stage = "body" /\ stage' = "none" /\ rendering' = FALSE /\ onStack' = None
    BY <1>3 DEF LoopFrameThrows, FrameThrows
  <2>2. continuations = <<>>
    BY <2>1, NothingAwaited
  <2>3. rendering /\ ~frame
    BY <2>1 DEF LoopInv, ChainInv, Stages, OneFrame
  <2>4. QED
    BY <2>1, <2>2, <2>3, Names DEF LoopInv, ChainInv, LoopTypes, Stages, Awaited, OneFrame, Links
<1>4. CASE CallServices
  <2>1. /\ UNCHANGED <<stopped, rendering, frame, onStack>>
        /\ UNCHANGED <<loop, complete, rafs, snapshot, link, fresh>>
        /\ onStack = Body /\ stage = "body" /\ stage' = "services"
    BY <1>4 DEF CallServices, Invoke
  <2>2. continuations = <<>> /\ rendering
    BY <2>1, NothingAwaited DEF LoopInv, ChainInv, Stages
  <2>3. \/ stopped /\ continuations' = continuations
        \/ /\ ~stopped /\ continuations' = Append(continuations, Services)
           /\ scheduled' = (scheduled \/ ~stopped)
    BY <1>4, <2>2 DEF CallServices, Invoke, Refuse, Push, PushContinuation, Wake
  <2>4. Awaited'
    BY <2>1, <2>2, <2>3, Singleton DEF Awaited
  <2>5. \A t \in Task \ {Services} : entry'[t] = entry[t]
    BY <1>4 DEF CallServices, Invoke, Refuse, Push, PushContinuation, LoopInv, IndInv, TypeOK
  <2>6. LoopTypes' /\ Stages' /\ OneFrame'
    BY <2>1, <2>2 DEF LoopInv, ChainInv, LoopTypes, Stages, OneFrame
  <2>7. Links'
    BY <2>1, <2>5, Names DEF LoopInv, ChainInv, Links
  <2>8. QED
    BY <2>4, <2>6, <2>7 DEF ChainInv
<1>5. QED
  BY <1>1, <1>2, <1>3, <1>4

\* The reactions of the chain: the next link, or the end of the frame.
LEMMA ReactionsKeep ==
  ASSUME LoopInv, Reactions
  PROVE  ChainInv'
<1>1. CASE ServicesSettle
  <2>1. /\ UNCHANGED <<continuations, stopped, frame, entry, onStack>>
        /\ UNCHANGED <<loop, rafs, link>>
        /\ onStack = None /\ stage = "services" /\ Settled(Services)
    BY <1>1 DEF ServicesSettle, FrameSettles, vars
  <2>2. continuations = <<>> /\ rendering /\ ~frame
    BY <2>1, NothingAwaited DEF LoopInv, ChainInv, Stages, OneFrame
  <2>3. \/ /\ rendering' = FALSE /\ stage' = "none" /\ UNCHANGED <<snapshot, fresh>>
        \/ /\ rendering' = rendering /\ stage' = "drain" /\ complete' = complete
           /\ snapshot' = rafs /\ fresh' = {}
    BY <1>1 DEF ServicesSettle, FrameSettles, vars
  <2>4. LoopTypes' /\ Stages' /\ Awaited' /\ OneFrame'
    BY <2>1, <2>2, <2>3, Names
       DEF LoopInv, ChainInv, LoopTypes, Stages, Awaited, OneFrame
  <2>5. Links'
    BY <2>1, <2>3 DEF LoopInv, ChainInv, Links
  <2>6. QED
    BY <2>4, <2>5 DEF ChainInv
<1>2. CASE SubmitLink
  <2> DEFINE h == Head(snapshot)
  <2>1. /\ UNCHANGED <<stopped, rendering, frame, onStack>>
        /\ UNCHANGED <<loop, complete, stage, rafs, fresh>>
        /\ onStack = None /\ stage = "drain" /\ LinkSettled
        /\ snapshot # <<>> /\ link' = h /\ snapshot' = Tail(snapshot)
    BY <1>2 DEF SubmitLink, Invoke
  <2>2. /\ h \in Raf /\ snapshot' \in Seq(Raf)
        /\ h \in ToSet(snapshot) /\ ToSet(snapshot') \subseteq ToSet(snapshot)
    <3>1. /\ snapshot \in Seq(Raf) /\ snapshot # <<>> /\ snapshot' = Tail(snapshot)
      BY <2>1 DEF LoopInv, ChainInv, LoopTypes
    <3>2. /\ Len(snapshot) \in Nat \ {0} /\ DOMAIN snapshot = 1 .. Len(snapshot)
          /\ snapshot' \in Seq(Raf) /\ h \in Raf /\ h = snapshot[1]
          /\ DOMAIN snapshot' = 1 .. Len(snapshot) - 1
          /\ \A i \in 1 .. Len(snapshot) - 1 : snapshot'[i] = snapshot[i + 1]
      BY <3>1, HeadTailProperties, LenProperties, EmptySeq
    <3>3. 1 \in 1 .. Len(snapshot) /\ \A i \in 1 .. Len(snapshot) - 1 : i + 1 \in 1 .. Len(snapshot)
      BY <3>2
    <3>4. QED
      BY <3>2, <3>3, Zenon DEF ToSet
  <2>3. continuations = <<>> /\ rendering /\ \A id \in Raf : entry[id] # "accepted"
    BY <2>1, NothingAwaited DEF LoopInv, ChainInv, Stages
  <2> HIDE DEF h
  <2>4. Invoke(h, TRUE)
    BY <1>2 DEF SubmitLink, h
  <2>5. \/ stopped /\ continuations' = continuations
        \/ /\ ~stopped /\ continuations' = Append(continuations, h)
           /\ scheduled' = (scheduled \/ ~stopped)
    BY <2>3, <2>4 DEF Invoke, Refuse, Push, PushContinuation, Wake
  <2>6. Awaited'
    BY <2>1, <2>2, <2>3, <2>5, Names, Singleton DEF Awaited
  <2>7. \A t \in Task \ {h} : entry'[t] = entry[t]
    BY <2>4 DEF Invoke, Refuse, Push, PushContinuation, LoopInv, IndInv, TypeOK
  <2>8. LoopTypes' /\ Stages' /\ OneFrame'
    BY <2>1, <2>2 DEF LoopInv, ChainInv, LoopTypes, Stages, OneFrame
  <2>9. \A id \in Raf : entry'[id] = "accepted" => id = link'
    BY <2>1, <2>3, <2>7, Names
  <2>10. fresh' \cap (ToSet(snapshot') \cup {link'}) = {}
    BY <2>1, <2>2 DEF LoopInv, ChainInv, Links
  <2>11. QED
    BY <2>6, <2>8, <2>9, <2>10 DEF ChainInv, Links
<1>3. CASE FrameDone
  <2>1. /\ UNCHANGED <<continuations, stopped, frame, entry, onStack>>
        /\ UNCHANGED <<loop, rafs, snapshot, fresh>>
        /\ stage = "drain" /\ LinkSettled /\ rendering /\ rendering' = FALSE
        /\ stage' = "none" /\ link' = None /\ onStack = None
    BY <1>3 DEF FrameDone, FrameSettles
  <2>2. continuations = <<>> /\ ~frame /\ \A id \in Raf : entry[id] # "accepted"
    BY <2>1, NothingAwaited DEF LoopInv, ChainInv, OneFrame
  <2>3. LoopTypes' /\ Stages' /\ Awaited' /\ OneFrame'
    BY <2>1, <2>2, Names DEF LoopInv, ChainInv, LoopTypes, Stages, Awaited, OneFrame
  <2>4. Links'
    BY <2>1, <2>2, Names DEF LoopInv, ChainInv, LoopTypes, Links
  <2>5. QED
    BY <2>3, <2>4 DEF ChainInv
<1>4. QED
  BY <1>1, <1>2, <1>3 DEF Reactions

\* What callbacks and the host ask for.
LEMMA CallsKeep ==
  ASSUME LoopInv,
         OrdinaryCall \/ LoopIdle
           \/ \E id \in Raf : RequestAnimationFrame(id) \/ CancelAnimationFrame(id)
  PROVE  ChainInv'
<1>1. CASE OrdinaryCall
  <2>1. PICK t \in Ordinary : Enqueue(t) \/ Invoke(t, FALSE)
    BY <1>1 DEF OrdinaryCall
  <2>2. /\ UNCHANGED <<stopped, rendering, frame, onStack, continuations>>
        /\ UNCHANGED loopVars
    BY <1>1, <2>1 DEF OrdinaryCall, Enqueue, Invoke, Refuse, Push
  <2>3. scheduled => scheduled'
    BY <2>1, Zenon DEF Enqueue, Invoke, Refuse, Push, Wake
  <2>4. \A id \in Raf : entry'[id] = entry[id]
    BY <2>1, Names DEF Ordinary, Enqueue, Invoke, Refuse, Push, LoopInv, IndInv, TypeOK
  <2>5. LoopTypes' /\ Stages' /\ Awaited' /\ OneFrame'
    BY <2>2, <2>3 DEF loopVars, LoopInv, ChainInv, LoopTypes, Stages, Awaited, OneFrame
  <2>6. Links'
    BY <2>2, <2>4 DEF loopVars, LoopInv, ChainInv, Links
  <2>7. QED
    BY <2>5, <2>6 DEF ChainInv
<1>2. CASE LoopIdle
  <2>1. UNCHANGED <<stopped, rendering, frame, onStack, continuations, entry, loopVars>>
    BY <1>2 DEF LoopIdle, Idle
  <2>2. scheduled => scheduled'
    BY <1>2, Zenon DEF LoopIdle, Idle, Wake
  <2>3. QED
    BY <2>1, <2>2 DEF loopVars, LoopInv, ChainInv, LoopTypes, Stages, Awaited, OneFrame, Links
<1>3. ASSUME NEW id \in Raf, RequestAnimationFrame(id) PROVE ChainInv'
  <2>1. /\ UNCHANGED <<vars, loop, complete, stage, snapshot, link>>
        /\ rafs' = Append(rafs, id) /\ fresh' = fresh \cup {id}
        /\ id \notin ToSet(snapshot) /\ id # link
    BY <1>3 DEF RequestAnimationFrame
  <2>2. LoopTypes'
    BY <2>1, AppendProperties DEF LoopInv, ChainInv, LoopTypes
  <2>3. Stages' /\ Awaited' /\ OneFrame' /\ Links'
    BY <2>1 DEF vars, LoopInv, ChainInv, Stages, Awaited, OneFrame, Links
  <2>4. QED
    BY <2>2, <2>3 DEF ChainInv
<1>4. ASSUME NEW id \in Raf, CancelAnimationFrame(id) PROVE ChainInv'
  <2>1. UNCHANGED <<vars, loop, complete, stage, snapshot, link, fresh>>
    BY <1>4 DEF CancelAnimationFrame
  <2>2. rafs' \in Seq(Raf)
    BY <1>4, RemoveFirstType DEF CancelAnimationFrame, LoopInv, ChainInv, LoopTypes
  <2>3. QED
    BY <2>1, <2>2 DEF vars, LoopInv, ChainInv, LoopTypes, Stages, Awaited, OneFrame, Links
<1>5. QED
  BY <1>1, <1>2, <1>3, <1>4

LEMMA LoopInvKeeps ==
  ASSUME LoopInv, [LoopNext]_allVars
  PROVE  LoopInv'
<1>1. IndInv'
  BY LoopStepIsStep, IndInvKeeps DEF LoopInv
<1>2. CASE UNCHANGED allVars
  BY <1>1, <1>2 DEF allVars, loopVars, vars, LoopInv, ChainInv, LoopTypes, Stages, Awaited,
                    OneFrame, Links
<1>3. CASE LoopStop \/ SessionEnds
  BY <1>1, <1>3, StopKeeps DEF SessionEnds, LoopStop, Stop, LoopInv
<1>4. CASE LoopNext /\ ~(LoopStop \/ SessionEnds)
  BY <1>1, <1>4, TickKeeps, FatalKeeps, StepKeeps, EndTurnKeeps, ReactionsKeep, CallsKeep
     DEF LoopNext, LoopEndTurn, LoopInv
<1>5. QED
  BY <1>2, <1>3, <1>4

LEMMA LoopInductive == LoopSpec => []LoopInv
BY InitChain, LoopInvKeeps, PTL DEF LoopSpec

-----------------------------------------------------------------------------
(* Theorems                                                                *)

\* Whatever is enqueued, cancelled or stopped meanwhile, drainFrame() of
\* main-loop.js has at most one continuation waiting, and while it waits a
\* host turn is scheduled: the promise the frame awaits cannot hang.
THEOREM OneContinuationAwaited == LoopSpec => []ContinuationAwaited
<1>1. LoopInv => ContinuationAwaited
  <2> SUFFICES ASSUME LoopInv PROVE ContinuationAwaited
    OBVIOUS
  <2>1. continuations = <<>> \/ \E t : continuations = <<t>>
    BY DEF LoopInv, ChainInv, Awaited
  <2>2. Len(continuations) <= 1
    <3>1. Len(continuations) = 0 \/ Len(continuations) = 1
      BY <2>1, Singleton, EmptySeq
    <3>2. QED
      BY <3>1
  <2>3. continuations # <<>> => rendering
    BY NothingAwaited DEF LoopInv, ChainInv, Stages
  <2>4. (continuations # <<>> /\ onStack = None) => scheduled
    BY Names DEF LoopInv, ChainInv, Awaited
  <2>5. QED
    BY <2>2, <2>3, <2>4 DEF ContinuationAwaited
<1>2. QED
  BY <1>1, LoopInductive, PTL

\* tick() of runner/index.cjs finds the dispatcher without a frame, so the
\* rejection of an overlapping frame in runFrame() is never reached from it.
THEOREM FramesNeverOverlap == LoopSpec => []NoOverlappingFrames
<1>1. LoopInv => NoOverlappingFrames
  BY DEF LoopInv, ChainInv, OneFrame, NoOverlappingFrames
<1>2. QED
  BY <1>1, LoopInductive, PTL

\* Only a turn that finds nothing resolves idle(): then no entry waits, not
\* even a continuation, and there is no frame, asked for or being rendered.
LEMMA IdleStep ==
  ASSUME LoopInv, [LoopNext]_allVars
  PROVE  (idleWaiters /\ ~idleWaiters' /\ ~stopped')
           => (Accepted = {} /\ ~frame /\ ~rendering)
<1> SUFFICES ASSUME idleWaiters, ~idleWaiters', ~stopped'
             PROVE  Accepted = {} /\ ~frame /\ ~rendering
  OBVIOUS
<1>1. CASE TakeNothing
  <2>1. ~rendering /\ ~frame /\ head = Len(tasks)
    BY <1>1 DEF TakeNothing
  <2>2. continuations = <<>>
    BY <2>1, NothingAwaited DEF LoopInv, ChainInv, Stages
  <2>3. /\ ~ \E i \in head + 1 .. Len(tasks) : TRUE
        /\ ~ \E i \in 1 .. Len(continuations) : TRUE
    BY <2>1, <2>2, EmptySeq, LenProperties DEF LoopInv, IndInv, TypeOK
  <2>4. QED
    BY <2>1, <2>3 DEF LoopInv, IndInv, Placement, Accepted
<1>2. CASE ~TakeNothing
  <2>1. [Next]_vars
    BY LoopStepIsStep
  <2>2. idleWaiters => idleWaiters' \/ stopped'
    BY <1>2, <2>1 DEF Next, Enqueue, Invoke, RunFrame, Idle, Stop, StopEffects, Step, StartFrame,
                      TakeContinuation, TakeTask, EndTurn, EndTask, EndTaskFatally, FrameReturns,
                      FrameThrows, FrameSettles, vars
  <2>3. QED
    BY <2>2
<1>3. QED
  BY <1>1, <1>2

\* idle() of scheduler.js resolves only when no entry waits and no frame waits
\* or is being rendered.
THEOREM IdleIsQuiet == LoopSpec => IdleMeansQuiet
<1> DEFINE Quiet == (idleWaiters /\ ~idleWaiters' /\ ~stopped')
                      => (Accepted = {} /\ ~frame /\ ~rendering)
<1>1. LoopInv /\ [LoopNext]_allVars => [Quiet]_allVars
  BY IdleStep
<1> HIDE DEF Quiet
<1>2. LoopSpec => [][Quiet]_allVars
  BY <1>1, LoopInductive, PTL DEF LoopSpec
<1>3. QED
  BY <1>2 DEF Quiet, IdleMeansQuiet

\* An animation callback starts only as the link of the frame, and the link
\* was registered before the frame took its snapshot.
LEMMA CallbackStep ==
  ASSUME LoopInv, [LoopNext]_allVars, NEW id \in Raf, onStack # id, onStack' = id
  PROVE  id \notin fresh
<1>1. id \in Task /\ id # Body /\ id # None /\ [Next]_vars
  BY Names, LoopStepIsStep
<1>2. CASE TakeContinuation
  <2>1. continuations # <<>> /\ onStack' = Head(continuations)
    BY <1>2 DEF TakeContinuation
  <2>2. entry[onStack'] = "accepted"
    <3>1. continuations \in Seq(Task)
      BY DEF LoopInv, IndInv, TypeOK
    <3>2. Head(continuations) = continuations[1] /\ 1 \in 1 .. Len(continuations)
      BY <2>1, <3>1, HeadTailProperties, LenProperties, EmptySeq
    <3>3. QED
      BY <2>1, <3>2 DEF LoopInv, IndInv, Placement
  <2>3. QED
    BY <2>2 DEF LoopInv, ChainInv, Links
<1>3. CASE TakeTask
  <2>1. /\ ~rendering /\ head \in Nat /\ Len(tasks) \in Nat /\ head < Len(tasks)
        /\ onStack' = tasks[head + 1]
    BY <1>3, LenProperties DEF TakeTask, LoopInv, IndInv, TypeOK
  <2>2. entry[id] = "accepted"
    BY <2>1 DEF LoopInv, IndInv, Placement
  <2>3. QED
    BY <1>1, <2>1, <2>2 DEF LoopInv, ChainInv, Links, Stages
<1>4. CASE ~TakeContinuation /\ ~TakeTask
  <2>1. onStack' \in {onStack, Body, None}
    BY <1>1, <1>4 DEF Next, Enqueue, Invoke, RunFrame, Idle, Stop, Step, StartFrame, TakeNothing,
                      EndTurn, EndTask, EndTaskFatally, FrameReturns, FrameThrows, FrameSettles, vars
  <2>2. QED
    BY <1>1, <2>1
<1>5. QED
  BY <1>2, <1>3, <1>4

\* requestAnimationFrame() called while a frame runs is answered by a later
\* frame, for every set of ids, cancellations included.
THEOREM NewCallbacksAreDeferred == LoopSpec => NewCallbacksWait
<1> DEFINE Deferred ==
      \A id \in Raf :
        (onStack # id /\ onStack' = id /\ id \in ToSet(rafs)) => id \notin fresh
<1>1. LoopInv /\ [LoopNext]_allVars => [Deferred]_allVars
  BY CallbackStep
<1> HIDE DEF Deferred
<1>2. LoopSpec => [][Deferred]_allVars
  BY <1>1, LoopInductive, PTL DEF LoopSpec
<1>3. QED
  BY <1>2 DEF Deferred, NewCallbacksWait

-----------------------------------------------------------------------------
(* The timers: what the steps use of integers.                             *)

\* Deadlines bounded below have an earliest one.
LEMMA EarliestOf ==
  ASSUME NEW D, D \subseteq Int, D # {}, \A d \in D : d >= -MaxLate
  PROVE  /\ Min(D) \in D
         /\ \A d \in D : Min(D) <= d
<1> DEFINE S == {n \in Nat : \E d \in D : n = d + MaxLate}
<1>1. MaxLate \in Nat
  BY TimersAssumption
<1>2. \A d \in D : d \in Int /\ d + MaxLate \in Nat
  BY <1>1
<1>3. S # {}
  BY <1>2
<1>4. PICK n \in S : \A m \in S : n <= m
  <2>1. S \subseteq Nat
    OBVIOUS
  <2>2. QED
    BY <1>3, <2>1, LeastElement
<1>5. PICK e \in D : n = e + MaxLate
  BY <1>4
<1>6. \A d \in D : e <= d
  <2> TAKE d \in D
  <2>1. d + MaxLate \in S
    BY <1>2
  <2>2. e + MaxLate <= d + MaxLate
    BY <1>4, <1>5, <2>1
  <2>3. QED
    BY <1>1, <1>2, <2>2
<1>7. QED
  BY <1>5, <1>6 DEF Min

LEMMA MaxOfTwo ==
  ASSUME NEW a \in Int, NEW b \in Int
  PROVE  Max({a, b}) = IF a >= b THEN a ELSE b
<1>1. CASE a >= b
  <2>1. \A x \in {a, b} : (\A y \in {a, b} : x >= y) => x = a
    BY <1>1
  <2>2. a \in {a, b} /\ \A y \in {a, b} : a >= y
    BY <1>1
  <2>3. QED
    BY <1>1, <2>1, <2>2 DEF Max
<1>2. CASE ~(a >= b)
  <2>1. \A x \in {a, b} : (\A y \in {a, b} : x >= y) => x = b
    BY <1>2
  <2>2. b \in {a, b} /\ \A y \in {a, b} : b >= y
    BY <1>2
  <2>3. QED
    BY <1>2, <2>1, <2>2 DEF Max
<1>3. QED
  BY <1>1, <1>2

\* Where an interval goes on: at one of its multiples, one period ahead at most.
LEMMA NextDuePhase ==
  ASSUME NEW due \in Int, due <= 0, NEW period \in Nat \ {0}
  PROVE  /\ NextDue(due, period) \in 1 .. period
         /\ (NextDue(due, period) - due) % period = 0
<1> DEFINE n == -due
           q == n \div period
           r == n % period
<1>1. n \in Nat
  OBVIOUS
<1> HIDE DEF n
<1>2. q \in Nat /\ r \in 0 .. period - 1 /\ n = period * q + r
  BY <1>1
<1> HIDE DEF q, r
<1>3. Max({1, q + 1}) = q + 1
  BY <1>2, MaxOfTwo
<1>4. NextDue(due, period) = due + (q + 1) * period
  BY <1>3 DEF NextDue, n, q
<1>5. due = -n
  BY DEF n
<1>6. -n + (q + 1) * period = period - r /\ period - r \in 1 .. period
  BY <1>1, <1>2
<1>7. (q + 1) * period \in Nat /\ ((q + 1) * period) % period = 0
  BY <1>2
<1>8. due + (q + 1) * period - due = (q + 1) * period
  BY <1>7
<1>9. QED
  BY <1>4, <1>5, <1>6, <1>7, <1>8

-----------------------------------------------------------------------------

TimerTypes ==
  /\ timers \in [Timer -> [state : {"absent", "armed", "queued"}, period : Nat, due : Int]]
  /\ \A t \in Timer : timers[t].due >= -MaxLate
  /\ IsFiniteSet({t \in Timer : timers[t].state # "absent"})

\* A timer with a task is not armed, and the timer whose callback is on the
\* stack left the map or waits there for its next multiple.
OneTask ==
  /\ \A t \in Timer : timers[t].state = "armed" => entry[t] # "accepted"
  /\ firing # NotFiring =>
       /\ firing.id \in Timer /\ firing.period \in Nat
       /\ onStack = firing.id /\ entry[firing.id] # "accepted"
       /\ \/ timers[firing.id].state = "absent"
          \/ timers[firing.id].state = "queued" /\ timers[firing.id].period = firing.period

\* Timers that have a task were due, and no timer without one is due before them.
DueOrder ==
  /\ \A t \in Timer : timers[t].state = "queued" => timers[t].due <= 0
  /\ \A a, b \in Timer :
       (timers[a].state = "queued" /\ timers[b].state = "armed") => timers[a].due <= timers[b].due

MapInv == TimerTypes /\ OneTask /\ DueOrder /\ WakeArmed /\ FireInDeadlineOrder

TimersInv == IndInv /\ MapInv

-----------------------------------------------------------------------------
(* The dispatcher under its timers.                                        *)

LEMMA TimerNames ==
  /\ Timer \subseteq Task /\ None \notin Timer /\ Body \notin Timer /\ Gone \notin Timer
  /\ NoWake \notin Int /\ MaxLate \in Nat /\ MaxDelay \in Nat
BY SchedulerAssumption, TimersAssumption

\* Every step but the host timeout is a step of the dispatcher.
LEMMA TimersStepIsStep ==
  ASSUME [TimersNext]_timedVars, ~QueueDueTimers
  PROVE  [Next]_vars
<1>1. CASE UNCHANGED timedVars
  BY <1>1 DEF timedVars
<1>2. ASSUME NEW t \in Timer, NEW delay, NEW interval,
             AddTimer(t, delay, interval) \/ ClearTimer(t)
      PROVE  UNCHANGED vars
  BY <1>2 DEF AddTimer, ClearTimer
<1>3. CASE Elapse
  BY <1>3 DEF Elapse
<1>4. CASE TimersStop
  BY <1>4 DEF TimersStop, Next
<1>5. CASE TakeTimerTask \/ NothingToTake
  BY <1>5 DEF TakeTimerTask, NothingToTake, Next, Step
<1>6. CASE EndTimerTask
  BY <1>6 DEF EndTimerTask, Next, EndTurn
<1>7. CASE Frames
  BY <1>7 DEF Frames, Next, Step, EndTurn
<1>8. QED
  BY <1>1, <1>2, <1>3, <1>4, <1>5, <1>6, <1>7 DEF TimersNext

\* A sequence that lists a finite set without repetition reaches all of it.
LEMMA ListsAll ==
  ASSUME NEW D, IsFiniteSet(D), NEW batch \in SetToSeqs(D)
  PROVE  /\ batch \in Seq(D) /\ Len(batch) = Cardinality(D) /\ DOMAIN batch = 1 .. Len(batch)
         /\ \A i, j \in 1 .. Len(batch) : batch[i] = batch[j] => i = j
         /\ \A t \in D : \E i \in 1 .. Len(batch) : batch[i] = t
<1> DEFINE n == Cardinality(D)
<1>1. n \in Nat
  BY FS_CardinalityType
<1>2. /\ batch \in [1 .. n -> D]
      /\ \A i, j \in 1 .. n : i # j => batch[i] # batch[j]
  BY DEF SetToSeqs
<1> HIDE DEF n
<1>3. batch \in Seq(D) /\ Len(batch) = n
  BY <1>1, <1>2
<1>4. batch \in Injection(1 .. n, D)
  BY <1>2 DEF Injection, IsInjective
<1>5. IsFiniteSet(1 .. n) /\ Cardinality(1 .. n) = n
  BY <1>1, FS_Interval
<1>6. batch \in Surjection(1 .. n, D)
  BY <1>4, <1>5, FS_Injection DEF n
<1>7. \A t \in D : \E i \in 1 .. n : batch[i] = t
  BY <1>6 DEF Surjection
<1>8. QED
  BY <1>2, <1>3, <1>7 DEF n

\* A batch at the end of a sequence.
LEMMA Appended ==
  ASSUME NEW S, NEW s \in Seq(S), NEW b \in Seq(S)
  PROVE  /\ s \o b \in Seq(S) /\ Len(s) \in Nat /\ Len(b) \in Nat
         /\ Len(s \o b) = Len(s) + Len(b)
         /\ \A i \in 1 .. Len(s) : (s \o b)[i] = s[i]
         /\ \A i \in Len(s) + 1 .. Len(s) + Len(b) :
              i - Len(s) \in 1 .. Len(b) /\ (s \o b)[i] = b[i - Len(s)]
         /\ \A j \in 1 .. Len(b) :
              Len(s) + j \in Len(s) + 1 .. Len(s) + Len(b) /\ (s \o b)[Len(s) + j] = b[j]
<1>1. /\ s \o b \in Seq(S) /\ Len(s) \in Nat /\ Len(b) \in Nat
      /\ Len(s \o b) = Len(s) + Len(b)
      /\ \A i \in 1 .. Len(s) + Len(b) :
           (s \o b)[i] = IF i <= Len(s) THEN s[i] ELSE b[i - Len(s)]
  BY ConcatProperties, LenProperties
<1>2. \A i \in 1 .. Len(s) : (s \o b)[i] = s[i]
  BY <1>1
<1>3. \A i \in Len(s) + 1 .. Len(s) + Len(b) :
         i - Len(s) \in 1 .. Len(b) /\ (s \o b)[i] = b[i - Len(s)]
  BY <1>1
<1>4. ASSUME NEW j \in 1 .. Len(b)
      PROVE  Len(s) + j \in Len(s) + 1 .. Len(s) + Len(b) /\ (s \o b)[Len(s) + j] = b[j]
  <2>1. Len(s) + j \in Len(s) + 1 .. Len(s) + Len(b) /\ Len(s) + j - Len(s) = j
    BY <1>1
  <2>2. QED
    BY <2>1, <1>3
<1>5. QED
  BY <1>1, <1>2, <1>3, <1>4

\* A batch of entries is submitted at once.
BatchPushed(D, batch) ==
  /\ tasks' = tasks \o batch
  /\ entry' = [t \in Task |-> IF t \in D THEN "accepted" ELSE entry[t]]
  /\ UNCHANGED <<head, continuations>>

LEMMA BatchKeeps ==
  ASSUME QueuesOK, Placement, NEW D, D \subseteq Task, \A t \in D : entry[t] # "accepted",
         NEW batch \in Seq(D),
         \A i, j \in 1 .. Len(batch) : batch[i] = batch[j] => i = j,
         \A t \in D : \E i \in 1 .. Len(batch) : batch[i] = t,
         BatchPushed(D, batch)
  PROVE  QueuesOK' /\ Placement'
<1> DEFINE m == Len(tasks)
           n == Len(batch)
<1>1. batch \in Seq(Task \cup {Gone}) /\ \A i \in 1 .. n : batch[i] \in D
  BY ElementOfSeq, SeqMonotonic
<1>2. /\ tasks' \in Seq(Task \cup {Gone}) /\ m \in Nat /\ n \in Nat
      /\ Len(tasks') = m + n
      /\ \A i \in 1 .. m : tasks'[i] = tasks[i]
      /\ \A i \in m + 1 .. m + n : i - m \in 1 .. n /\ tasks'[i] = batch[i - m]
      /\ \A j \in 1 .. n : m + j \in m + 1 .. m + n /\ tasks'[m + j] = batch[j]
  BY <1>1, Appended DEF QueuesOK, BatchPushed
<1>3. /\ head' = head /\ continuations' = continuations /\ head \in 0 .. m /\ head \in Nat
      /\ \A i \in 1 .. Len(continuations) : continuations[i] \in Task \ D
  BY <1>2, ElementOfSeq DEF QueuesOK, Placement, BatchPushed
<1> HIDE DEF m, n
<1>4. \A t \in Task : entry'[t] = IF t \in D THEN "accepted" ELSE entry[t]
  BY DEF BatchPushed
<1>5. QueuesOK'
  <2>1. entry' \in [Task -> Fate]
    BY DEF QueuesOK, Fate, BatchPushed
  <2>2. head' \in 0 .. Len(tasks')
    BY <1>2, <1>3
  <2>3. QED
    BY <1>2, <1>3, <2>1, <2>2 DEF QueuesOK
<1>6. /\ \A i \in head + 1 .. m : tasks[i] \in Task \ D /\ entry[tasks[i]] = "accepted"
      /\ \A i, j \in head + 1 .. m : tasks[i] = tasks[j] => i = j
      /\ \A i \in 1 .. Len(continuations) : entry[continuations[i]] = "accepted"
      /\ \A i, j \in 1 .. Len(continuations) : continuations[i] = continuations[j] => i = j
      /\ \A i \in head + 1 .. m, j \in 1 .. Len(continuations) : tasks[i] # continuations[j]
      /\ \A t \in Task : entry[t] = "accepted" =>
           \/ \E i \in head + 1 .. m : tasks[i] = t
           \/ \E i \in 1 .. Len(continuations) : continuations[i] = t
  BY DEF Placement, m
<1>7. \A i \in head' + 1 .. Len(tasks') :
         \/ i \in head + 1 .. m /\ tasks'[i] = tasks[i]
         \/ i \in m + 1 .. m + n /\ i - m \in 1 .. n /\ tasks'[i] = batch[i - m] /\ tasks'[i] \in D
  <2> TAKE i \in head' + 1 .. Len(tasks')
  <2>1. (i \in head + 1 .. m /\ i \in 1 .. m) \/ i \in m + 1 .. m + n
    BY <1>2, <1>3
  <2>2. QED
    BY <2>1, <1>1, <1>2
<1>8. \A i \in head' + 1 .. Len(tasks') :
         /\ tasks'[i] \in Task /\ entry'[tasks'[i]] = "accepted"
         /\ tasks'[i] \in D =>
              i \in m + 1 .. m + n /\ i - m \in 1 .. n /\ tasks'[i] = batch[i - m]
         /\ tasks'[i] \notin D => i \in head + 1 .. m /\ tasks'[i] = tasks[i]
  <2> TAKE i \in head' + 1 .. Len(tasks')
  <2>1. CASE i \in head + 1 .. m /\ tasks'[i] = tasks[i]
    BY <2>1, <1>4, <1>6
  <2>2. CASE i \in m + 1 .. m + n /\ i - m \in 1 .. n /\ tasks'[i] = batch[i - m] /\ tasks'[i] \in D
    BY <2>2, <1>4
  <2>3. QED
    BY <2>1, <2>2, <1>7
<1>9. \A i, j \in head' + 1 .. Len(tasks') : tasks'[i] = tasks'[j] => i = j
  <2> SUFFICES ASSUME NEW i \in head' + 1 .. Len(tasks'), NEW j \in head' + 1 .. Len(tasks'),
                      tasks'[i] = tasks'[j]
               PROVE  i = j
    OBVIOUS
  <2>1. CASE tasks'[i] \in D
    <3>1. /\ i \in m + 1 .. m + n /\ i - m \in 1 .. n /\ tasks'[i] = batch[i - m]
          /\ j \in m + 1 .. m + n /\ j - m \in 1 .. n /\ tasks'[j] = batch[j - m]
      BY <2>1, <1>8
    <3>2. i - m = j - m
      BY <3>1 DEF n
    <3>3. QED
      BY <3>1, <3>2, <1>2
  <2>2. CASE tasks'[i] \notin D
    <3>1. /\ i \in head + 1 .. m /\ tasks'[i] = tasks[i]
          /\ j \in head + 1 .. m /\ tasks'[j] = tasks[j]
      BY <2>2, <1>8
    <3>2. tasks[i] = tasks[j]
      BY <3>1
    <3>3. QED
      BY <3>1, <3>2, <1>6
  <2>3. QED
    BY <2>1, <2>2
<1>10. \A i \in head' + 1 .. Len(tasks'), j \in 1 .. Len(continuations') :
          tasks'[i] # continuations'[j]
  <2> TAKE i \in head' + 1 .. Len(tasks'), j \in 1 .. Len(continuations')
  <2>1. CASE tasks'[i] \in D
    BY <2>1, <1>3
  <2>2. CASE tasks'[i] \notin D
    BY <2>2, <1>3, <1>6, <1>8
  <2>3. QED
    BY <2>1, <2>2
<1>11. \A i \in 1 .. Len(continuations') : entry'[continuations'[i]] = "accepted"
  BY <1>3, <1>4, <1>6
<1>12. ASSUME NEW t \in Task, entry'[t] = "accepted"
       PROVE  \/ \E i \in head' + 1 .. Len(tasks') : tasks'[i] = t
              \/ \E i \in 1 .. Len(continuations') : continuations'[i] = t
  <2>1. CASE t \in D
    <3>1. PICK j \in 1 .. n : batch[j] = t
      BY <2>1 DEF n
    <3>2. m + j \in head' + 1 .. Len(tasks') /\ tasks'[m + j] = t
      BY <3>1, <1>2, <1>3
    <3>3. QED
      BY <3>2
  <2>2. CASE t \notin D
    <3>1. \A i \in head + 1 .. m : i \in head' + 1 .. Len(tasks') /\ tasks'[i] = tasks[i]
      BY <1>2, <1>3
    <3>2. \/ \E i \in head + 1 .. m : tasks[i] = t
          \/ \E i \in 1 .. Len(continuations) : continuations[i] = t
      BY <2>2, <1>4, <1>6, <1>12
    <3>3. QED
      BY <3>1, <3>2, <1>3
  <2>3. QED
    BY <2>1, <2>2
<1>13. \A i, j \in 1 .. Len(continuations') : continuations'[i] = continuations'[j] => i = j
  BY <1>3, <1>6
<1>14. \A i \in head' + 1 .. Len(tasks') : tasks'[i] \in Task /\ entry'[tasks'[i]] = "accepted"
  BY <1>8
<1>15. Placement'
  BY ONLY <1>9, <1>10, <1>11, <1>12, <1>13, <1>14 DEF Placement
<1>16. QED
  BY <1>5, <1>15

-----------------------------------------------------------------------------
(* The host timeout.                                                       *)

\* The timers that are due are new to the dispatcher, which was not stopped.
LEMMA DueAreNew ==
  ASSUME TimersInv, QueueDueTimers
  PROVE  /\ IsFiniteSet(Due) /\ Due \subseteq Task /\ \A t \in Due : entry[t] # "accepted"
         /\ ~stopped /\ onStack = None
<1>1. Due \in SUBSET {t \in Timer : timers[t].state # "absent"}
  BY DEF Due
<1>2. IsFiniteSet(Due)
  BY <1>1, FS_Subset DEF TimersInv, MapInv, TimerTypes
<1>3. Due \subseteq Task /\ \A t \in Due : entry[t] # "accepted"
  BY TimerNames DEF Due, TimersInv, MapInv, OneTask
<1>4. wakeIn = 0 /\ onStack = None
  BY DEF QueueDueTimers
<1>5. ~stopped
  BY <1>4, TimerNames DEF TimersInv, MapInv, WakeArmed, ArmTimers
<1>6. QED
  BY <1>2, <1>3, <1>4, <1>5

LEMMA QueueDuePushes ==
  ASSUME TimersInv, QueueDueTimers
  PROVE  \E batch \in Seq(Due) :
            /\ \A i, j \in 1 .. Len(batch) : batch[i] = batch[j] => i = j
            /\ \A t \in Due : \E i \in 1 .. Len(batch) : batch[i] = t
            /\ \A i, j \in 1 .. Len(batch) : i < j => timers[batch[i]].due <= timers[batch[j]].due
            /\ BatchPushed(Due, batch)
<1>1. PICK batch \in SetToSeqs(Due) : InDueOrder(batch) /\ tasks' = tasks \o batch
  BY DEF QueueDueTimers
<1>2. /\ batch \in Seq(Due) /\ DOMAIN batch = 1 .. Len(batch)
      /\ \A i, j \in 1 .. Len(batch) : batch[i] = batch[j] => i = j
      /\ \A t \in Due : \E i \in 1 .. Len(batch) : batch[i] = t
  BY DueAreNew, ListsAll
<1>3. \A i \in 1 .. Len(batch) : batch[i] \in Timer /\ timers[batch[i]].due \in Int
  BY <1>2, ElementOfSeq DEF Due, TimersInv, MapInv, TimerTypes
<1>4. \A i, j \in 1 .. Len(batch) : i < j => timers[batch[i]].due <= timers[batch[j]].due
  <2> TAKE i, j \in 1 .. Len(batch)
  <2>1. i < j => DueFirst(batch[i], batch[j])
    BY <1>1, <1>2 DEF InDueOrder
  <2>2. timers[batch[i]].due \in Int /\ timers[batch[j]].due \in Int
    BY <1>3
  <2>3. DueFirst(batch[i], batch[j]) => timers[batch[i]].due <= timers[batch[j]].due
    BY <2>2 DEF DueFirst
  <2>4. QED
    BY <2>1, <2>3
<1>5. BatchPushed(Due, batch)
  BY <1>1 DEF QueueDueTimers, BatchPushed
<1>6. QED
  BY <1>2, <1>4, <1>5

LEMMA QueueDueKeepsDispatcher ==
  ASSUME TimersInv, QueueDueTimers
  PROVE  IndInv'
<1>1. FlagsOK /\ QueuesOK /\ Placement /\ TurnInv
  BY TypeOKParts DEF TimersInv, IndInv
<1>2. QueuesOK' /\ Placement'
  BY <1>1, QueueDuePushes, DueAreNew, BatchKeeps
<1>3. /\ UNCHANGED <<head, continuations, stopped, rendering, frame, frameTasks, idleWaiters,
                     onStack>>
      /\ scheduled' = (IF Due = {} THEN scheduled ELSE scheduled \/ ~stopped)
  BY DEF QueueDueTimers, Wake
<1>4. FlagsOK'
  BY <1>1, <1>3 DEF FlagsOK
<1>5. /\ Len(tasks) \in Nat /\ Len(tasks') \in Nat /\ Len(tasks) <= Len(tasks')
      /\ Due = {} => Len(tasks') = Len(tasks)
  <2>1. PICK batch \in Seq(Due) : BatchPushed(Due, batch)
    BY QueueDuePushes
  <2>2. tasks \in Seq(Task \cup {Gone}) /\ batch \in Seq(Task \cup {Gone})
    BY <1>1, DueAreNew, SeqMonotonic DEF QueuesOK
  <2>3. Due = {} => Len(batch) = 0
    <3> SUFFICES ASSUME Due = {} PROVE Len(batch) = 0
      OBVIOUS
    <3>1. \A i \in 1 .. Len(batch) : batch[i] \in Due
      BY ElementOfSeq
    <3>2. Len(batch) \in Nat /\ ~(1 \in 1 .. Len(batch))
      BY <3>1, LenProperties
    <3>3. QED
      BY <3>2
  <2>4. tasks' = tasks \o batch
    BY <2>1 DEF BatchPushed
  <2>5. Len(tasks) \in Nat /\ Len(batch) \in Nat /\ Len(tasks') = Len(tasks) + Len(batch)
    BY <2>2, <2>4, Appended
  <2>6. QED
    BY <2>3, <2>5
<1>6. TurnInv'
  <2>1. ~stopped /\ onStack = None /\ head \in Nat /\ head' = head /\ stopped' = stopped
        /\ onStack' = onStack /\ frame' = frame /\ idleWaiters' = idleWaiters
    BY <1>1, <1>3, <1>5, DueAreNew DEF QueuesOK
  <2>2. rendering' = rendering
    BY <1>3
  <2>3. Due # {} => scheduled'
    BY <1>3, <2>1
  <2>4. (Due = {} /\ scheduled) => scheduled'
    BY <1>3
  <2>5. NoLostWakeup /\ CompactedOutsideTasks
    BY <1>1 DEF TurnInv
  <2>6. Quiescent' /\ BodyRenders'
    BY <1>1, <2>1, <2>2 DEF TurnInv, Quiescent, BodyRenders
  <2>7. NoLostWakeup'
    <3>1. CASE Due = {}
      <4>1. Len(tasks') = Len(tasks)
        BY <1>5, <3>1
      <4>2. (~rendering /\ (head < Len(tasks) \/ frame \/ idleWaiters)) => scheduled
        BY <2>5, <2>1 DEF NoLostWakeup
      <4>3. (~rendering' /\ (head' < Len(tasks') \/ frame' \/ idleWaiters')) => scheduled
        BY <4>1, <4>2, <2>1, <2>2
      <4>4. QED
        BY <4>3, <2>4, <3>1 DEF NoLostWakeup
    <3>2. CASE Due # {}
      BY <2>3, <3>2 DEF NoLostWakeup
    <3>3. QED
      BY <3>1, <3>2
  <2>8. CompactedOutsideTasks'
    <3>1. head * 2 < Len(tasks) => head' * 2 < Len(tasks')
      BY <1>5, <2>1
    <3>2. head <= CompactAfter \/ head * 2 < Len(tasks)
      BY <2>5, <2>1 DEF CompactedOutsideTasks
    <3>3. head' <= CompactAfter \/ head' * 2 < Len(tasks')
      BY <3>1, <3>2, <2>1
    <3>4. QED
      BY <3>3 DEF CompactedOutsideTasks
  <2>9. QED
    BY <2>6, <2>7, <2>8 DEF TurnInv
<1>7. QED
  BY <1>2, <1>4, <1>6 DEF IndInv, TypeOK, FlagsOK, QueuesOK

LEMMA DispatcherKept ==
  ASSUME TimersInv, [TimersNext]_timedVars
  PROVE  IndInv'
<1>1. CASE QueueDueTimers
  BY <1>1, QueueDueKeepsDispatcher
<1>2. CASE ~QueueDueTimers
  <2>1. IndInv /\ [Next]_vars
    BY <1>2, TimersStepIsStep DEF TimersInv
  <2>2. QED
    BY <2>1, IndInvKeeps
<1>3. QED
  BY <1>1, <1>2

-----------------------------------------------------------------------------
(* What the steps of the timers share.                                     *)

TimerMaps ==
  {map \in [Timer -> [state : {"absent", "armed", "queued"}, period : Nat, due : Int]] :
     \A t \in Timer : map[t].due >= -MaxLate}

\* The time armTimers() asks for is that of the earliest armed timer.
LEMMA EarliestArmed ==
  ASSUME NEW map \in TimerMaps, Armed(map) # {}
  PROVE  \E e \in Armed(map) :
            /\ \A t \in Armed(map) : map[e].due <= map[t].due
            /\ ArmTimers(map, FALSE) = IF map[e].due >= 0 THEN map[e].due ELSE 0
<1> DEFINE D == {map[t].due : t \in Armed(map)}
<1>1. \A t \in Armed(map) : map[t].due \in Int /\ map[t].due >= -MaxLate
  BY DEF TimerMaps, Armed
<1>2. D \subseteq Int /\ D # {} /\ \A d \in D : d >= -MaxLate
  BY <1>1
<1>3. Min(D) \in D /\ \A d \in D : Min(D) <= d
  BY <1>2, EarliestOf
<1>4. PICK e \in Armed(map) : Min(D) = map[e].due
  BY <1>3
<1>5. \A t \in Armed(map) : map[e].due <= map[t].due
  BY <1>3, <1>4
<1>6. ArmTimers(map, FALSE) = Max({0, map[e].due})
  BY <1>4 DEF ArmTimers
<1>7. Max({0, map[e].due}) = IF map[e].due >= 0 THEN map[e].due ELSE 0
  <2>1. Max({0, map[e].due}) = IF 0 >= map[e].due THEN 0 ELSE map[e].due
    BY <1>1, MaxOfTwo
  <2>2. QED
    BY <1>1, <2>1
<1>8. QED
  BY <1>5, <1>6, <1>7

\* Only the armed timers count.
LEMMA SameArmed ==
  ASSUME NEW m1, NEW m2, NEW s, Armed(m1) = Armed(m2),
         \A t \in Armed(m1) : m1[t].due = m2[t].due
  PROVE  ArmTimers(m1, s) = ArmTimers(m2, s)
<1>1. {m1[t].due : t \in Armed(m1)} = {m2[t].due : t \in Armed(m2)}
  OBVIOUS
<1>2. QED
  BY <1>1 DEF ArmTimers

LEMMA MapTypes ==
  TimerTypes <=> /\ timers \in TimerMaps
                 /\ IsFiniteSet({t \in Timer : timers[t].state # "absent"})
BY DEF TimerTypes, TimerMaps

\* Tasks keep their order when what remains of the array is a later part of it
\* and the timers that keep their tasks keep the order of their deadlines.
LEMMA OrderKept ==
  ASSUME FireInDeadlineOrder, NEW d \in Nat,
         head \in Nat, head' \in Nat, Len(tasks) \in Nat, Len(tasks') \in Nat,
         \A i \in head' + 1 .. Len(tasks') :
            i + d \in head + 1 .. Len(tasks) /\ tasks'[i] = tasks[i + d],
         \A x, y \in Timer :
            (timers'[x].state = "queued" /\ timers'[y].state = "queued") =>
              /\ timers[x].state = "queued" /\ timers[y].state = "queued"
              /\ timers[x].due <= timers[y].due => timers'[x].due <= timers'[y].due
  PROVE  FireInDeadlineOrder'
<1> SUFFICES ASSUME NEW i \in head' + 1 .. Len(tasks'), NEW j \in head' + 1 .. Len(tasks'),
                    i < j, tasks'[i] \in Timer, tasks'[j] \in Timer,
                    timers'[tasks'[i]].state = "queued", timers'[tasks'[j]].state = "queued"
             PROVE  timers'[tasks'[i]].due <= timers'[tasks'[j]].due
  BY DEF FireInDeadlineOrder
<1>1. /\ i + d \in head + 1 .. Len(tasks) /\ tasks'[i] = tasks[i + d]
      /\ j + d \in head + 1 .. Len(tasks) /\ tasks'[j] = tasks[j + d]
  OBVIOUS
<1>2. i + d < j + d
  OBVIOUS
<1>3. /\ timers[tasks[i + d]].state = "queued" /\ timers[tasks[j + d]].state = "queued"
      /\ timers[tasks[i + d]].due <= timers[tasks[j + d]].due =>
           timers'[tasks'[i]].due <= timers'[tasks'[j]].due
  BY <1>1
<1>4. timers[tasks[i + d]].due <= timers[tasks[j + d]].due
  BY <1>1, <1>2, <1>3 DEF FireInDeadlineOrder
<1>5. QED
  BY <1>3, <1>4

\* ... in particular when the array does not change.
LEMMA OrderKeptInPlace ==
  ASSUME TimersInv, UNCHANGED <<tasks, head>>,
         \A x, y \in Timer :
            (timers'[x].state = "queued" /\ timers'[y].state = "queued") =>
              /\ timers[x].state = "queued" /\ timers[y].state = "queued"
              /\ timers[x].due <= timers[y].due => timers'[x].due <= timers'[y].due
  PROVE  FireInDeadlineOrder'
<1>1. QueuesOK /\ FireInDeadlineOrder
  BY TypeOKParts DEF TimersInv, IndInv, MapInv
<1>2. head \in Nat /\ Len(tasks) \in Nat /\ 0 \in Nat
  BY <1>1, LenProperties DEF QueuesOK
<1>3. \A i \in head' + 1 .. Len(tasks') :
         i + 0 \in head + 1 .. Len(tasks) /\ tasks'[i] = tasks[i + 0]
  BY <1>2
<1>4. QED
  BY <1>1, <1>2, <1>3, OrderKept

-----------------------------------------------------------------------------
(* Every step keeps what is known of the map of timers.                    *)

LEMMA AddTimerKeeps ==
  ASSUME TimersInv, NEW t \in Timer, NEW delay \in 0 .. MaxDelay, NEW interval \in BOOLEAN,
         AddTimer(t, delay, interval)
  PROVE  MapInv'
<1> DEFINE r == [state |-> "armed", period |-> IF interval THEN delay ELSE 0, due |-> delay]
<1>1. /\ timers \in TimerMaps /\ IsFiniteSet({x \in Timer : timers[x].state # "absent"})
      /\ OneTask /\ DueOrder
  BY MapTypes DEF TimersInv, MapInv
<1>2. /\ timers' = [timers EXCEPT ![t] = r] /\ ~stopped /\ timers[t].state = "absent"
      /\ Free(t) /\ UNCHANGED <<vars, firing>> /\ wakeIn' = ArmTimers(timers', FALSE)
  BY DEF AddTimer
<1>3. UNCHANGED <<tasks, head, stopped, onStack, entry>>
  BY <1>2 DEF vars
<1>4. delay \in Nat /\ MaxLate \in Nat
  BY TimerNames
<1>5. /\ timers \in [Timer -> [state : {"absent", "armed", "queued"}, period : Nat, due : Int]]
      /\ \A x \in Timer : timers[x].due >= -MaxLate
  BY <1>1 DEF TimerMaps
<1>6. /\ r \in [state : {"absent", "armed", "queued"}, period : Nat, due : Int]
      /\ r.state = "armed" /\ r.due = delay /\ delay >= -MaxLate
  BY <1>4
<1>7. /\ timers' \in [Timer -> [state : {"absent", "armed", "queued"}, period : Nat, due : Int]]
      /\ timers'[t] = r /\ \A x \in Timer : x # t => timers'[x] = timers[x]
  BY <1>2, <1>5, <1>6
<1> HIDE DEF r
<1>8. TimerTypes'
  <2>1. {x \in Timer : timers'[x].state # "absent"} =
           {x \in Timer : timers[x].state # "absent"} \cup {t}
    BY <1>6, <1>7
  <2>2. IsFiniteSet({x \in Timer : timers'[x].state # "absent"})
    BY <1>1, <2>1, FS_AddElement
  <2>3. \A x \in Timer : timers'[x].due >= -MaxLate
    BY <1>5, <1>6, <1>7
  <2>4. QED
    BY <1>7, <2>2, <2>3 DEF TimerTypes
<1>9. OneTask'
  <2>1. entry[t] # "accepted" /\ onStack # t
    BY <1>2 DEF Free
  <2>2. \A x \in Timer : timers'[x].state = "armed" => entry'[x] # "accepted"
    BY <1>1, <1>3, <1>7, <2>1 DEF OneTask
  <2>3. firing # NotFiring =>
          /\ firing.id \in Timer /\ firing.period \in Nat
          /\ onStack = firing.id /\ entry[firing.id] # "accepted"
          /\ \/ timers'[firing.id].state = "absent"
             \/ timers'[firing.id].state = "queued" /\ timers'[firing.id].period = firing.period
    BY <1>1, <1>7, <2>1 DEF OneTask
  <2>4. firing' = firing
    BY <1>2
  <2>5. QED
    BY <1>3, <2>2, <2>3, <2>4 DEF OneTask
<1>10. DueOrder'
  <2>1. \A x \in Timer : timers[x].due \in Int
    BY <1>5
  <2>2. \A x \in Timer : timers'[x].state = "queued" =>
           timers[x].state = "queued" /\ timers'[x].due = timers[x].due /\ timers[x].due <= 0
    BY <1>1, <1>6, <1>7 DEF DueOrder
  <2>3. ASSUME NEW a \in Timer, NEW b \in Timer,
               timers'[a].state = "queued", timers'[b].state = "armed"
        PROVE  timers'[a].due <= timers'[b].due
    <3>1. CASE b = t
      BY <3>1, <2>1, <2>2, <2>3, <1>4, <1>6, <1>7
    <3>2. CASE b # t
      BY <3>2, <2>2, <2>3, <1>1, <1>7 DEF DueOrder
    <3>3. QED
      BY <3>1, <3>2
  <2>4. QED
    BY <2>2, <2>3 DEF DueOrder
<1>11. WakeArmed'
  BY <1>2, <1>3 DEF WakeArmed, ArmTimers
<1>12. FireInDeadlineOrder'
  <2>1. \A x \in Timer : timers'[x].state = "queued" =>
           timers[x].state = "queued" /\ timers'[x].due = timers[x].due
    BY <1>6, <1>7
  <2>2. QED
    BY <1>3, <2>1, OrderKeptInPlace
<1>13. QED
  BY <1>8, <1>9, <1>10, <1>11, <1>12 DEF MapInv

\* Clearing timers, one or all of them.
LEMMA ClearedKeeps ==
  ASSUME TimersInv, NEW C, timers' = [t \in Timer |-> IF t \in C THEN Absent ELSE timers[t]],
         WakeArmed', FireInDeadlineOrder', firing' = firing, onStack' = onStack,
         \A t \in Timer : entry[t] # "accepted" => entry'[t] # "accepted"
  PROVE  MapInv'
<1>1. /\ timers \in [Timer -> [state : {"absent", "armed", "queued"}, period : Nat, due : Int]]
      /\ \A x \in Timer : timers[x].due >= -MaxLate
      /\ IsFiniteSet({x \in Timer : timers[x].state # "absent"})
      /\ OneTask /\ DueOrder
  BY DEF TimersInv, MapInv, TimerTypes
<1>2. /\ Absent \in [state : {"absent", "armed", "queued"}, period : Nat, due : Int]
      /\ Absent.state = "absent" /\ Absent.due >= -MaxLate
  BY TimerNames DEF Absent
<1>3. \A x \in Timer : timers'[x] = IF x \in C THEN Absent ELSE timers[x]
  OBVIOUS
<1>4. TimerTypes'
  <2>1. timers' \in [Timer -> [state : {"absent", "armed", "queued"}, period : Nat, due : Int]]
    BY <1>1, <1>2
  <2>2. \A x \in Timer : timers'[x].due >= -MaxLate
    BY <1>1, <1>2, <1>3
  <2>3. {x \in Timer : timers'[x].state # "absent"} \in
           SUBSET {x \in Timer : timers[x].state # "absent"}
    BY <1>2, <1>3
  <2>4. IsFiniteSet({x \in Timer : timers'[x].state # "absent"})
    BY <1>1, <2>3, FS_Subset
  <2>5. QED
    BY <2>1, <2>2, <2>4 DEF TimerTypes
<1>5. \A x \in Timer : timers'[x].state # "absent" => timers'[x] = timers[x]
  BY <1>2, <1>3
<1>6. OneTask'
  <2>1. \A x \in Timer : timers'[x].state = "armed" => entry'[x] # "accepted"
    BY <1>1, <1>5 DEF OneTask
  <2>2. ASSUME firing # NotFiring
        PROVE  /\ firing.id \in Timer /\ firing.period \in Nat
               /\ onStack = firing.id /\ entry'[firing.id] # "accepted"
               /\ \/ timers'[firing.id].state = "absent"
                  \/ timers'[firing.id].state = "queued" /\ timers'[firing.id].period = firing.period
    BY <1>1, <1>5, <2>2 DEF OneTask
  <2>3. QED
    BY <2>1, <2>2 DEF OneTask
<1>7. DueOrder'
  BY <1>1, <1>5 DEF DueOrder
<1>8. QED
  BY <1>4, <1>6, <1>7 DEF MapInv

LEMMA ClearTimerKeeps ==
  ASSUME TimersInv, NEW t \in Timer, ClearTimer(t)
  PROVE  MapInv'
<1>1. /\ timers' = [timers EXCEPT ![t] = Absent] /\ UNCHANGED <<vars, firing>>
      /\ wakeIn' = ArmTimers(timers', stopped)
  BY DEF ClearTimer
<1>2. UNCHANGED <<tasks, head, stopped, onStack, entry>>
  BY <1>1 DEF vars
<1>3. timers' = [x \in Timer |-> IF x \in {t} THEN Absent ELSE timers[x]]
  BY <1>1 DEF TimersInv, MapInv, TimerTypes
<1>4. WakeArmed'
  BY <1>1, <1>2 DEF WakeArmed
<1>5. \A x \in Timer : timers'[x].state = "queued" => timers'[x] = timers[x]
  BY <1>3 DEF Absent
<1>6. FireInDeadlineOrder'
  BY <1>2, <1>5, OrderKeptInPlace
<1>7. QED
  BY <1>1, <1>2, <1>3, <1>4, <1>6, ClearedKeeps

LEMMA TimersStopKeeps ==
  ASSUME TimersInv, TimersStop
  PROVE  MapInv'
<1>1. /\ Stop /\ timers' = [t \in Timer |-> Absent] /\ wakeIn' = NoWake /\ firing' = firing
  BY DEF TimersStop
<1>2. /\ stopped' = TRUE /\ onStack' = onStack
      /\ entry' = [t \in Task |-> IF t \in Waiting THEN "dropped" ELSE entry[t]]
  BY <1>1 DEF Stop, StopEffects
<1>3. timers' = [x \in Timer |-> IF x \in Timer THEN Absent ELSE timers[x]]
  BY <1>1
<1>4. WakeArmed'
  BY <1>1, <1>2 DEF WakeArmed, ArmTimers
<1>5. \A x \in Timer : timers'[x].state # "queued"
  BY <1>3 DEF Absent
<1>6. FireInDeadlineOrder'
  BY <1>5 DEF FireInDeadlineOrder
<1>7. \A t \in Timer : entry[t] # "accepted" => entry'[t] # "accepted"
  BY <1>2, TimerNames
<1>8. QED
  BY <1>1, <1>2, <1>3, <1>4, <1>6, <1>7, ClearedKeeps

\* The task that is taken is, if it is a timer's, that of a timer in the map
\* that has a task, or of one that was cleared.
LEMMA TakenTask ==
  ASSUME TimersInv, TakeTask
  PROVE  /\ onStack' \in Task /\ entry[onStack'] = "accepted" /\ onStack = None
         /\ entry' = [entry EXCEPT ![onStack'] = "taken"] /\ entry \in [Task -> Fate]
         /\ onStack' \in Timer => timers[onStack'].state \in {"absent", "queued"}
         /\ stopped' = stopped
<1>1. QueuesOK /\ Placement /\ OneTask /\ TimerTypes
  BY TypeOKParts DEF TimersInv, IndInv, MapInv
<1>2. /\ head < Len(tasks) /\ onStack' = tasks[head + 1] /\ onStack = None
      /\ entry' = [entry EXCEPT ![tasks[head + 1]] = "taken"] /\ stopped' = stopped
  BY DEF TakeTask, Turn
<1>3. head + 1 \in head + 1 .. Len(tasks)
  BY <1>1, <1>2, LenProperties DEF QueuesOK
<1>4. onStack' \in Task /\ entry[onStack'] = "accepted"
  BY <1>1, <1>2, <1>3 DEF Placement
<1>5. onStack' \in Timer => timers[onStack'].state \in {"absent", "queued"}
  BY <1>1, <1>4 DEF OneTask, TimerTypes
<1>6. QED
  BY <1>1, <1>2, <1>4, <1>5 DEF QueuesOK

LEMMA TakeTimerTaskKeeps ==
  ASSUME TimersInv, TakeTimerTask
  PROVE  MapInv'
<1> DEFINE t == onStack'
           live == t \in Timer /\ timers[t].state # "absent"
<1>1. /\ timers \in [Timer -> [state : {"absent", "armed", "queued"}, period : Nat, due : Int]]
      /\ \A x \in Timer : timers[x].due >= -MaxLate
      /\ IsFiniteSet({x \in Timer : timers[x].state # "absent"})
      /\ OneTask /\ DueOrder /\ WakeArmed /\ FireInDeadlineOrder
  BY DEF TimersInv, MapInv, TimerTypes
<1>2. TakeTask /\ wakeIn' = wakeIn
  BY DEF TakeTimerTask
<1>3. /\ t \in Task /\ entry[t] = "accepted" /\ onStack = None
      /\ entry' = [entry EXCEPT ![t] = "taken"] /\ entry \in [Task -> Fate]
      /\ t \in Timer => timers[t].state \in {"absent", "queued"}
      /\ stopped' = stopped
  BY <1>2, TakenTask
<1>4. /\ live => firing' = [id |-> t, period |-> timers[t].period]
      /\ ~live => firing' = firing
      /\ timers' = timers \/ (live /\ timers[t].period = 0 /\ timers' = [timers EXCEPT ![t] = Absent])
  BY DEF TakeTimerTask
<1>5. firing = NotFiring
  BY <1>1, <1>3, TimerNames DEF OneTask
<1> HIDE DEF t
<1>6. /\ timers' \in [Timer -> [state : {"absent", "armed", "queued"}, period : Nat, due : Int]]
      /\ \A x \in Timer : timers'[x] = timers[x] \/ (x = t /\ timers'[x] = Absent)
  <2>1. Absent \in [state : {"absent", "armed", "queued"}, period : Nat, due : Int]
    BY DEF Absent
  <2>2. QED
    BY <2>1, <1>1, <1>4
<1>7. Absent.state = "absent" /\ Absent.due >= -MaxLate
  BY TimerNames DEF Absent
<1>8. TimerTypes'
  <2>1. {x \in Timer : timers'[x].state # "absent"} \in
           SUBSET {x \in Timer : timers[x].state # "absent"}
    BY <1>6, <1>7
  <2>2. IsFiniteSet({x \in Timer : timers'[x].state # "absent"})
    BY <1>1, <2>1, FS_Subset
  <2>3. \A x \in Timer : timers'[x].due >= -MaxLate
    BY <1>1, <1>6, <1>7
  <2>4. QED
    BY <1>6, <2>2, <2>3 DEF TimerTypes
<1>9. \A x \in Timer : timers'[x].state # "absent" => timers'[x] = timers[x]
  BY <1>6, <1>7
<1>10. entry'[t] = "taken" /\ \A x \in Timer : x # t => entry'[x] = entry[x]
  BY <1>3, TimerNames
<1>11. OneTask'
  <2>1. \A x \in Timer : timers'[x].state = "armed" => entry'[x] # "accepted"
    BY <1>1, <1>9, <1>10 DEF OneTask
  <2>2. CASE ~live
    <3>1. firing' = NotFiring
      BY <2>2, <1>4, <1>5
    <3>2. QED
      BY <2>1, <3>1 DEF OneTask
  <2>3. CASE live
    <3>1. firing' = [id |-> t, period |-> timers[t].period]
      BY <2>3, <1>4
    <3>2. timers[t].period \in Nat /\ timers[t].state = "queued"
      BY <2>3, <1>1, <1>3
    <3>3. \/ timers'[t].state = "absent"
          \/ timers'[t].state = "queued" /\ timers'[t].period = timers[t].period
      BY <2>3, <3>2, <1>6, <1>7
    <3>4. firing'.id = t /\ firing'.period = timers[t].period
      BY <3>1
    <3>5. onStack' = t
      BY DEF t
    <3>6. QED
      BY <2>1, <2>3, <3>2, <3>3, <3>4, <3>5, <1>10 DEF OneTask
  <2>4. QED
    BY <2>2, <2>3
<1>12. DueOrder'
  BY <1>1, <1>9 DEF DueOrder
<1>13. WakeArmed'
  <2>1. Armed(timers') = Armed(timers) /\ \A x \in Armed(timers') : timers'[x].due = timers[x].due
    BY <1>3, <1>6, <1>7 DEF Armed
  <2>2. ArmTimers(timers', stopped) = ArmTimers(timers, stopped)
    BY <2>1, SameArmed
  <2>3. QED
    BY <1>1, <1>2, <1>3, <2>2 DEF WakeArmed
<1>14. FireInDeadlineOrder'
  <2>1. QueuesOK /\ TookTask
    BY <1>2, TypeOKParts DEF TimersInv, IndInv, TakeTask, TookTask
  <2>2. /\ head \in Nat /\ head' = head + 1 /\ Len(tasks) \in Nat /\ 0 \in Nat
        /\ tasks' \in Seq(Task \cup {Gone}) /\ Len(tasks') = Len(tasks)
        /\ \A i \in 1 .. Len(tasks) : tasks'[i] = IF i = head + 1 THEN Gone ELSE tasks[i]
    <3>1. head \in Nat /\ head + 1 \in 1 .. Len(tasks) /\ Len(tasks) \in Nat
      BY <2>1, LenProperties DEF QueuesOK, TookTask
    <3>2. QED
      BY <2>1, <3>1, ExceptSeq DEF QueuesOK, TookTask
  <2>3. \A i \in head' + 1 .. Len(tasks') :
           i + 0 \in head + 1 .. Len(tasks) /\ tasks'[i] = tasks[i + 0]
    BY <2>2
  <2>4. head' \in Nat /\ Len(tasks') \in Nat
    BY <2>2
  <2>5. \A x \in Timer : timers'[x].state = "queued" => timers'[x] = timers[x]
    BY <1>9
  <2>6. QED
    BY <1>1, <2>2, <2>3, <2>4, <2>5, OrderKept
<1>15. QED
  BY <1>8, <1>11, <1>12, <1>13, <1>14 DEF MapInv

\* Tidying the array keeps the order of the tasks.
LEMMA TidiedOrder ==
  ASSUME TimersInv, Emptied \/ Spliced \/ UNCHANGED <<tasks, head>>,
         \A x \in Timer : timers'[x].state = "queued" => timers'[x] = timers[x]
  PROVE  FireInDeadlineOrder'
<1>1. QueuesOK /\ FireInDeadlineOrder
  BY TypeOKParts DEF TimersInv, IndInv, MapInv
<1>2. head \in 0 .. Len(tasks) /\ head \in Nat /\ Len(tasks) \in Nat
  BY <1>1, LenProperties DEF QueuesOK
<1>3. CASE Emptied
  <2>1. head' = 0 /\ Len(tasks') = 0
    BY <1>3, EmptySeq DEF Emptied
  <2>2. QED
    BY <2>1 DEF FireInDeadlineOrder
<1>4. CASE Spliced
  <2>1. head' = 0 /\ tasks' = SubSeq(tasks, head + 1, Len(tasks))
    BY <1>4 DEF Spliced
  <2>2. Len(tasks') = Len(tasks) - head /\ \A i \in 1 .. Len(tasks) - head : tasks'[i] = tasks[head + i]
    BY <2>1, <1>1, <1>2, PendingProperties DEF QueuesOK
  <2>3. head' \in Nat /\ Len(tasks') \in Nat
    BY <1>2, <2>1, <2>2
  <2>4. ASSUME NEW i \in head' + 1 .. Len(tasks')
        PROVE  i + head \in head + 1 .. Len(tasks) /\ tasks'[i] = tasks[i + head]
    <3>1. i \in 1 .. Len(tasks) - head /\ i + head = head + i /\ i + head \in head + 1 .. Len(tasks)
      BY <1>2, <2>1, <2>2
    <3>2. QED
      BY <2>2, <3>1
  <2>5. QED
    BY <1>1, <1>2, <2>3, <2>4, OrderKept
<1>5. CASE UNCHANGED <<tasks, head>>
  BY <1>5, OrderKeptInPlace
<1>6. QED
  BY <1>3, <1>4, <1>5

\* What the finally block of a timer's task leaves in the map.
LEMMA EndedTimer ==
  ASSUME TimersInv, EndTimerTask, firing # NotFiring
  PROVE  LET t == firing.id
         IN  /\ t \in Timer /\ wakeIn' = ArmTimers(timers', stopped) /\ firing' = NotFiring
             /\ entry[t] # "accepted"
             /\ timers' \in [Timer -> [state : {"absent", "armed", "queued"}, period : Nat, due : Int]]
             /\ \A x \in Timer : x # t => timers'[x] = timers[x]
             /\ \/ timers' = timers
                \/ /\ firing.period \in Nat \ {0}
                   /\ timers[t].state = "queued" /\ timers[t].period = firing.period
                   /\ timers'[t].state = "armed" /\ timers'[t].period = firing.period
                   /\ timers'[t].due = NextDue(timers[t].due, firing.period)
                   /\ timers'[t].due \in 1 .. firing.period
<1> DEFINE t == firing.id
<1>1. /\ t \in Timer /\ firing.period \in Nat /\ entry[t] # "accepted"
      /\ \/ timers[t].state = "absent"
         \/ timers[t].state = "queued" /\ timers[t].period = firing.period
  BY DEF TimersInv, MapInv, OneTask
<1>2. /\ timers' = IF firing.period # 0 /\ timers[t].state # "absent"
                   THEN [timers EXCEPT ![t].state = "armed",
                                       ![t].due = NextDue(@, firing.period)]
                   ELSE timers
      /\ wakeIn' = ArmTimers(timers', stopped) /\ firing' = NotFiring
  BY DEF EndTimerTask
<1>3. timers \in [Timer -> [state : {"absent", "armed", "queued"}, period : Nat, due : Int]]
  BY DEF TimersInv, MapInv, TimerTypes
<1>4. ASSUME firing.period # 0, timers[t].state # "absent"
      PROVE  /\ timers' \in [Timer -> [state : {"absent", "armed", "queued"}, period : Nat, due : Int]]
             /\ timers'[t].state = "armed" /\ timers'[t].period = firing.period
             /\ timers'[t].due = NextDue(timers[t].due, firing.period)
             /\ timers'[t].due \in 1 .. firing.period
             /\ \A x \in Timer : x # t => timers'[x] = timers[x]
  <2> DEFINE n == NextDue(timers[t].due, firing.period)
  <2>1. timers[t].due \in Int /\ timers[t].due <= 0 /\ firing.period \in Nat \ {0}
    BY <1>1, <1>3, <1>4 DEF TimersInv, MapInv, DueOrder
  <2>2. n \in 1 .. firing.period
    BY <2>1, NextDuePhase
  <2> HIDE DEF n
  <2>3. n \in Int
    BY <2>1, <2>2
  <2>4. timers' = [timers EXCEPT ![t].state = "armed", ![t].due = n]
    BY <1>2, <1>4 DEF n
  <2>5. /\ timers' \in [Timer -> [state : {"absent", "armed", "queued"}, period : Nat, due : Int]]
        /\ timers'[t].state = "armed" /\ timers'[t].due = n /\ timers'[t].period = timers[t].period
        /\ \A x \in Timer : x # t => timers'[x] = timers[x]
    BY <1>1, <1>3, <2>3, <2>4
  <2>6. timers[t].period = firing.period
    BY <1>1, <1>4
  <2>7. QED
    BY <2>2, <2>5, <2>6 DEF n
<1>5. CASE firing.period # 0 /\ timers[t].state # "absent"
  BY <1>1, <1>2, <1>4, <1>5
<1>6. CASE ~(firing.period # 0 /\ timers[t].state # "absent")
  BY <1>1, <1>2, <1>3, <1>6
<1>7. QED
  BY <1>5, <1>6

LEMMA EndTimerTaskKeeps ==
  ASSUME TimersInv, EndTimerTask
  PROVE  MapInv'
<1>1. QueuesOK /\ MapInv
  BY TypeOKParts DEF TimersInv, IndInv
<1>2. EndTask /\ UNCHANGED <<stopped, entry>>
  BY DEF EndTimerTask, EndTask
<1>3. Emptied \/ Spliced \/ UNCHANGED <<tasks, head>>
  <2>1. Len(tasks) \in Nat /\ head \in Nat /\ head <= Len(tasks)
    BY <1>1, LenProperties DEF QueuesOK
  <2>2. QED
    BY <1>2, <2>1 DEF EndTask, Compact, Emptied, Spliced
<1>4. CASE firing = NotFiring
  <2>1. UNCHANGED timerVars
    BY <1>4 DEF EndTimerTask
  <2>2. UNCHANGED <<timers, wakeIn, firing>>
    BY <2>1 DEF timerVars
  <2>3. FireInDeadlineOrder'
    BY <1>3, <2>2, TidiedOrder
  <2>4. OneTask'
    BY <1>1, <1>2, <1>4, <2>2 DEF MapInv, OneTask
  <2>5. TimerTypes' /\ DueOrder' /\ WakeArmed'
    BY <1>1, <1>2, <2>2 DEF MapInv, TimerTypes, DueOrder, WakeArmed
  <2>6. QED
    BY <2>3, <2>4, <2>5 DEF MapInv
<1>5. CASE firing # NotFiring
  <2> DEFINE t == firing.id
  <2>1. /\ t \in Timer /\ wakeIn' = ArmTimers(timers', stopped) /\ firing' = NotFiring
        /\ entry[t] # "accepted"
        /\ timers' \in [Timer -> [state : {"absent", "armed", "queued"}, period : Nat, due : Int]]
        /\ \A x \in Timer : x # t => timers'[x] = timers[x]
        /\ \/ timers' = timers
           \/ /\ firing.period \in Nat \ {0} /\ timers[t].state = "queued"
              /\ timers'[t].state = "armed" /\ timers'[t].due \in 1 .. firing.period
    BY <1>5, EndedTimer
  <2> HIDE DEF t
  <2>2. timers'[t] = timers[t] \/ (timers[t].state = "queued" /\ timers'[t].state = "armed"
                                     /\ timers'[t].due \in Nat /\ timers'[t].due >= 1)
    BY <2>1
  <2>3. /\ \A x \in Timer : timers[x].due \in Int /\ timers[x].due >= -MaxLate
        /\ IsFiniteSet({x \in Timer : timers[x].state # "absent"})
        /\ OneTask /\ DueOrder
    BY <1>1 DEF MapInv, TimerTypes
  <2>4. TimerTypes'
    <3>1. {x \in Timer : timers'[x].state # "absent"} = {x \in Timer : timers[x].state # "absent"}
      BY <2>1, <2>2
    <3>2. \A x \in Timer : timers'[x].due >= -MaxLate
      BY <2>1, <2>2, <2>3, TimerNames
    <3>3. QED
      BY <2>1, <2>3, <3>1, <3>2 DEF TimerTypes
  <2>5. OneTask'
    <3>1. \A x \in Timer : timers'[x].state = "armed" => entry'[x] # "accepted"
      BY <1>2, <2>1, <2>3 DEF OneTask
    <3>2. QED
      BY <2>1, <3>1 DEF OneTask
  <2>6. \A x \in Timer : timers'[x].state = "queued" => timers'[x] = timers[x]
    BY <2>1, <2>2
  <2>7. DueOrder'
    <3>1. ASSUME NEW a \in Timer, NEW b \in Timer,
                 timers'[a].state = "queued", timers'[b].state = "armed"
          PROVE  timers'[a].due <= timers'[b].due
      <4>1. timers'[a] = timers[a] /\ timers[a].state = "queued" /\ timers[a].due <= 0
        BY <2>3, <2>6, <3>1 DEF DueOrder
      <4>2. CASE timers'[b] = timers[b]
        BY <4>1, <4>2, <2>3, <3>1 DEF DueOrder
      <4>3. CASE timers'[b] # timers[b]
        BY <4>1, <4>3, <2>1, <2>2, <2>3
      <4>4. QED
        BY <4>2, <4>3
    <3>2. \A x \in Timer : timers'[x].state = "queued" => timers'[x].due <= 0
      BY <2>3, <2>6 DEF DueOrder
    <3>3. QED
      BY <3>1, <3>2 DEF DueOrder
  <2>8. WakeArmed'
    BY <1>2, <2>1 DEF WakeArmed
  <2>9. FireInDeadlineOrder'
    BY <1>3, <2>6, TidiedOrder
  <2>10. QED
    BY <2>4, <2>5, <2>7, <2>8, <2>9 DEF MapInv
<1>6. QED
  BY <1>4, <1>5

\* Passing time makes a deadline one tick nearer, or keeps it MaxLate late.
LEMMA Later ==
  ASSUME NEW due \in Int, due >= -MaxLate
  PROVE  /\ Max({due - 1, -MaxLate}) \in Int /\ Max({due - 1, -MaxLate}) >= -MaxLate
         /\ Max({due - 1, -MaxLate}) = IF due > -MaxLate THEN due - 1 ELSE due
<1>1. MaxLate \in Nat
  BY TimersAssumption
<1>2. -MaxLate \in Int /\ due - 1 \in Int
  BY <1>1
<1>3. Max({due - 1, -MaxLate}) = IF due - 1 >= -MaxLate THEN due - 1 ELSE -MaxLate
  BY <1>2, MaxOfTwo
<1>4. QED
  BY <1>1, <1>2, <1>3

LEMMA ElapsedMap ==
  ASSUME TimersInv, Elapse
  PROVE  /\ timers \in TimerMaps /\ timers' \in TimerMaps
         /\ \A x \in Timer : timers'[x].state = timers[x].state
         /\ \A x \in Timer : timers[x].state # "absent" =>
              /\ timers'[x].period = timers[x].period
              /\ timers'[x].due =
                   IF timers[x].due > -MaxLate THEN timers[x].due - 1 ELSE timers[x].due
<1>1. /\ timers \in [Timer -> [state : {"absent", "armed", "queued"}, period : Nat, due : Int]]
      /\ \A x \in Timer : timers[x].due >= -MaxLate
      /\ timers \in TimerMaps
  BY MapTypes DEF TimersInv, MapInv, TimerMaps
<1>2. timers' = [t \in Timer |->
         IF timers[t].state = "absent" THEN Absent
         ELSE [timers[t] EXCEPT !.due = Max({@ - 1, -MaxLate})]]
  BY DEF Elapse
<1>3. ASSUME NEW x \in Timer, timers[x].state = "absent"
      PROVE  /\ timers'[x] \in [state : {"absent", "armed", "queued"}, period : Nat, due : Int]
             /\ timers'[x].state = "absent" /\ timers'[x].due >= -MaxLate
  <2>1. timers'[x] = Absent
    BY <1>2, <1>3
  <2>2. QED
    BY <2>1, TimerNames DEF Absent
<1>4. ASSUME NEW x \in Timer, timers[x].state # "absent"
      PROVE  /\ timers'[x] \in [state : {"absent", "armed", "queued"}, period : Nat, due : Int]
             /\ timers'[x].state = timers[x].state /\ timers'[x].period = timers[x].period
             /\ timers'[x].due >= -MaxLate
             /\ timers'[x].due =
                   IF timers[x].due > -MaxLate THEN timers[x].due - 1 ELSE timers[x].due
  <2> DEFINE n == Max({timers[x].due - 1, -MaxLate})
  <2>1. timers[x] \in [state : {"absent", "armed", "queued"}, period : Nat, due : Int]
    BY <1>1
  <2>2. /\ n \in Int /\ n >= -MaxLate
        /\ n = IF timers[x].due > -MaxLate THEN timers[x].due - 1 ELSE timers[x].due
    BY <1>1, Later
  <2>3. timers'[x] = [timers[x] EXCEPT !.due = n]
    BY <1>2, <1>4
  <2> HIDE DEF n
  <2>4. /\ timers'[x] \in [state : {"absent", "armed", "queued"}, period : Nat, due : Int]
        /\ timers'[x].state = timers[x].state /\ timers'[x].period = timers[x].period
        /\ timers'[x].due = n
    BY <2>1, <2>2, <2>3
  <2>5. QED
    BY <2>2, <2>4
<1>5. \A x \in Timer :
         /\ timers'[x] \in [state : {"absent", "armed", "queued"}, period : Nat, due : Int]
         /\ timers'[x].due >= -MaxLate /\ timers'[x].state = timers[x].state
  BY <1>3, <1>4
<1>6. timers' \in TimerMaps
  BY <1>2, <1>5 DEF TimerMaps
<1>7. QED
  BY <1>1, <1>4, <1>5, <1>6

LEMMA ElapseKeepsWake ==
  ASSUME TimersInv, Elapse
  PROVE  WakeArmed'
<1>1. /\ timers \in TimerMaps /\ timers' \in TimerMaps
      /\ \A x \in Timer : timers'[x].state = timers[x].state
      /\ \A x \in Timer : timers[x].state # "absent" =>
           timers'[x].due = IF timers[x].due > -MaxLate THEN timers[x].due - 1 ELSE timers[x].due
  BY ElapsedMap
<1>2. /\ wakeIn' = IF wakeIn \in {NoWake, 0} THEN wakeIn ELSE wakeIn - 1
      /\ stopped' = stopped
  BY DEF Elapse, vars
<1>3. Armed(timers') = Armed(timers)
  BY <1>1 DEF Armed
<1>4. wakeIn = ArmTimers(timers, stopped)
  BY DEF TimersInv, MapInv, WakeArmed
<1>5. CASE stopped \/ Armed(timers) = {}
  BY <1>2, <1>3, <1>4, <1>5 DEF ArmTimers, WakeArmed
<1>6. CASE ~stopped /\ Armed(timers) # {}
  <2>1. PICK e \in Armed(timers) :
          /\ \A t \in Armed(timers) : timers[e].due <= timers[t].due
          /\ ArmTimers(timers, FALSE) = IF timers[e].due >= 0 THEN timers[e].due ELSE 0
    BY <1>1, <1>6, EarliestArmed
  <2>2. PICK f \in Armed(timers) :
          /\ \A t \in Armed(timers) : timers'[f].due <= timers'[t].due
          /\ ArmTimers(timers', FALSE) = IF timers'[f].due >= 0 THEN timers'[f].due ELSE 0
    BY <1>1, <1>3, <1>6, EarliestArmed
  <2>3. \A t \in Armed(timers) :
          /\ timers[t].due \in Int /\ timers'[t].due \in Int /\ timers[t].due >= -MaxLate
          /\ timers'[t].due = IF timers[t].due > -MaxLate THEN timers[t].due - 1 ELSE timers[t].due
    BY <1>1 DEF TimerMaps, Armed
  <2>4. timers[e].due <= timers[f].due /\ timers'[f].due <= timers'[e].due
    BY <2>1, <2>2
  <2>5. timers'[f].due = timers'[e].due
    BY <2>3, <2>4, TimerNames
  <2>6. wakeIn = (IF timers[e].due >= 0 THEN timers[e].due ELSE 0) /\ wakeIn \in Int
    BY <1>4, <1>6, <2>1, <2>3 DEF ArmTimers
  <2>7. wakeIn # NoWake
    BY <2>6, TimerNames
  <2>8. wakeIn' = IF timers'[e].due >= 0 THEN timers'[e].due ELSE 0
    <3> DEFINE d == timers[e].due
               c == timers'[e].due
    <3>1. /\ d \in Int /\ c \in Int /\ d >= -MaxLate /\ MaxLate \in Nat
          /\ c = IF d > -MaxLate THEN d - 1 ELSE d
      BY <2>3, TimerNames
    <3>2. wakeIn' = IF wakeIn = 0 THEN 0 ELSE wakeIn - 1
      BY <1>2, <2>7
    <3>3. wakeIn = IF d >= 0 THEN d ELSE 0
      BY <2>6
    <3> HIDE DEF c, d
    <3>4. wakeIn' = IF c >= 0 THEN c ELSE 0
      BY <3>1, <3>2, <3>3
    <3>5. QED
      BY <3>4 DEF c
  <2>9. wakeIn' = ArmTimers(timers', FALSE)
    BY <2>2, <2>5, <2>8
  <2>10. QED
    BY <1>2, <1>6, <2>9 DEF WakeArmed, ArmTimers
<1>7. QED
  BY <1>5, <1>6

LEMMA ElapseKeeps ==
  ASSUME TimersInv, Elapse
  PROVE  MapInv'
<1>1. /\ timers \in TimerMaps /\ timers' \in TimerMaps
      /\ \A x \in Timer : timers'[x].state = timers[x].state
      /\ \A x \in Timer : timers[x].state # "absent" =>
           /\ timers'[x].period = timers[x].period
           /\ timers'[x].due = IF timers[x].due > -MaxLate THEN timers[x].due - 1 ELSE timers[x].due
  BY ElapsedMap
<1>2. \A x \in Timer : timers[x].due \in Int /\ timers[x].due >= -MaxLate /\ timers'[x].due \in Int
  BY <1>1 DEF TimerMaps
<1>3. UNCHANGED <<tasks, head, onStack, entry, firing>>
  BY DEF Elapse, vars
<1>4. IsFiniteSet({x \in Timer : timers[x].state # "absent"}) /\ OneTask /\ DueOrder
  BY DEF TimersInv, MapInv, TimerTypes
<1>5. TimerTypes'
  <2>1. {x \in Timer : timers'[x].state # "absent"} = {x \in Timer : timers[x].state # "absent"}
    BY <1>1
  <2>2. QED
    BY <1>1, <1>4, <2>1 DEF TimerTypes, TimerMaps
<1>6. OneTask'
  BY <1>1, <1>3, <1>4 DEF OneTask
<1>7. \A x, y \in Timer :
         (timers[x].state # "absent" /\ timers[y].state # "absent" /\ timers[x].due <= timers[y].due)
           => timers'[x].due <= timers'[y].due
  BY <1>1, <1>2, TimerNames
<1>8. DueOrder'
  <2>1. ASSUME NEW x \in Timer, timers'[x].state = "queued"
        PROVE  timers'[x].due <= 0
    <3>1. timers[x].state = "queued" /\ timers[x].due <= 0
      BY <1>1, <1>4, <2>1 DEF DueOrder
    <3>2. QED
      BY <3>1, <1>1, <1>2
  <2>2. ASSUME NEW a \in Timer, NEW b \in Timer,
               timers'[a].state = "queued", timers'[b].state = "armed"
        PROVE  timers'[a].due <= timers'[b].due
    <3>1. timers[a].state = "queued" /\ timers[b].state = "armed"
      BY <1>1, <2>2
    <3>2. timers[a].due <= timers[b].due
      BY <1>4, <3>1 DEF DueOrder
    <3>3. QED
      BY <1>7, <3>1, <3>2
  <2>3. QED
    BY <2>1, <2>2 DEF DueOrder
<1>9. FireInDeadlineOrder'
  <2>1. ASSUME NEW x \in Timer, NEW y \in Timer,
               timers'[x].state = "queued", timers'[y].state = "queued"
        PROVE  /\ timers[x].state = "queued" /\ timers[y].state = "queued"
               /\ timers[x].due <= timers[y].due => timers'[x].due <= timers'[y].due
    <3>1. timers[x].state = "queued" /\ timers[y].state = "queued"
      BY <1>1, <2>1
    <3>2. QED
      BY <1>7, <3>1
  <2>2. QED
    BY <1>3, <2>1, OrderKeptInPlace
<1>10. QED
  BY <1>5, <1>6, <1>8, <1>9, ElapseKeepsWake DEF MapInv

LEMMA QueuedMap ==
  ASSUME TimersInv, QueueDueTimers
  PROVE  /\ timers' \in TimerMaps
         /\ \A x \in Timer :
              /\ timers'[x].due = timers[x].due /\ timers'[x].due \in Int
              /\ timers'[x].state = IF x \in Due THEN "queued" ELSE timers[x].state
<1>1. timers \in TimerMaps
  BY MapTypes DEF TimersInv, MapInv
<1>2. /\ timers \in [Timer -> [state : {"absent", "armed", "queued"}, period : Nat, due : Int]]
      /\ \A x \in Timer : timers[x].due >= -MaxLate
  BY <1>1 DEF TimerMaps
<1>3. timers' = [t \in Timer |-> IF t \in Due THEN [timers[t] EXCEPT !.state = "queued"]
                                ELSE timers[t]]
  BY DEF QueueDueTimers
<1> DEFINE D == Due
<1> HIDE DEF D
<1>4. timers' = [t \in Timer |-> IF t \in D THEN [timers[t] EXCEPT !.state = "queued"]
                                ELSE timers[t]]
  BY <1>3 DEF D
<1>5. ASSUME NEW x \in Timer
      PROVE  /\ timers'[x] \in [state : {"absent", "armed", "queued"}, period : Nat, due : Int]
             /\ timers'[x].due = timers[x].due
             /\ timers'[x].state = IF x \in D THEN "queued" ELSE timers[x].state
  <2>1. timers[x] \in [state : {"absent", "armed", "queued"}, period : Nat, due : Int]
    BY <1>2
  <2>2. CASE x \in D
    <3>1. timers'[x] = [timers[x] EXCEPT !.state = "queued"]
      BY <1>4, <2>2
    <3>2. QED
      BY <2>1, <2>2, <3>1
  <2>3. CASE x \notin D
    BY <1>4, <2>1, <2>3
  <2>4. QED
    BY <2>2, <2>3
<1>6. timers' \in TimerMaps
  BY <1>2, <1>4, <1>5 DEF TimerMaps
<1>7. QED
  BY <1>2, <1>5, <1>6 DEF D

LEMMA QueueDueKeepsOrder ==
  ASSUME TimersInv, QueueDueTimers
  PROVE  FireInDeadlineOrder'
<1>1. QueuesOK /\ Placement /\ OneTask /\ DueOrder /\ FireInDeadlineOrder
  BY TypeOKParts DEF TimersInv, IndInv, MapInv
<1>2. PICK batch \in Seq(Due) :
         /\ \A i, j \in 1 .. Len(batch) : i < j => timers[batch[i]].due <= timers[batch[j]].due
         /\ BatchPushed(Due, batch)
  BY QueueDuePushes
<1> DEFINE m == Len(tasks)
           n == Len(batch)
<1>3. /\ m \in Nat /\ n \in Nat /\ Len(tasks') = m + n /\ head' = head /\ head \in 0 .. m
      /\ \A i \in 1 .. m : tasks'[i] = tasks[i]
      /\ \A i \in m + 1 .. m + n : i - m \in 1 .. n /\ tasks'[i] = batch[i - m]
      /\ \A i \in 1 .. n : batch[i] \in Due
  <2>1. batch \in Seq(Task \cup {Gone}) /\ \A i \in 1 .. n : batch[i] \in Due
    BY DueAreNew, SeqMonotonic, ElementOfSeq
  <2>2. tasks' = tasks \o batch /\ head' = head
    BY <1>2 DEF BatchPushed
  <2>3. QED
    BY <1>1, <2>1, <2>2, Appended DEF QueuesOK
<1>4. /\ \A x \in Timer : timers'[x].due = timers[x].due /\ timers'[x].due \in Int
      /\ \A x \in Timer : timers'[x].state = IF x \in Due THEN "queued" ELSE timers[x].state
      /\ \A x \in Due : x \in Timer /\ timers[x].state = "armed" /\ entry[x] # "accepted"
  BY QueuedMap, DueAreNew DEF Due
<1>5. SUFFICES ASSUME NEW i \in head' + 1 .. Len(tasks'), NEW j \in head' + 1 .. Len(tasks'),
                      i < j, tasks'[i] \in Timer, tasks'[j] \in Timer,
                      timers'[tasks'[i]].state = "queued", timers'[tasks'[j]].state = "queued"
               PROVE  timers[tasks'[i]].due <= timers[tasks'[j]].due
  BY <1>4 DEF FireInDeadlineOrder
<1> HIDE DEF m, n
<1>6. ASSUME NEW k \in head' + 1 .. Len(tasks'), k <= m, tasks'[k] \in Timer,
             timers'[tasks'[k]].state = "queued"
      PROVE  /\ k \in head + 1 .. m /\ tasks'[k] = tasks[k]
             /\ timers[tasks[k]].state = "queued"
  <2>1. k \in head + 1 .. m /\ tasks'[k] = tasks[k]
    BY <1>3, <1>6
  <2>2. entry[tasks[k]] = "accepted"
    BY <1>1, <2>1 DEF Placement, m
  <2>3. QED
    BY <1>4, <1>6, <2>1, <2>2
<1>7. ASSUME NEW k \in head' + 1 .. Len(tasks'), k > m
      PROVE  k - m \in 1 .. n /\ tasks'[k] = batch[k - m] /\ batch[k - m] \in Due
  <2>1. k \in m + 1 .. m + n
    BY <1>3, <1>7
  <2>2. QED
    BY <1>3, <2>1
<1>8. i \in Int /\ j \in Int
  BY <1>3
<1>9. CASE j <= m
  <2>1. i <= m
    BY <1>3, <1>5, <1>8, <1>9
  <2>2. /\ i \in head + 1 .. m /\ tasks'[i] = tasks[i] /\ timers[tasks[i]].state = "queued"
        /\ j \in head + 1 .. m /\ tasks'[j] = tasks[j] /\ timers[tasks[j]].state = "queued"
    BY <1>5, <1>6, <1>9, <2>1
  <2>3. QED
    BY <1>1, <1>5, <2>2 DEF FireInDeadlineOrder, m
<1>10. CASE i <= m /\ j > m
  <2>1. tasks'[i] \in Timer /\ timers[tasks'[i]].state = "queued"
    BY <1>5, <1>6, <1>10
  <2>2. tasks'[j] \in Timer /\ timers[tasks'[j]].state = "armed"
    BY <1>4, <1>7, <1>10
  <2>3. QED
    BY <1>1, <2>1, <2>2 DEF DueOrder
<1>11. CASE i > m
  <2>1. j > m
    BY <1>3, <1>5, <1>8, <1>11
  <2>2. /\ i - m \in 1 .. n /\ tasks'[i] = batch[i - m]
        /\ j - m \in 1 .. n /\ tasks'[j] = batch[j - m]
    BY <1>7, <1>11, <2>1
  <2>3. i - m < j - m
    BY <1>3, <1>5, <1>8
  <2>4. timers[batch[i - m]].due <= timers[batch[j - m]].due
    BY <1>2, <2>2, <2>3 DEF n
  <2>5. QED
    BY <2>2, <2>4
<1>12. QED
  BY <1>3, <1>8, <1>9, <1>10, <1>11

LEMMA QueueDueKeeps ==
  ASSUME TimersInv, QueueDueTimers
  PROVE  MapInv'
<1>1. /\ timers' \in TimerMaps
      /\ \A x \in Timer : timers'[x].due = timers[x].due /\ timers'[x].due \in Int
      /\ \A x \in Timer : timers'[x].state = IF x \in Due THEN "queued" ELSE timers[x].state
  BY QueuedMap
<1>2. \A x : x \in Due <=> x \in Timer /\ timers[x].state = "armed" /\ timers[x].due <= 0
  BY DEF Due
<1>3. /\ IsFiniteSet({x \in Timer : timers[x].state # "absent"}) /\ OneTask /\ DueOrder
  BY DEF TimersInv, MapInv, TimerTypes
<1>4. /\ onStack = None /\ firing' = firing /\ stopped' = stopped
      /\ entry' = [t \in Task |-> IF t \in Due THEN "accepted" ELSE entry[t]]
      /\ wakeIn' = ArmTimers(timers', stopped)
  BY DEF QueueDueTimers
<1>5. TimerTypes'
  <2>1. {x \in Timer : timers'[x].state # "absent"} = {x \in Timer : timers[x].state # "absent"}
    BY <1>1, <1>2
  <2>2. QED
    BY <1>1, <1>3, <2>1 DEF TimerTypes, TimerMaps
<1>6. OneTask'
  <2>1. firing' = NotFiring
    BY <1>3, <1>4, TimerNames DEF OneTask
  <2>2. ASSUME NEW x \in Timer, timers'[x].state = "armed"
        PROVE  entry'[x] # "accepted"
    <3>1. x \notin Due /\ timers[x].state = "armed"
      BY <1>1, <2>2
    <3>2. entry'[x] = entry[x]
      BY <1>4, <3>1, TimerNames
    <3>3. QED
      BY <1>3, <3>1, <3>2 DEF OneTask
  <2>3. QED
    BY <2>1, <2>2 DEF OneTask
<1>7. \A x \in Timer : timers'[x].state = "queued" => timers'[x].due <= 0
  BY <1>1, <1>2, <1>3 DEF DueOrder
<1>8. \A x \in Timer : timers'[x].state = "armed" => timers'[x].due > 0
  BY <1>1, <1>2
<1>9. \A a, b \in Timer : (timers'[a].state = "queued" /\ timers'[b].state = "armed")
                           => timers'[a].due <= timers'[b].due
  BY <1>1, <1>7, <1>8
<1>10. DueOrder'
  BY <1>7, <1>9 DEF DueOrder
<1>11. WakeArmed'
  BY <1>4 DEF WakeArmed
<1>12. QED
  BY <1>5, <1>6, <1>10, <1>11, QueueDueKeepsOrder DEF MapInv

LEMMA OtherStepKeeps ==
  ASSUME TimersInv, Frames \/ NothingToTake \/ UNCHANGED timedVars
  PROVE  MapInv'
<1>1. QueuesOK /\ MapInv
  BY TypeOKParts DEF TimersInv, IndInv
<1>2. UNCHANGED <<timers, wakeIn, firing>>
  BY DEF Frames, NothingToTake, timedVars, timerVars
<1>3. UNCHANGED <<stopped, entry>> /\ (Emptied \/ UNCHANGED <<tasks, head>>)
  BY DEF Frames, RunFrame, StartFrame, FrameReturns, FrameThrows, FrameSettles,
         NothingToTake, TakeNothing, Emptied, timedVars, vars
<1>4. onStack \in Task => onStack' = onStack
  BY SchedulerAssumption
     DEF Frames, RunFrame, StartFrame, FrameReturns, FrameThrows, FrameSettles,
         NothingToTake, TakeNothing, Turn, timedVars, vars
<1>5. FireInDeadlineOrder'
  BY <1>2, <1>3, TidiedOrder
<1>6. OneTask'
  BY <1>1, <1>2, <1>3, <1>4, TimerNames DEF MapInv, OneTask
<1>7. TimerTypes' /\ DueOrder' /\ WakeArmed'
  BY <1>1, <1>2, <1>3 DEF MapInv, TimerTypes, DueOrder, WakeArmed
<1>8. QED
  BY <1>5, <1>6, <1>7 DEF MapInv

LEMMA InitTimersInv == TimersInit => TimersInv
<1> SUFFICES ASSUME TimersInit PROVE TimersInv
  OBVIOUS
<1>1. /\ Init /\ timers = [t \in Timer |-> Absent] /\ wakeIn = NoWake /\ firing = NotFiring
  BY DEF TimersInit
<1>2. IndInv
  BY <1>1, InitIndInv
<1>3. \A t \in Timer : timers[t].state = "absent"
  BY <1>1 DEF Absent
<1>4. TimerTypes
  <2>1. Absent \in [state : {"absent", "armed", "queued"}, period : Nat, due : Int]
    BY DEF Absent
  <2>2. \A t \in Timer : timers[t].due >= -MaxLate
    BY <1>1, TimerNames DEF Absent
  <2>3. {t \in Timer : timers[t].state # "absent"} = {}
    BY <1>3
  <2>4. IsFiniteSet({t \in Timer : timers[t].state # "absent"})
    BY <2>3, FS_EmptySet
  <2>5. QED
    BY <1>1, <2>1, <2>2, <2>4 DEF TimerTypes
<1>5. OneTask /\ DueOrder /\ FireInDeadlineOrder
  BY <1>1, <1>3 DEF OneTask, DueOrder, FireInDeadlineOrder
<1>6. WakeArmed
  BY <1>1, <1>3 DEF WakeArmed, ArmTimers, Armed
<1>7. QED
  BY <1>2, <1>4, <1>5, <1>6 DEF TimersInv, MapInv

LEMMA TimersInductive == TimersSpec => []TimersInv
<1>1. ASSUME TimersInv, [TimersNext]_timedVars PROVE TimersInv'
  <2>1. IndInv'
    BY <1>1, DispatcherKept
  <2>2. MapInv'
    BY <1>1, AddTimerKeeps, ClearTimerKeeps, TimersStopKeeps, QueueDueKeeps, TakeTimerTaskKeeps,
       EndTimerTaskKeeps, ElapseKeeps, OtherStepKeeps DEF TimersNext
  <2>3. QED
    BY <2>1, <2>2 DEF TimersInv
<1>2. QED
  BY <1>1, InitTimersInv, PTL DEF TimersSpec

\* armTimers(): the one host timeout waits for the earliest timer without a
\* task, through every add, clear, firing, restart of an interval and stop,
\* however many timers there are.
THEOREM HostTimeoutIsArmed == TimersSpec => []WakeArmed
<1>1. TimersInv => WakeArmed
  BY DEF TimersInv, MapInv
<1>2. QED
  BY <1>1, TimersInductive, PTL

\* queueDueTimers(): the tasks of timers wait in the order of their deadlines,
\* whichever host timeouts queued them.
THEOREM TimersFireInOrder == TimersSpec => []FireInDeadlineOrder
<1>1. TimersInv => FireInDeadlineOrder
  BY DEF TimersInv, MapInv
<1>2. QED
  BY <1>1, TimersInductive, PTL

\* The host timeout submits many tasks in one step, and the dispatcher still
\* neither loses one, runs one twice nor misses a turn.
THEOREM TimersKeepDispatcher == TimersSpec => [](NothingLostOrTwice /\ NoLostWakeup)
<1>1. TimersInv => NothingLostOrTwice /\ NoLostWakeup
  BY PlacementSuffices DEF TimersInv, IndInv, TurnInv
<1>2. QED
  BY <1>1, TimersInductive, PTL

\* A step that puts a timer back in the map is the end of its own task.
LEMMA PhaseKept ==
  ASSUME TimersInv, [TimersNext]_timedVars, NEW t \in Timer,
         timers[t].state = "queued", timers'[t].state = "armed"
  PROVE  /\ timers'[t].due \in 1 .. timers[t].period
         /\ (timers'[t].due - timers[t].due) % timers[t].period = 0
<1>1. timers \in [Timer -> [state : {"absent", "armed", "queued"}, period : Nat, due : Int]]
  BY DEF TimersInv, MapInv, TimerTypes
<1>2. timers' # timers
  OBVIOUS
<1>3. ASSUME NEW x \in Timer, NEW delay \in 0 .. MaxDelay, NEW interval \in BOOLEAN,
             AddTimer(x, delay, interval)
      PROVE  FALSE
  <2>1. timers[x].state = "absent"
    BY <1>3 DEF AddTimer
  <2>2. x # t
    BY <2>1
  <2>3. timers'[t] = timers[t]
    BY <1>1, <1>3, <2>2 DEF AddTimer
  <2>4. QED
    BY <2>3
<1>4. ASSUME NEW x \in Timer, ClearTimer(x) PROVE FALSE
  <2>1. timers' = [timers EXCEPT ![x] = Absent]
    BY <1>4 DEF ClearTimer
  <2>2. timers'[t] = timers[t] \/ timers'[t] = Absent
    BY <1>1, <2>1
  <2>3. QED
    BY <2>2 DEF Absent
<1>5. ASSUME TimersStop PROVE FALSE
  BY <1>5 DEF TimersStop, Absent
<1>6. ASSUME QueueDueTimers PROVE FALSE
  <2>1. timers'[t].state = IF t \in Due THEN "queued" ELSE timers[t].state
    BY <1>6, QueuedMap
  <2>2. QED
    BY <2>1
<1>7. ASSUME TakeTimerTask PROVE FALSE
  <2>1. timers' = timers \/ \E x \in Timer : timers' = [timers EXCEPT ![x] = Absent]
    BY <1>7 DEF TakeTimerTask
  <2>2. timers'[t] = timers[t] \/ timers'[t] = Absent
    BY <1>1, <2>1
  <2>3. QED
    BY <2>2 DEF Absent
<1>8. ASSUME Elapse PROVE FALSE
  BY <1>8, ElapsedMap
<1>9. ASSUME Frames \/ NothingToTake \/ UNCHANGED timedVars PROVE FALSE
  BY <1>2, <1>9 DEF Frames, NothingToTake, timedVars, timerVars
<1>10. EndTimerTask
  BY <1>3, <1>4, <1>5, <1>6, <1>7, <1>8, <1>9 DEF TimersNext
<1>11. firing # NotFiring
  BY <1>2, <1>10 DEF EndTimerTask, timerVars
<1>12. /\ \A x \in Timer : x # firing.id => timers'[x] = timers[x]
       /\ firing.period \in Nat \ {0} /\ timers[firing.id].period = firing.period
       /\ timers'[firing.id].due = NextDue(timers[firing.id].due, firing.period)
  BY <1>2, <1>10, <1>11, EndedTimer
<1>13. t = firing.id
  BY <1>12
<1>14. timers[t].due \in Int /\ timers[t].due <= 0
  BY <1>1 DEF TimersInv, MapInv, DueOrder
<1>15. QED
  BY <1>12, <1>13, <1>14, NextDuePhase

\* The finally block of a timer's task: a late interval goes on at its next
\* multiple, for every period and every lateness.
THEOREM IntervalsKeepPhase == TimersSpec => IntervalKeepsPhase
<1> DEFINE Phase == \A t \in Timer :
       (timers[t].state = "queued" /\ timers'[t].state = "armed") =>
         /\ timers'[t].due \in 1 .. timers[t].period
         /\ (timers'[t].due - timers[t].due) % timers[t].period = 0
<1>1. TimersInv /\ [TimersNext]_timedVars => [Phase]_timedVars
  <2> SUFFICES ASSUME TimersInv, [TimersNext]_timedVars PROVE Phase
    OBVIOUS
  <2>1. QED
    BY PhaseKept
<1> HIDE DEF Phase
<1>2. TimersSpec => [][Phase]_timedVars
  BY <1>1, TimersInductive, PTL DEF TimersSpec
<1>3. QED
  BY <1>2 DEF Phase, IntervalKeepsPhase
=============================================================================
