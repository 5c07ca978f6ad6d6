----------------------------- MODULE FrameLoop -----------------------------
(***************************************************************************)
(* The frame loop of a session on top of the task dispatcher: tick() of    *)
(* runner/index.cjs asks the dispatcher for a frame and schedules the next *)
(* tick when it completes; the frame is the promise chain of               *)
(* js/pmjs-rpgmaker/main-loop.js (services, then the animation callbacks   *)
(* one continuation at a time through pmjsDrainScheduler) ended by render  *)
(* and swap.                                                               *)
(*                                                                         *)
(* Every action of TaskScheduler keeps its meaning; FrameReturns,          *)
(* FrameThrows and FrameSettles happen when this chain makes them happen.  *)
(***************************************************************************)
EXTENDS TaskScheduler, SequencesExt

CONSTANTS
  Raf,       \* ids of animation callbacks: the map of rAFs and the link that runs one
  Services   \* the invokeRendering() entry of runTick

ASSUME FrameLoopAssumption ==
  /\ Raf \subseteq Invoked
  /\ Services \in Invoked \ Raf

VARIABLES
  loop,      \* the tick loop of the session
  complete,  \* the promise runFrame() returned to tick()
  stage,     \* where the promise chain of the frame callback is
  threw,     \* the services callback threw
  rafs,      \* ids registered by requestAnimationFrame, in registration order
  snapshot,  \* ids this frame has still to submit
  link,      \* the continuation the chain awaits
  fresh      \* history: ids registered since the snapshot was taken

loopVars == <<loop, complete, stage, threw, rafs, snapshot, link, fresh>>
allVars == <<vars, loopVars>>

Ordinary == Task \ (Raf \cup {Services})

LoopInit ==
  /\ Init
  /\ loop = "scheduled"
  /\ complete = "none"
  /\ stage = "none"
  /\ threw = FALSE
  /\ rafs = <<>>
  /\ snapshot = <<>>
  /\ link = None
  /\ fresh = {}

\* The promise an invoke() returned has settled: its entry ran or was dropped.
Settled(t) == entry[t] # "accepted" /\ onStack # t

\* Mutant of LinkSettled: drainFrame() does not await its callbacks.
LinkForgotten == TRUE

LinkSettled == IF link = None THEN TRUE ELSE Settled(link)

\* Promise reactions of the frame run before the next host turn.
ReactionPending ==
  /\ onStack = None
  /\ \/ stage = "services" /\ Settled(Services)
     \/ stage = "drain" /\ LinkSettled

-----------------------------------------------------------------------------
(* tick() *)

\* Window closed, or an error before the frame: the session's promise settles.
TickEnds ==
  /\ loop = "scheduled" /\ onStack = None /\ ~ReactionPending
  /\ ~stopped
  /\ loop' = "ended"
  /\ UNCHANGED <<vars, complete, stage, threw, rafs, snapshot, link, fresh>>

\* Mutant of Tick: schedule() is called without waiting for the frame.
TickReschedules ==
  /\ loop = "scheduled" /\ onStack = None /\ ~ReactionPending
  /\ \/ stopped /\ loop' = "halted" /\ UNCHANGED <<vars, complete>>
     \/ RunFrame /\ complete' = "pending" /\ UNCHANGED loop
  /\ UNCHANGED <<stage, threw, rafs, snapshot, link, fresh>>

\* A stopped dispatcher ends the loop. The rejection of an overlapping frame
\* is left out: NoOverlappingFrames says that it cannot happen.
Tick ==
  /\ loop = "scheduled" /\ onStack = None /\ ~ReactionPending
  /\ \/ /\ stopped
        /\ loop' = "halted"
        /\ UNCHANGED <<vars, complete>>
     \/ /\ RunFrame
        /\ loop' = "framing"
        /\ complete' = "pending"
  /\ UNCHANGED <<stage, threw, rafs, snapshot, link, fresh>>

\* complete.then(... schedule()), which does nothing once the dispatcher is
\* stopped, or .catch(reject), which ends the session.
FrameCompleted ==
  /\ loop = "framing" /\ onStack = None
  /\ complete \in {"resolved", "rejected"}
  /\ complete' = "none"
  /\ loop' = IF complete = "rejected" THEN "ended"
             ELSE IF stopped THEN "halted" ELSE "scheduled"
  /\ UNCHANGED <<vars, stage, threw, rafs, snapshot, link, fresh>>

-----------------------------------------------------------------------------
(* stop(): also reached from fatal(), from reload() and from the end of the *)
(* session. It clears the animation callbacks and resolves a waiting frame. *)

StopLoop ==
  /\ rafs' = <<>>
  /\ complete' = IF frame THEN "resolved" ELSE complete
  /\ UNCHANGED <<stage, threw, snapshot, link, fresh>>

LoopStop == Stop /\ StopLoop /\ UNCHANGED loop

SessionEnds == loop = "ended" /\ LoopStop

LoopEndTaskFatally ==
  /\ EndTaskFatally
  /\ IF stopped THEN UNCHANGED loopVars
     ELSE StopLoop /\ loop' = "ended"

-----------------------------------------------------------------------------
(* The frame callback and its promise chain.                               *)

LoopStartFrame ==
  /\ ~ReactionPending
  /\ StartFrame
  /\ stage' = "body"
  /\ UNCHANGED <<loop, complete, threw, rafs, snapshot, link, fresh>>

\* native.beginFrame(), updateNativeServices() and invokeRendering(...).
CallServices ==
  /\ onStack = Body /\ stage = "body"
  /\ Invoke(Services, TRUE)
  /\ stage' = "services"
  /\ threw' = FALSE
  /\ UNCHANGED <<loop, complete, rafs, snapshot, link, fresh>>

LoopFrameReturns ==
  /\ stage = "services"
  /\ FrameReturns
  /\ UNCHANGED loopVars

LoopFrameThrows ==
  /\ stage = "body"
  /\ FrameThrows
  /\ stage' = "none"
  /\ complete' = "rejected"
  /\ UNCHANGED <<loop, threw, rafs, snapshot, link, fresh>>

\* A dropped services entry resolves like one that ran; one that threw
\* rejects the frame.
ServicesSettle ==
  /\ onStack = None /\ stage = "services" /\ Settled(Services)
  /\ IF threw
     THEN /\ FrameSettles
          /\ stage' = "none"
          /\ complete' = "rejected"
          /\ UNCHANGED <<snapshot, fresh>>
     ELSE /\ stage' = "drain"
          /\ snapshot' = rafs
          /\ fresh' = {}
          /\ UNCHANGED <<vars, complete>>
  /\ UNCHANGED <<loop, threw, rafs, link>>

\* One link of the chain at a time: the next id is submitted when the link
\* before it has settled.
SubmitLink ==
  /\ onStack = None /\ stage = "drain"
  /\ LinkSettled
  /\ snapshot # <<>>
  /\ Invoke(Head(snapshot), TRUE)
  /\ link' = Head(snapshot)
  /\ snapshot' = Tail(snapshot)
  /\ UNCHANGED <<loop, complete, stage, threw, rafs, fresh>>

\* The chain is done: render and swap (nothing when stopped), which may fail.
FrameDone ==
  /\ onStack = None /\ stage = "drain"
  /\ LinkSettled
  /\ snapshot = <<>>
  /\ FrameSettles
  /\ stage' = "none"
  /\ link' = None
  /\ \/ complete' = "resolved"
     \/ ~stopped /\ complete' = "rejected"
  /\ UNCHANGED <<loop, threw, rafs, snapshot, fresh>>

Reactions == ServicesSettle \/ SubmitLink \/ FrameDone

-----------------------------------------------------------------------------
(* Animation callbacks and ordinary work.                                  *)

\* Mutant of RequestAnimationFrame: the frame in progress drains the live map.
RequestJoinsFrame(id) ==
  /\ ~stopped
  /\ id \notin ToSet(rafs) \cup ToSet(snapshot) \cup {link}
  /\ Free(id)
  /\ rafs' = Append(rafs, id)
  /\ snapshot' = IF stage = "drain" THEN Append(snapshot, id) ELSE snapshot
  /\ fresh' = fresh \cup {id}
  /\ UNCHANGED <<vars, loop, complete, stage, threw, link>>

\* nextId gives every registration an id nobody else holds: an id is used
\* again here only when nothing refers to it any more.
RequestAnimationFrame(id) ==
  /\ ~stopped
  /\ id \notin ToSet(rafs) \cup ToSet(snapshot) \cup {link}
  /\ Free(id)
  /\ rafs' = Append(rafs, id)
  /\ fresh' = fresh \cup {id}
  /\ UNCHANGED <<vars, loop, complete, stage, threw, snapshot, link>>

CancelAnimationFrame(id) ==
  /\ id \in ToSet(rafs)
  /\ rafs' = RemoveFirst(rafs, id)
  /\ UNCHANGED <<vars, loop, complete, stage, threw, snapshot, link, fresh>>

\* A link takes its callback out of the map before it calls it; an id that
\* was cancelled meanwhile is skipped.
LoopTakeContinuation ==
  /\ ~ReactionPending
  /\ TakeContinuation
  /\ rafs' = RemoveFirst(rafs, onStack')
  /\ UNCHANGED <<loop, complete, stage, threw, snapshot, link, fresh>>

LoopTake ==
  /\ ~ReactionPending
  /\ TakeTask \/ TakeNothing
  /\ UNCHANGED loopVars

\* Errors of animation callbacks are reported (errorMode 'event'); an error
\* of the services callback rejects the promise runTick awaits.
LoopEndTask ==
  /\ EndTask
  /\ threw' \in IF onStack = Services THEN BOOLEAN ELSE {threw}
  /\ UNCHANGED <<loop, complete, stage, rafs, snapshot, link, fresh>>

\* An entry made by invoke() outside a frame waits in the same array.
OrdinaryCall ==
  /\ \E t \in Ordinary : Enqueue(t) \/ Invoke(t, FALSE)
  /\ UNCHANGED loopVars

LoopIdle == Idle /\ UNCHANGED loopVars

LoopStep == LoopStartFrame \/ LoopTakeContinuation \/ LoopTake

LoopEndTurn == LoopEndTask \/ LoopEndTaskFatally \/ LoopFrameReturns
               \/ LoopFrameThrows \/ CallServices

LoopNext ==
  \/ TickEnds \/ Tick \/ FrameCompleted
  \/ LoopStop \/ SessionEnds
  \/ LoopStep \/ LoopEndTurn \/ Reactions
  \/ OrdinaryCall \/ LoopIdle
  \/ \E id \in Raf : RequestAnimationFrame(id) \/ CancelAnimationFrame(id)

\* The host's event loop visits its timer and immediate phases in turn, so a
\* tick that stays scheduled is run although step() runs again and again
\* (strong fairness); promise reactions run before the next turn; callbacks
\* return; a session that ended reaches its finally block.
LoopSpec ==
  /\ LoopInit /\ [][LoopNext]_allVars
  /\ WF_allVars(LoopStep) /\ WF_allVars(LoopEndTurn) /\ WF_allVars(Reactions)
  /\ SF_allVars(Tick \/ TickEnds) /\ SF_allVars(FrameCompleted)
  /\ WF_allVars(SessionEnds)

-----------------------------------------------------------------------------
(* Properties *)

\* The chain awaits every continuation it submits: there is at most one, only
\* while the frame is rendering, and a host turn is scheduled to run it. A
\* frame cannot settle and leave one that nobody would wake up for.
ContinuationAwaited ==
  /\ Len(continuations) <= 1
  /\ continuations # <<>> => rendering
  /\ (continuations # <<>> /\ onStack = None) => scheduled

\* tick() never asks for a frame while one waits or is being rendered, so
\* runFrame() never rejects it as overlapping, not even around a stop.
NoOverlappingFrames ==
  (loop = "scheduled" /\ ~stopped) => (~frame /\ ~rendering)

\* idle() resolves only when no entry waits, no frame has been asked for and
\* none is being rendered (or by stop()): not in the turn that finds nothing
\* to take because the frame still awaits a promise.
IdleMeansQuiet ==
  [][(idleWaiters /\ ~idleWaiters' /\ ~stopped')
       => (Accepted = {} /\ ~frame /\ ~rendering)]_allVars

\* A callback registered after the frame took its snapshot waits for the
\* next frame, whatever is cancelled and registered meanwhile.
NewCallbacksWait ==
  [][\A id \in Raf :
       (onStack # id /\ onStack' = id /\ id \in ToSet(rafs)) => id \notin fresh]_allVars

\* Every frame the loop waits for completes, however much work is enqueued.
FrameFinishes == (loop = "framing") ~> (loop # "framing")

\* Every accepted entry runs or is discarded, however many frames are drawn.
AcceptedSettles == \A t \in Task : (entry[t] = "accepted") ~> (entry[t] # "accepted")

=============================================================================
