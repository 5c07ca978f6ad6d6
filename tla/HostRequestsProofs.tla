-------------------------- MODULE HostRequestsProofs --------------------------
(***************************************************************************)
(* Proofs about HostRequests, for every number of generations and every    *)
(* depth of calls.                                                         *)
(*                                                                         *)
(* What the on-handler hears next depends on every call under way, not on  *)
(* the innermost alone: abort() may have been called from a handler of     *)
(* send(), and open() from a handler of both.  The invariant says that at  *)
(* most one call on the stack or one chain still speaks for the current    *)
(* generation (StackInv, ChainInv), how much it has told, what was told    *)
(* before that, and which response goes with it; the calls and chains of   *)
(* the generations before have nothing left to tell.                       *)
(***************************************************************************)
EXTENDS HostRequests, SequenceTheorems, TLAPS

Calls == {"open", "abort", "send", "sendLater", "handler"}
Checked == {"abort", "send", "sendLater"}
Tell == [event: Events, to: {"on", "listener"}]
Frame == [call: Calls, generation: Generations, checked: BOOLEAN, pending: Seq(Tell)]
Places == {"none", "queued", "reading", "fallback", "failed"} \cup DOMAIN After
Chain == [at: Places, found: BOOLEAN, pending: Seq(Tell)]

TypeInv ==
  /\ readyState \in 0 .. 4
  /\ sent \in BOOLEAN
  /\ generation \in Generations
  /\ response \in {0, generation}
  /\ stack \in Seq(Frame)
  /\ chain \in [Generations -> Chain]
  /\ stopped \in BOOLEAN
  /\ told \in Events \cup {NOTHING}
  /\ taken \in BOOLEAN

\* What is left of the events s when the others have been told.
IsRest(r, s) ==
  Len(r) <= Len(s) /\ \A i \in 1 .. Len(r) : r[i] = s[Len(s) - Len(r) + i]

AbortEvents == Both("aborted") \o Both("abort") \o Both("loadend")
Outcome(found) == IF found THEN "load" ELSE "error"
SendEvents(found) == Both("done") \o Both(Outcome(found)) \o Both("loadend")

InProgress == {"loadstart", "headers", "loading", "progress"}

\* While r is left of s, the on-handler was last told what stands before it.
LastTold(r, s, before) ==
  IF Len(r) = Len(s) THEN told \in before ELSE told = s[Len(s) - Len(r)].event

\* A call under way that tells the events of the current generation.
Live(f) == f.call \in Checked /\ f.generation = generation

\* The innermost call has told nothing yet.
Fresh(call) ==
  /\ stack # <<>>
  /\ stack[1].call = call /\ stack[1].generation = generation /\ Len(stack[1].pending) = 2

\* What the response is when a request is done: abort() may have taken it.
Answered(found) == IF found THEN response = generation \/ taken ELSE response = 0
Ended == ~sent /\ (readyState = 4 \/ (readyState = 0 /\ taken))

Aborting(f) ==
  /\ f.call = "abort"
  /\ IsRest(f.pending, AbortEvents) /\ LastTold(f.pending, AbortEvents, InProgress)
  /\ ~sent /\ readyState \in {0, 4}
Sending(f) ==
  /\ f.call = "send"
  /\ \E found \in BOOLEAN :
       /\ IsRest(f.pending, SendEvents(found))
       /\ LastTold(f.pending, SendEvents(found), {"opened"})
       /\ Answered(found)
  /\ Ended
Submitting(f) ==
  /\ f.call = "sendLater"
  /\ IsRest(f.pending, Both("loadstart")) /\ LastTold(f.pending, Both("loadstart"), {"opened"})
  /\ sent /\ response = 0

\* The calls: those of an earlier generation have nothing to tell the on-handler.
FrameOK(f) ==
  /\ f.generation <= generation
  /\ f.checked <=> f.call \in Checked
  /\ f.call = "open" => IsRest(f.pending, Both("opened"))
  /\ Live(f) => chain[generation] = NoChain /\ (Aborting(f) \/ Sending(f) \/ Submitting(f))
FramesOK == \A i \in 1 .. Len(stack) : FrameOK(stack[i])
OneLive == \A i, j \in 1 .. Len(stack) : Live(stack[i]) /\ Live(stack[j]) => i = j
OpenFirst ==
  \A i \in 1 .. Len(stack) :
    (stack[i].call = "open" /\ Len(stack[i].pending) = 2) =>
      i = 1 /\ Fresh("open") /\ readyState = 1 /\ ~sent

\* What was told last when a step of finish() is about to tell something.
Before(c) ==
  CASE c.at = "headers"  -> {"loadstart"}
    [] c.at = "loading"  -> {"headers"}
    [] c.at = "progress" -> {"loading"}
    [] c.at = "done"     -> IF c.found THEN {"progress"} ELSE {"loadstart"}
    [] c.at = "load"     -> {"done"}
    [] c.at = "loadend"  -> {"load", "error"}

Told(c) == IF c.at = "load" /\ ~c.found THEN "error" ELSE c.at

\* The chain of the current generation.
ChainOK(c) ==
  /\ c.at \in {"none", "queued", "reading", "fallback", "failed"} => c.pending = <<>>
  /\ c.at \in {"queued", "reading", "fallback"} =>
       told = "loadstart" /\ sent /\ response = 0 /\ ~c.found
  /\ c.at \in DOMAIN After =>
       /\ c.pending # <<>> => IsRest(c.pending, Both(Told(c)))
       /\ IF Len(c.pending) = 1 THEN told = Told(c) ELSE told \in Before(c)
  /\ c.at \in {"headers", "loading", "progress"} => c.found /\ sent
  /\ (c.at = "done" /\ c.pending = <<>>) => sent /\ (c.found \/ response = 0)
  /\ ((c.at = "done" /\ c.pending # <<>>) \/ c.at \in {"load", "loadend"}) =>
       Ended /\ Answered(c.found)
ChainInv ==
  /\ \A g \in Generations : g > generation => chain[g] = NoChain
  /\ ChainOK(chain[generation])

SentInv ==
  sent => ~taken /\ (told \in InProgress \/ Fresh("sendLater"))

\* After open() and before send() nothing of the generation is under way.
UnsentInv ==
  (readyState = 1 /\ ~sent) =>
    /\ \A i \in 1 .. Len(stack) : ~Live(stack[i])
    /\ chain[generation] = NoChain
    /\ ~taken /\ response = 0
    /\ told = "opened" \/ Fresh("open")

StackInv == FramesOK /\ OneLive /\ OpenFirst
IInv == TypeInv /\ StackInv /\ ChainInv /\ SentInv /\ UnsentInv

-----------------------------------------------------------------------------
(* Events and calls.                                                       *)

LEMMA BothIs ==
  ASSUME NEW e \in Events
  PROVE  /\ Both(e) \in Seq(Tell) /\ Len(Both(e)) = 2
         /\ Both(e)[1] = [event |-> e, to |-> "on"]
         /\ Both(e)[2] = [event |-> e, to |-> "listener"]
<1>1. Both(e) \in [1 .. 2 -> Tell]
  BY DEF Both, Receivers, Tell
<1>2. Both(e) \in Seq(Tell) /\ DOMAIN Both(e) = 1 .. 2
  <2>1. Both(e) \in UNION {[1 .. n -> Tell] : n \in Nat}
    BY <1>1
  <2>2. QED
    BY <1>1, <2>1, SeqDef
<1>3. Len(Both(e)) = 2
  <2>1. Len(Both(e)) \in Nat /\ DOMAIN Both(e) = 1 .. Len(Both(e))
    BY <1>2, LenProperties
  <2>2. QED
    BY <1>2, <2>1
<1>4. QED
  BY <1>2, <1>3 DEF Both, Receivers

\* A sequence of three events, each told to both receivers.
IsSix(s, a, b, c) ==
  /\ s \in Seq(Tell) /\ Len(s) = 6
  /\ s[1] = [event |-> a, to |-> "on"] /\ s[2] = [event |-> a, to |-> "listener"]
  /\ s[3] = [event |-> b, to |-> "on"] /\ s[4] = [event |-> b, to |-> "listener"]
  /\ s[5] = [event |-> c, to |-> "on"] /\ s[6] = [event |-> c, to |-> "listener"]

LEMMA Six ==
  ASSUME NEW a \in Events, NEW b \in Events, NEW c \in Events,
         NEW t, t = Both(a) \o Both(b) \o Both(c)
  PROVE  IsSix(t, a, b, c)
<1> DEFINE x == Both(a) \o Both(b)
           s == x \o Both(c)
<1>1. /\ Both(a) \in Seq(Tell) /\ Both(b) \in Seq(Tell) /\ Both(c) \in Seq(Tell)
      /\ Len(Both(a)) = 2 /\ Len(Both(b)) = 2 /\ Len(Both(c)) = 2
  BY BothIs
<1>2. /\ x \in Seq(Tell) /\ Len(x) = 4
      /\ \A i \in 1 .. 4 : x[i] = IF i <= 2 THEN Both(a)[i] ELSE Both(b)[i - 2]
  <2>1. Both(a) \in Seq(Tell) /\ Both(b) \in Seq(Tell)
    BY <1>1
  <2>2. /\ x \in Seq(Tell) /\ Len(x) = Len(Both(a)) + Len(Both(b))
        /\ \A i \in 1 .. Len(Both(a)) + Len(Both(b)) :
             x[i] = IF i <= Len(Both(a)) THEN Both(a)[i] ELSE Both(b)[i - Len(Both(a))]
    BY <2>1, ConcatProperties
  <2>3. QED
    BY <1>1, <2>2
<1> HIDE DEF x
<1>3. /\ s \in Seq(Tell) /\ Len(s) = 6
      /\ \A i \in 1 .. 6 : s[i] = IF i <= 4 THEN x[i] ELSE Both(c)[i - 4]
  <2>1. x \in Seq(Tell) /\ Both(c) \in Seq(Tell)
    BY <1>1, <1>2
  <2>2. /\ s \in Seq(Tell) /\ Len(s) = Len(x) + Len(Both(c))
        /\ \A i \in 1 .. Len(x) + Len(Both(c)) :
             s[i] = IF i <= Len(x) THEN x[i] ELSE Both(c)[i - Len(x)]
    BY <2>1, ConcatProperties
  <2>3. QED
    BY <1>1, <1>2, <2>2
<1> HIDE DEF s
<1>4. /\ s[1] = Both(a)[1] /\ s[2] = Both(a)[2] /\ s[3] = Both(b)[1] /\ s[4] = Both(b)[2]
      /\ s[5] = Both(c)[1] /\ s[6] = Both(c)[2]
  BY <1>2, <1>3
<1>5. QED
  BY <1>3, <1>4, BothIs DEF s, x, IsSix

LEMMA CallsTell ==
  /\ IsSix(AbortEvents, "aborted", "abort", "loadend")
  /\ \A found \in BOOLEAN : IsSix(SendEvents(found), "done", Outcome(found), "loadend")
<1>1. IsSix(AbortEvents, "aborted", "abort", "loadend")
  <2>1. "aborted" \in Events /\ "abort" \in Events /\ "loadend" \in Events
    BY DEF Events
  <2>2. QED
    BY <2>1, Six DEF AbortEvents
<1>2. ASSUME NEW found \in BOOLEAN
      PROVE  IsSix(SendEvents(found), "done", Outcome(found), "loadend")
  <2>1. Outcome(found) \in Events /\ "done" \in Events /\ "loadend" \in Events
    BY DEF Outcome, Events
  <2>2. QED
    BY <2>1, Six DEF SendEvents
<1>3. QED
  BY <1>1, <1>2

LEMMA RestOfAll ==
  ASSUME NEW s \in Seq(Tell)
  PROVE  IsRest(s, s)
BY DEF IsRest

\* Telling the first event that is left.
LEMMA RestTail ==
  ASSUME NEW s \in Seq(Tell), NEW r \in Seq(Tell), IsRest(r, s), r # <<>>
  PROVE  /\ Tail(r) \in Seq(Tell) /\ Len(Tail(r)) = Len(r) - 1 /\ Len(r) \in 1 .. Len(s)
         /\ IsRest(Tail(r), s)
         /\ Head(r) \in Tell /\ Head(r) = s[Len(s) - Len(r) + 1]
<1>1. /\ Len(r) \in Nat /\ Len(r) > 0 /\ Len(s) \in Nat /\ Len(r) <= Len(s)
      /\ \A i \in 1 .. Len(r) : r[i] = s[Len(s) - Len(r) + i]
  BY EmptySeq, LenProperties DEF IsRest
<1>2. /\ Tail(r) \in Seq(Tell) /\ Len(Tail(r)) = Len(r) - 1
      /\ \A i \in 1 .. Len(r) - 1 : Tail(r)[i] = r[i + 1]
  BY HeadTailProperties
<1>3. Head(r) = r[1] /\ Head(r) \in Tell
  BY HeadTailProperties
<1>4. \A i \in 1 .. Len(Tail(r)) : Tail(r)[i] = s[Len(s) - Len(Tail(r)) + i]
  BY <1>1, <1>2
<1>5. QED
  BY <1>1, <1>2, <1>3, <1>4 DEF IsRest

LEMMA Pushed ==
  ASSUME NEW f \in Frame, NEW s \in Seq(Frame), NEW t, t = <<f>> \o s
  PROVE  /\ t \in Seq(Frame) /\ t # <<>> /\ t[1] = f /\ Len(t) = Len(s) + 1
         /\ \A i \in 1 .. Len(t) : \/ i = 1 /\ t[i] = f
                                   \/ i - 1 \in 1 .. Len(s) /\ t[i] = s[i - 1]
<1>1. <<f>> \in Seq(Frame) /\ Len(<<f>>) = 1 /\ <<f>>[1] = f
  OBVIOUS
<1>2. Len(s) \in Nat
  BY LenProperties
<1>3. /\ t \in Seq(Frame) /\ Len(t) = 1 + Len(s)
      /\ \A i \in 1 .. 1 + Len(s) : t[i] = IF i <= 1 THEN <<f>>[i] ELSE s[i - 1]
  BY <1>1, ConcatProperties
<1>4. t # <<>> /\ t[1] = f
  BY <1>1, <1>2, <1>3, EmptySeq
<1>5. \A i \in 1 .. Len(t) : \/ i = 1 /\ t[i] = f
                             \/ i - 1 \in 1 .. Len(s) /\ t[i] = s[i - 1]
  BY <1>1, <1>2, <1>3
<1>6. QED
  BY <1>2, <1>3, <1>4, <1>5

LEMMA Popped ==
  ASSUME NEW s \in Seq(Frame), s # <<>>, NEW t, t = Tail(s)
  PROVE  /\ t \in Seq(Frame) /\ Head(s) = s[1] /\ s[1] \in Frame
         /\ 1 \in 1 .. Len(s) /\ Len(s) \in Nat /\ Len(t) = Len(s) - 1
         /\ \A i \in 1 .. Len(t) : i + 1 \in 2 .. Len(s) /\ t[i] = s[i + 1]
<1>1. /\ t \in Seq(Frame) /\ Len(t) = Len(s) - 1 /\ Head(s) = s[1] /\ Head(s) \in Frame
      /\ \A i \in 1 .. Len(s) - 1 : t[i] = s[i + 1]
  BY HeadTailProperties
<1>2. Len(s) \in Nat /\ Len(s) > 0
  BY LenProperties, EmptySeq
<1>3. QED
  BY <1>1, <1>2

LEMMA Emitted ==
  ASSUME NEW s \in Seq(Frame), s # <<>>, NEW h \in Frame, NEW f \in Frame,
         NEW t, t = <<h, f>> \o Tail(s)
  PROVE  /\ t \in Seq(Frame) /\ t # <<>> /\ t[1] = h /\ t[2] = f /\ Len(t) = Len(s) + 1
         /\ \A i \in 1 .. Len(t) : \/ i = 1 /\ t[i] = h
                                   \/ i = 2 /\ t[i] = f
                                   \/ i - 1 \in 2 .. Len(s) /\ t[i] = s[i - 1]
<1> DEFINE r == Tail(s)
<1>1. /\ r \in Seq(Frame) /\ Len(r) = Len(s) - 1 /\ Len(s) \in Nat /\ Len(s) >= 1
      /\ \A i \in 1 .. Len(r) : r[i] = s[i + 1]
  BY Popped
<1> HIDE DEF r
<1>2. <<h, f>> \in Seq(Frame) /\ Len(<<h, f>>) = 2 /\ <<h, f>>[1] = h /\ <<h, f>>[2] = f
  OBVIOUS
<1>3. /\ t \in Seq(Frame) /\ Len(t) = 2 + Len(r)
      /\ \A i \in 1 .. 2 + Len(r) : t[i] = IF i <= 2 THEN <<h, f>>[i] ELSE r[i - 2]
  BY <1>1, <1>2, ConcatProperties DEF r
<1>4. Len(t) = Len(s) + 1
  BY <1>1, <1>3
<1>5. t # <<>> /\ t[1] = h /\ t[2] = f
  BY <1>1, <1>2, <1>3, EmptySeq
<1>6. ASSUME NEW i \in 1 .. Len(t), i # 1, i # 2
      PROVE  i - 1 \in 2 .. Len(s) /\ t[i] = s[i - 1]
  <2>1. i - 2 \in 1 .. Len(r) /\ i - 1 \in 2 .. Len(s) /\ (i - 2) + 1 = i - 1 /\ i > 2
    BY <1>1, <1>4, <1>6
  <2>2. t[i] = r[i - 2]
    BY <1>1, <1>3, <1>4, <2>1
  <2>3. QED
    BY <1>1, <2>1, <2>2
<1>7. QED
  BY <1>3, <1>4, <1>5, <1>6

-----------------------------------------------------------------------------
(* Every step keeps the invariant.                                         *)

LEMMA InitInv == Init => IInv
<1> SUFFICES ASSUME Init PROVE IInv
  OBVIOUS
<1>1. generation = 0 /\ 0 \in Generations
  BY RequestAssumption DEF Init, Generations
<1>2. \A g \in Generations : chain[g] = NoChain
  BY DEF Init
<1>3. NoChain \in Chain
  BY DEF NoChain, Chain, Places
<1>4. TypeInv
  BY <1>1, <1>3 DEF Init, TypeInv
<1>5. Len(stack) = 0 /\ stack = <<>>
  BY DEF Init
<1>6. StackInv /\ SentInv /\ UnsentInv
  BY <1>5 DEF Init, StackInv, FramesOK, OneLive, OpenFirst, SentInv, UnsentInv
<1>7. ChainInv
  BY <1>1, <1>2 DEF ChainInv, ChainOK, NoChain, After
<1>8. QED
  BY <1>4, <1>6, <1>7 DEF IInv

LEMMA NoChainOK ==
  ASSUME NEW c, c = NoChain
  PROVE  ChainOK(c) /\ ChainOK(c)'
BY DEF ChainOK, NoChain, After

\* While the guest runs no call has yet to begin.
LEMMA GuestFacts ==
  ASSUME IInv, GuestRuns
  PROVE  /\ ~Fresh("open") /\ ~Fresh("sendLater")
         /\ \A i \in 1 .. Len(stack) : ~(stack[i].call = "open" /\ Len(stack[i].pending) = 2)
<1>1. stack \in Seq(Frame)
  BY DEF IInv, TypeInv
<1>2. stack # <<>> => stack[1].call = "handler"
  BY <1>1, Popped DEF GuestRuns
<1>3. ~Fresh("open") /\ ~Fresh("sendLater")
  BY <1>2 DEF Fresh
<1>4. QED
  BY <1>3 DEF IInv, StackInv, OpenFirst

\* open() and abort() of a request in progress: the calls of the generations
\* before have nothing more to tell.
LEMMA NewGeneration ==
  ASSUME IInv, GuestRuns, NEW f \in Frame, generation < MaxGeneration,
         generation' = generation + 1, f.generation = generation + 1,
         stack' = <<f>> \o stack,
         sent' = FALSE, response' = 0, taken' = FALSE,
         UNCHANGED <<chain, stopped, told>>,
         \/ /\ f.call = "open" /\ f.checked = FALSE /\ f.pending = Both("opened")
            /\ readyState' = 1
         \/ /\ f.call = "abort" /\ f.checked = TRUE /\ f.pending = AbortEvents
            /\ readyState' = 4 /\ told \in InProgress
  PROVE  IInv'
<1>1. /\ stack \in Seq(Frame) /\ generation \in Nat /\ generation \in Generations
      /\ generation + 1 \in Generations
  BY RequestAssumption DEF IInv, TypeInv, Generations
<1>2. /\ stack' \in Seq(Frame) /\ stack' # <<>> /\ stack'[1] = f
      /\ Len(stack') = Len(stack) + 1
      /\ \A i \in 1 .. Len(stack') : \/ i = 1 /\ stack'[i] = f
                                     \/ i - 1 \in 1 .. Len(stack) /\ stack'[i] = stack[i - 1]
  BY <1>1, Pushed
<1>3. Len(Both("opened")) = 2 /\ IsRest(Both("opened"), Both("opened"))
  BY BothIs, RestOfAll DEF Events
<1>4. IsRest(AbortEvents, AbortEvents)
  BY CallsTell, RestOfAll DEF IsSix
<1>5. ASSUME NEW i \in 1 .. Len(stack)
      PROVE  /\ stack[i] \in Frame /\ stack[i].generation \in Nat
             /\ stack[i].generation <= generation
             /\ stack[i].checked <=> stack[i].call \in Checked
             /\ stack[i].call = "open" => IsRest(stack[i].pending, Both("opened"))
             /\ ~(stack[i].call = "open" /\ Len(stack[i].pending) = 2)
  <2>1. stack[i] \in Frame
    BY <1>1, ElementOfSeq
  <2>2. QED
    BY <2>1, GuestFacts DEF IInv, StackInv, FramesOK, FrameOK, Frame, Generations
<1>6. chain'[generation'] = NoChain /\ \A g \in Generations : g > generation' => chain'[g] = NoChain
  BY <1>1 DEF IInv, ChainInv, Generations
<1>7. TypeInv'
  <2>1. readyState' \in 0 .. 4
    OBVIOUS
  <2>2. QED
    BY <1>1, <1>2, <2>1 DEF IInv, TypeInv
<1>8. ASSUME NEW i \in 1 .. Len(stack'), i # 1
      PROVE  FrameOK(stack[i])' /\ ~Live(stack[i])'
             /\ ~(stack'[i].call = "open" /\ Len(stack'[i].pending) = 2)
  <2>1. i - 1 \in 1 .. Len(stack) /\ stack'[i] = stack[i - 1]
    BY <1>2, <1>8
  <2>2. stack'[i].generation < generation' /\ stack'[i].generation <= generation'
    BY <1>1, <1>5, <2>1
  <2>3. stack'[i].generation # generation'
    BY <1>1, <1>5, <2>1
  <2>4. QED
    BY <1>5, <2>1, <2>2, <2>3 DEF FrameOK, Live
<1>9. FrameOK(f)'
  <2>1. CASE f.call = "open"
    <3>1. f.generation <= generation' /\ (f.checked <=> f.call \in Checked) /\ ~Live(f)'
      BY <1>1, <2>1 DEF Live, Checked
    <3>2. IsRest(f.pending, Both("opened"))
      BY <1>3, <2>1
    <3>3. QED
      BY <3>1, <3>2 DEF FrameOK
  <2>2. CASE f.call = "abort"
    <3>1. f.generation <= generation' /\ (f.checked <=> f.call \in Checked)
      BY <1>1, <2>2 DEF Checked
    <3>2. Aborting(f)'
      <4>1. f.pending = AbortEvents /\ told' \in InProgress /\ readyState' = 4 /\ ~sent'
        BY <2>2
      <4>2. QED
        BY <1>4, <2>2, <4>1 DEF Aborting, LastTold
    <3>3. QED
      BY <1>6, <2>2, <3>1, <3>2 DEF FrameOK
  <2>3. QED
    BY <2>1, <2>2
<1>10. StackInv'
  <2>1. FramesOK'
    BY <1>2, <1>8, <1>9 DEF FramesOK
  <2>2. OneLive'
    BY <1>8 DEF OneLive
  <2>3. OpenFirst'
    BY <1>1, <1>2, <1>8 DEF OpenFirst, Fresh
  <2>4. QED
    BY <2>1, <2>2, <2>3 DEF StackInv
<1>11. ChainInv'
  BY <1>6, NoChainOK DEF ChainInv
<1>12. SentInv'
  BY DEF SentInv
<1>13. UnsentInv'
  <2>1. CASE f.call = "abort"
    BY <2>1 DEF UnsentInv
  <2>2. CASE f.call = "open"
    <3>1. Fresh("open")'
      BY <1>2, <1>3, <2>2 DEF Fresh
    <3>2. \A i \in 1 .. Len(stack') : ~Live(stack[i])'
      BY <1>2, <1>8, <2>2 DEF Live, Checked
    <3>3. QED
      BY <1>6, <3>1, <3>2 DEF UnsentInv
  <2>3. QED
    BY <2>1, <2>2
<1>14. QED
  BY <1>7, <1>10, <1>11, <1>12, <1>13 DEF IInv

LEMMA OpenKeeps ==
  ASSUME IInv, Open
  PROVE  IInv'
<1> DEFINE f == Call("open", generation + 1, FALSE, Both("opened"))
<1>1. /\ GuestRuns /\ generation < MaxGeneration /\ generation' = generation + 1
      /\ sent' = FALSE /\ response' = 0 /\ readyState' = 1 /\ taken' = FALSE
      /\ stack' = <<f>> \o stack /\ UNCHANGED <<chain, stopped, told>>
  BY DEF Open, Enter
<1>2. generation + 1 \in Generations
  BY <1>1, RequestAssumption DEF IInv, TypeInv, Generations
<1>3. /\ f \in Frame /\ f.generation = generation + 1
      /\ f.call = "open" /\ f.checked = FALSE /\ f.pending = Both("opened")
  BY <1>2, BothIs DEF Call, Frame, Calls, Events
<1> HIDE DEF f
<1>4. QED
  BY <1>1, <1>3, NewGeneration

LEMMA AbortKeeps ==
  ASSUME IInv, Abort
  PROVE  IInv'
<1>1. CASE sent /\ generation < MaxGeneration /\ generation' = generation + 1
  <2> DEFINE f == Call("abort", generation + 1, TRUE, AbortEvents)
  <2>1. /\ GuestRuns /\ sent /\ generation < MaxGeneration /\ generation' = generation + 1
        /\ sent' = FALSE /\ response' = 0 /\ readyState' = 4 /\ taken' = FALSE
        /\ stack' = <<f>> \o stack /\ UNCHANGED <<chain, stopped, told>>
    BY <1>1 DEF Abort, Enter, AbortEvents
  <2>2. generation + 1 \in Generations
    BY <1>1, RequestAssumption DEF IInv, TypeInv, Generations
  <2>3. /\ f \in Frame /\ f.generation = generation + 1
        /\ f.call = "abort" /\ f.checked = TRUE /\ f.pending = AbortEvents
    BY <2>2, CallsTell DEF Call, Frame, Calls, IsSix
  <2>4. told \in InProgress
    BY <2>1, GuestFacts DEF IInv, SentInv
  <2> HIDE DEF f
  <2>5. QED
    BY <2>1, <2>3, <2>4, NewGeneration
<1>2. CASE ~sent
  <2>1. /\ response' = 0
        /\ readyState' = IF readyState = 4 THEN 0 ELSE readyState
        /\ taken' = (taken \/ readyState = 4)
        /\ UNCHANGED <<sent, generation, stack, chain, stopped, told>>
    BY <1>2 DEF Abort
  <2>2. TypeInv'
    BY <2>1 DEF IInv, TypeInv
  <2>3. ASSUME NEW i \in 1 .. Len(stack)
        PROVE  FrameOK(stack[i])' /\ Live(stack[i])' = Live(stack[i])
    <3>1. Live(stack[i])' = Live(stack[i])
      BY <2>1 DEF Live
    <3>2. FrameOK(stack[i])
      BY DEF IInv, StackInv, FramesOK
    <3>3. Aborting(stack[i]) => Aborting(stack[i])'
      BY <2>1 DEF Aborting, LastTold
    <3>4. Sending(stack[i]) => Sending(stack[i])'
      <4>1. SUFFICES ASSUME Sending(stack[i]) PROVE Sending(stack[i])'
        OBVIOUS
      <4>2. PICK found \in BOOLEAN :
              /\ IsRest(stack[i].pending, SendEvents(found))
              /\ LastTold(stack[i].pending, SendEvents(found), {"opened"})
              /\ Answered(found)
        BY <4>1 DEF Sending
      <4>3. Answered(found)' /\ Ended'
        BY <1>2, <2>1, <4>1, <4>2 DEF Answered, Sending, Ended
      <4>4. LastTold(stack[i].pending, SendEvents(found), {"opened"})'
        BY <2>1, <4>2 DEF LastTold
      <4>5. QED
        BY <2>1, <4>1, <4>2, <4>3, <4>4 DEF Sending
    <3>5. ~Submitting(stack[i])
      BY <1>2 DEF Submitting
    <3>6. QED
      BY <2>1, <3>1, <3>2, <3>3, <3>4, <3>5 DEF FrameOK
  <2>4. StackInv'
    <3>1. FramesOK'
      BY <2>1, <2>3 DEF FramesOK
    <3>2. OneLive'
      BY <2>1 DEF IInv, StackInv, OneLive, Live
    <3>3. OpenFirst'
      BY <2>1 DEF IInv, StackInv, OpenFirst, Fresh
    <3>4. QED
      BY <3>1, <3>2, <3>3 DEF StackInv
  <2>5. ChainInv'
    <3>1. ChainOK(chain[generation])'
      <4>0. PICK c \in Chain : c = chain[generation]
        BY DEF IInv, TypeInv
      <4>1. ChainOK(c)
        BY <4>0 DEF IInv, ChainInv
      <4>2. Ended => Ended'
        BY <2>1 DEF Ended
      <4>3. \A found \in BOOLEAN : (Ended /\ Answered(found)) => Answered(found)'
        BY <2>1 DEF Ended, Answered
      <4>4. c.found \in BOOLEAN
        BY DEF Chain
      <4>5. ChainOK(c)'
        BY <1>2, <2>1, <4>1, <4>2, <4>3, <4>4 DEF ChainOK
      <4>6. QED
        BY <2>1, <4>0, <4>5
    <3>2. QED
      BY <2>1, <3>1 DEF IInv, ChainInv
  <2>6. SentInv'
    BY <1>2, <2>1 DEF SentInv
  <2>7. UnsentInv'
    <3>1. SUFFICES ASSUME readyState' = 1 PROVE UnsentInv'
      BY DEF UnsentInv
    <3>2. readyState = 1 /\ UnsentInv
      BY <2>1, <3>1 DEF IInv, TypeInv
    <3>3. \A i \in 1 .. Len(stack) : Live(stack[i])' = Live(stack[i])
      BY <2>3
    <3>4. ~taken' /\ response' = 0
      <4>1. ~taken /\ ~(readyState = 4)
        BY <1>2, <3>2 DEF UnsentInv
      <4>2. QED
        BY <2>1, <4>1
    <3>5. \A i \in 1 .. Len(stack') : ~Live(stack[i])'
      BY <1>2, <2>1, <3>2, <3>3 DEF UnsentInv
    <3>6. Fresh("open")' <=> Fresh("open")
      BY <2>1 DEF Fresh
    <3>7. QED
      BY <1>2, <2>1, <3>2, <3>4, <3>5, <3>6 DEF UnsentInv
  <2>8. QED
    BY <2>2, <2>4, <2>5, <2>6, <2>7 DEF IInv
<1>3. QED
  BY <1>1, <1>2 DEF Abort

\* send(), in either way: the request was opened and nothing else is under way.
LEMMA SendStarts ==
  ASSUME IInv, GuestRuns, readyState = 1, ~sent,
         NEW f \in Frame, NEW found \in BOOLEAN,
         f.generation = generation, f.checked = TRUE, stack' = <<f>> \o stack,
         UNCHANGED <<generation, chain, stopped, told, taken>>,
         \/ /\ f.call = "send" /\ f.pending = SendEvents(found)
            /\ response' = IF found THEN generation ELSE response
            /\ readyState' = 4 /\ sent' = FALSE
         \/ /\ f.call = "sendLater" /\ f.pending = Both("loadstart")
            /\ response' = response /\ readyState' = 1 /\ sent' = TRUE
  PROVE  IInv'
<1>1. /\ stack \in Seq(Frame) /\ generation \in Nat /\ response \in {0, generation}
  BY RequestAssumption DEF IInv, TypeInv, Generations
<1>2. /\ stack' \in Seq(Frame) /\ stack' # <<>> /\ stack'[1] = f
      /\ Len(stack') = Len(stack) + 1
      /\ \A i \in 1 .. Len(stack') : \/ i = 1 /\ stack'[i] = f
                                     \/ i - 1 \in 1 .. Len(stack) /\ stack'[i] = stack[i - 1]
  BY <1>1, Pushed
<1>3. /\ \A i \in 1 .. Len(stack) : ~Live(stack[i])
      /\ chain[generation] = NoChain /\ response = 0 /\ told = "opened"
  BY GuestFacts DEF IInv, UnsentInv
<1>4. ~taken /\ ~taken'
  BY DEF IInv, UnsentInv
<1>5. Len(Both("loadstart")) = 2 /\ IsRest(Both("loadstart"), Both("loadstart"))
  BY BothIs, RestOfAll DEF Events
<1>6. IsRest(SendEvents(found), SendEvents(found))
  BY CallsTell, RestOfAll DEF IsSix
<1>7. TypeInv'
  <2>1. response' \in {0, generation'}
    BY <1>1
  <2>2. readyState' \in 0 .. 4
    OBVIOUS
  <2>3. sent' \in BOOLEAN
    OBVIOUS
  <2>4. QED
    BY <1>2, <2>1, <2>2, <2>3 DEF IInv, TypeInv
<1>8. ASSUME NEW i \in 1 .. Len(stack'), i # 1
      PROVE  FrameOK(stack[i])' /\ ~Live(stack[i])'
             /\ ~(stack'[i].call = "open" /\ Len(stack'[i].pending) = 2)
  <2>1. i - 1 \in 1 .. Len(stack) /\ stack'[i] = stack[i - 1]
    BY <1>2, <1>8
  <2>2. ~Live(stack[i])'
    BY <1>3, <2>1 DEF Live
  <2>3. FrameOK(stack[i - 1]) /\ generation' = generation
    BY <2>1 DEF IInv, StackInv, FramesOK
  <2>4. FrameOK(stack[i])'
    BY <2>1, <2>2, <2>3 DEF FrameOK
  <2>5. QED
    BY <2>1, <2>2, <2>4, GuestFacts
<1>9. FrameOK(f)' /\ f.call # "open"
  <2>1. f.generation <= generation' /\ chain'[generation'] = NoChain
    BY <1>1, <1>3
  <2>2. (f.checked <=> f.call \in Checked) /\ f.call # "open"
    BY DEF Checked
  <2>3. CASE f.call = "send"
    <3>1. /\ f.pending = SendEvents(found) /\ told' \in {"opened"} /\ readyState' = 4 /\ ~sent'
          /\ response' = IF found THEN generation' ELSE 0
      BY <1>3, <2>3
    <3>2. Answered(found)'
      BY <3>1 DEF Answered
    <3>3. LastTold(f.pending, SendEvents(found), {"opened"})'
      BY <3>1 DEF LastTold
    <3>4. Sending(f)'
      BY <1>6, <2>3, <3>1, <3>2, <3>3 DEF Sending, Ended
    <3>5. QED
      BY <2>1, <2>2, <3>4 DEF FrameOK
  <2>4. CASE f.call = "sendLater"
    <3>1. f.pending = Both("loadstart") /\ told' \in {"opened"} /\ sent' /\ response' = 0
      BY <1>3, <2>4
    <3>2. Submitting(f)'
      BY <1>5, <2>4, <3>1 DEF Submitting, LastTold
    <3>3. QED
      BY <2>1, <2>2, <3>2 DEF FrameOK
  <2>5. QED
    BY <2>2, <2>3, <2>4
<1>10. StackInv'
  <2>1. FramesOK'
    BY <1>2, <1>8, <1>9 DEF FramesOK
  <2>2. OneLive'
    BY <1>8 DEF OneLive
  <2>3. OpenFirst'
    BY <1>2, <1>8, <1>9 DEF OpenFirst
  <2>4. QED
    BY <2>1, <2>2, <2>3 DEF StackInv
<1>11. ChainInv'
  <2>1. \A g \in Generations : g > generation' => chain'[g] = NoChain
    BY DEF IInv, ChainInv
  <2>2. chain'[generation'] = NoChain
    BY <1>3
  <2>3. QED
    BY <2>1, <2>2, NoChainOK DEF ChainInv
<1>12. SentInv'
  <2>1. SUFFICES ASSUME sent' PROVE Fresh("sendLater")'
    BY <1>4 DEF SentInv
  <2>2. f.call = "sendLater" /\ f.pending = Both("loadstart")
    BY <2>1
  <2>3. QED
    BY <1>2, <1>5, <2>2 DEF Fresh
<1>13. UnsentInv'
  <2>1. readyState' = 1 => sent'
    OBVIOUS
  <2>2. QED
    BY <2>1 DEF UnsentInv
<1>14. QED
  BY <1>7, <1>10, <1>11, <1>12, <1>13 DEF IInv

LEMMA SendKeeps ==
  ASSUME IInv, SendNow \/ SendLater
  PROVE  IInv'
<1>1. CASE SendNow
  <2>1. PICK found \in BOOLEAN :
          /\ response' = IF found THEN generation ELSE response
          /\ stack' = <<Call("send", generation, TRUE, SendEvents(found))>> \o stack
    BY <1>1 DEF SendNow, Enter, SendEvents, Outcome
  <2> DEFINE f == Call("send", generation, TRUE, SendEvents(found))
  <2>2. /\ f \in Frame /\ f.generation = generation /\ f.checked = TRUE
        /\ f.call = "send" /\ f.pending = SendEvents(found)
    BY CallsTell DEF IInv, TypeInv, Call, Frame, Calls, IsSix
  <2>3. /\ GuestRuns /\ readyState = 1 /\ ~sent /\ stack' = <<f>> \o stack
        /\ UNCHANGED <<generation, chain, stopped, told, taken>> /\ readyState' = 4
    BY <1>1, <2>1 DEF SendNow, MaySend
  <2>4. sent' = FALSE
    BY <1>1, <2>3 DEF SendNow, IInv, TypeInv
  <2> HIDE DEF f
  <2>5. QED
    BY <2>1, <2>2, <2>3, <2>4, SendStarts
<1>2. CASE SendLater
  <2> DEFINE f == Call("sendLater", generation, TRUE, Both("loadstart"))
  <2>1. /\ f \in Frame /\ f.generation = generation /\ f.checked = TRUE
        /\ f.call = "sendLater" /\ f.pending = Both("loadstart")
    BY BothIs DEF IInv, TypeInv, Call, Frame, Calls, Events
  <2>2. /\ GuestRuns /\ readyState = 1 /\ ~sent /\ stack' = <<f>> \o stack
        /\ UNCHANGED <<generation, chain, stopped, told, taken>>
        /\ response' = response /\ readyState' = 1 /\ sent' = TRUE
    BY <1>2 DEF SendLater, MaySend, Enter
  <2> HIDE DEF f
  <2>3. QED
    BY <2>1, <2>2, SendStarts
<1>3. QED
  BY <1>1, <1>2

\* What is said of one call does not change when the request does not.
LEMMA FrameSame ==
  ASSUME NEW f \in Frame,
         UNCHANGED <<readyState, sent, generation, response, chain, told, taken>>
  PROVE  (FrameOK(f)' <=> FrameOK(f)) /\ (Live(f)' <=> Live(f))
<1>1. Live(f)' <=> Live(f)
  BY DEF Live
<1>2. Aborting(f)' <=> Aborting(f)
  BY DEF Aborting, LastTold
<1>3. Sending(f)' <=> Sending(f)
  BY DEF Sending, LastTold, Answered, Ended
<1>4. Submitting(f)' <=> Submitting(f)
  BY DEF Submitting, LastTold
<1>5. QED
  BY <1>1, <1>2, <1>3, <1>4 DEF FrameOK

LEMMA ChainSame ==
  ASSUME NEW c \in Chain, UNCHANGED <<readyState, sent, generation, response, told, taken>>
  PROVE  ChainOK(c)' <=> ChainOK(c)
BY DEF ChainOK, Ended, Answered

\* A call or handler ends, and changes nothing.
LEMMA Pops ==
  ASSUME IInv, stack # <<>>, stack' = Tail(stack), ~Fresh("open"), ~Fresh("sendLater"),
         UNCHANGED <<readyState, sent, generation, response, chain, stopped, told, taken>>
  PROVE  IInv'
<1>1. stack \in Seq(Frame)
  BY DEF IInv, TypeInv
<1>2. /\ stack' \in Seq(Frame) /\ Len(stack) \in Nat /\ Len(stack') = Len(stack) - 1
      /\ \A i \in 1 .. Len(stack') : i + 1 \in 2 .. Len(stack) /\ stack'[i] = stack[i + 1]
  BY <1>1, Popped
<1>3. ASSUME NEW i \in 1 .. Len(stack')
      PROVE  /\ FrameOK(stack[i])' /\ (Live(stack[i])' <=> Live(stack[i + 1]))
             /\ ~(stack'[i].call = "open" /\ Len(stack'[i].pending) = 2)
  <2>1. i + 1 \in 1 .. Len(stack) /\ i + 1 # 1 /\ stack'[i] = stack[i + 1]
    BY <1>2
  <2>2. PICK f \in Frame : f = stack[i + 1]
    BY <1>1, <2>1, ElementOfSeq
  <2>3. FrameOK(f) /\ (FrameOK(f)' <=> FrameOK(f)) /\ (Live(f)' <=> Live(f))
    BY <2>1, <2>2, FrameSame DEF IInv, StackInv, FramesOK
  <2>4. ~(f.call = "open" /\ Len(f.pending) = 2)
    BY <2>1, <2>2 DEF IInv, StackInv, OpenFirst
  <2>5. FrameOK(stack[i])'
    BY <2>1, <2>2, <2>3 DEF FrameOK, Live, Aborting, Sending, Submitting, LastTold
  <2>6. Live(stack[i])' <=> Live(stack[i + 1])
    BY <2>1, <2>2 DEF Live
  <2>7. QED
    BY <2>1, <2>2, <2>4, <2>5, <2>6
<1>4. TypeInv'
  BY <1>2 DEF IInv, TypeInv
<1>5. StackInv'
  <2>1. FramesOK' /\ OpenFirst'
    BY <1>3 DEF FramesOK, OpenFirst
  <2>2. OneLive'
    <3>1. SUFFICES ASSUME NEW i \in 1 .. Len(stack'), NEW j \in 1 .. Len(stack'),
                          Live(stack[i])', Live(stack[j])'
                   PROVE  i = j
      BY DEF OneLive
    <3>2. /\ i + 1 \in 1 .. Len(stack) /\ j + 1 \in 1 .. Len(stack)
          /\ Live(stack[i + 1]) /\ Live(stack[j + 1])
      BY <1>2, <1>3, <3>1
    <3>3. i + 1 = j + 1
      BY <3>2 DEF IInv, StackInv, OneLive
    <3>4. QED
      BY <1>2, <3>3
  <2>3. QED
    BY <2>1, <2>2 DEF StackInv
<1>6. ChainInv'
  <2>1. PICK c \in Chain : c = chain[generation]
    BY DEF IInv, TypeInv
  <2>2. ChainOK(c) /\ (ChainOK(c)' <=> ChainOK(c))
    BY <2>1, ChainSame DEF IInv, ChainInv
  <2>3. ChainOK(chain[generation])'
    BY <2>1, <2>2
  <2>4. QED
    BY <2>3 DEF IInv, ChainInv
<1>7. SentInv'
  BY DEF IInv, SentInv
<1>8. UnsentInv'
  <2>1. SUFFICES ASSUME readyState' = 1, ~sent' PROVE UnsentInv'
    BY DEF UnsentInv
  <2>2. /\ \A i \in 1 .. Len(stack) : ~Live(stack[i])
        /\ chain[generation] = NoChain /\ response = 0 /\ told = "opened"
    BY <2>1 DEF IInv, UnsentInv
  <2>3. ~taken
    BY <2>1 DEF IInv, UnsentInv
  <2>4. \A i \in 1 .. Len(stack') : ~Live(stack[i])'
    BY <1>2, <1>3, <2>2
  <2>5. QED
    BY <2>2, <2>3, <2>4 DEF UnsentInv
<1>9. QED
  BY <1>4, <1>5, <1>6, <1>7, <1>8 DEF IInv

LEMMA ReturnsKeeps ==
  ASSUME IInv, Returns
  PROVE  IInv'
<1>1. /\ stack # <<>> /\ Head(stack).call = "handler" /\ stack' = Tail(stack)
      /\ UNCHANGED <<readyState, sent, generation, response, chain, stopped, told, taken>>
  BY DEF Returns
<1>2. stack[1].call = "handler"
  BY <1>1, Popped DEF IInv, TypeInv
<1>3. ~Fresh("open") /\ ~Fresh("sendLater")
  BY <1>2 DEF Fresh
<1>4. QED
  BY <1>1, <1>3, Pops

\* The end of a call that is still the current one has the rest to itself.
LEMMA Finishes ==
  ASSUME IInv, stack # <<>>, Live(stack[1]), stack' = Tail(stack)
  PROVE  /\ stack' \in Seq(Frame) /\ chain[generation] = NoChain
         /\ generation' = generation => 
              /\ FramesOK' /\ \A i \in 1 .. Len(stack') : ~Live(stack[i])'
              /\ OpenFirst' /\ OneLive'
<1>1. stack \in Seq(Frame)
  BY DEF IInv, TypeInv
<1>2. /\ stack' \in Seq(Frame) /\ 1 \in 1 .. Len(stack)
      /\ \A i \in 1 .. Len(stack') : i + 1 \in 2 .. Len(stack) /\ stack'[i] = stack[i + 1]
  BY <1>1, Popped
<1>3. chain[generation] = NoChain
  BY <1>2 DEF IInv, StackInv, FramesOK, FrameOK
<1>4. ASSUME generation' = generation, NEW i \in 1 .. Len(stack')
      PROVE  /\ FrameOK(stack[i])' /\ ~Live(stack[i])'
             /\ ~(stack'[i].call = "open" /\ Len(stack'[i].pending) = 2)
  <2>1. i + 1 \in 1 .. Len(stack) /\ i + 1 # 1 /\ stack'[i] = stack[i + 1]
    BY <1>2
  <2>2. ~Live(stack[i + 1]) /\ FrameOK(stack[i + 1])
        /\ ~(stack[i + 1].call = "open" /\ Len(stack[i + 1].pending) = 2)
    BY <1>2, <2>1 DEF IInv, StackInv, OneLive, OpenFirst, FramesOK
  <2>3. ~Live(stack[i])'
    BY <1>4, <2>1, <2>2 DEF Live
  <2>4. FrameOK(stack[i])'
    BY <1>4, <2>1, <2>2, <2>3 DEF FrameOK
  <2>5. QED
    BY <2>1, <2>2, <2>3, <2>4
<1>5. QED
  BY <1>2, <1>3, <1>4 DEF FramesOK, OpenFirst, OneLive

LEMMA LeavesKeeps ==
  ASSUME IInv, Leaves
  PROVE  IInv'
<1>1. /\ stack # <<>> /\ stack' = Tail(stack)
      /\ UNCHANGED <<sent, generation, response, stopped, told, taken>>
  BY DEF Leaves, Inside
<1>2. /\ stack \in Seq(Frame) /\ Head(stack) = stack[1] /\ 1 \in 1 .. Len(stack)
      /\ stack[1] \in Frame
  BY <1>1, Popped DEF IInv, TypeInv
<1> DEFINE f == stack[1]
<1>3. /\ f.pending = <<>> \/ ~Valid(f)
      /\ readyState' = IF f.call = "abort" /\ Valid(f) THEN 0 ELSE readyState
      /\ chain' = IF f.call = "sendLater" /\ Valid(f) /\ ~stopped
                  THEN [chain EXCEPT ![f.generation].at = "queued"]
                  ELSE chain
  BY <1>2 DEF Leaves
<1>4. FrameOK(f)
  BY <1>2 DEF IInv, StackInv, FramesOK
<1>5. Valid(f) <=> (f.call \in Checked => f.generation = generation)
  BY <1>4 DEF FrameOK, Valid, Current
<1>6. Len(f.pending) = 2 => f.pending # <<>>
  BY EmptySeq
<1>7. CASE f.call = "abort" /\ Valid(f)
  <2>1. Live(f) /\ Aborting(f)
    BY <1>4, <1>5, <1>7 DEF Live, Checked, FrameOK, Sending, Submitting
  <2>2. readyState' = 0 /\ chain' = chain /\ ~sent'
    BY <1>1, <1>3, <1>7, <2>1 DEF Aborting
  <2>3. /\ stack' \in Seq(Frame) /\ chain[generation] = NoChain
        /\ FramesOK' /\ OpenFirst' /\ OneLive'
    BY <1>1, <2>1, Finishes
  <2>4. TypeInv'
    BY <1>1, <2>2, <2>3 DEF IInv, TypeInv
  <2>5. ChainInv'
    BY <1>1, <2>2, <2>3, NoChainOK DEF IInv, ChainInv
  <2>6. QED
    BY <2>2, <2>3, <2>4, <2>5 DEF IInv, StackInv, SentInv, UnsentInv
<1>8. CASE f.call = "sendLater" /\ Valid(f) /\ ~stopped
  <2>1. Live(f) /\ Submitting(f)
    BY <1>4, <1>5, <1>8 DEF Live, Checked, FrameOK, Sending, Aborting
  <2>2. /\ readyState' = readyState /\ sent
        /\ chain' = [chain EXCEPT ![generation].at = "queued"]
    BY <1>3, <1>8, <2>1 DEF Submitting, Live
  <2>3. /\ stack' \in Seq(Frame) /\ chain[generation] = NoChain
        /\ FramesOK' /\ OpenFirst' /\ OneLive'
    BY <1>1, <2>1, Finishes
  <2>4. told = "loadstart" /\ response = 0
    <3>1. f.pending = <<>> /\ Len(f.pending) = 0
      BY <1>3, <1>8, EmptySeq
    <3>2. Len(Both("loadstart")) = 2 /\ Both("loadstart")[2].event = "loadstart"
      BY BothIs DEF Events
    <3>3. QED
      BY <2>1, <3>1, <3>2 DEF Submitting, LastTold
  <2>5. /\ chain \in [Generations -> Chain] /\ generation \in Generations
        /\ generation \in Nat
    BY RequestAssumption DEF IInv, TypeInv, Generations
  <2>6. /\ chain'[generation] \in Chain
        /\ chain'[generation].at = "queued" /\ chain'[generation].found = FALSE
        /\ chain'[generation].pending = <<>>
    <3>1. chain'[generation] = [chain[generation] EXCEPT !.at = "queued"]
      BY <2>2, <2>5
    <3>2. PICK c \in Chain : c = chain[generation]
      BY <2>5
    <3>3. c.found = FALSE /\ c.pending = <<>>
      BY <2>3, <3>2 DEF NoChain
    <3>4. PICK d : d = [c EXCEPT !.at = "queued"]
      OBVIOUS
    <3>5. d \in Chain /\ d.at = "queued" /\ d.found = c.found /\ d.pending = c.pending
      BY <3>4 DEF Chain, Places
    <3>6. chain'[generation] = d
      BY <3>1, <3>2, <3>4
    <3>7. QED
      BY <3>3, <3>5, <3>6
  <2>7. \A g \in Generations : g # generation => chain'[g] = chain[g]
    BY <2>2, <2>5
  <2>8. chain' \in [Generations -> Chain]
    BY <2>2, <2>5, <2>6, <2>7
  <2>9. TypeInv'
    BY <1>1, <2>2, <2>3, <2>8 DEF IInv, TypeInv
  <2>10. ChainInv'
    <3>1. \A g \in Generations : g > generation' => chain'[g] = NoChain
      BY <1>1, <2>5, <2>7 DEF IInv, ChainInv
    <3>2. PICK c \in Chain : c = chain'[generation]
      BY <2>6
    <3>3. ChainOK(c)'
      BY <1>1, <2>2, <2>4, <2>6, <3>2 DEF ChainOK, After
    <3>4. chain'[generation'] = c
      BY <1>1, <3>2
    <3>5. QED
      BY <3>1, <3>3, <3>4 DEF ChainInv
  <2>11. SentInv'
    BY <1>1, <2>2, <2>4 DEF IInv, SentInv, InProgress
  <2>12. UnsentInv'
    BY <1>1, <2>2 DEF UnsentInv
  <2>13. QED
    BY <2>3, <2>9, <2>10, <2>11, <2>12 DEF IInv, StackInv
<1>9. CASE ~(f.call = "abort" /\ Valid(f)) /\ ~(f.call = "sendLater" /\ Valid(f) /\ ~stopped)
  <2>1. readyState' = readyState /\ chain' = chain
    BY <1>3, <1>9
  <2>2. ~Fresh("open") /\ ~Fresh("sendLater")
    BY <1>3, <1>5, <1>6 DEF Fresh, Checked
  <2>3. QED
    BY <1>1, <2>1, <2>2, Pops
<1>10. QED
  BY <1>7, <1>8, <1>9

\* The next event of a call that told what stands before it.
Paired(s) ==
  \A i \in 1 .. Len(s) :
    \/ s[i].to = "on"
    \/ i > 1 /\ s[i].event = s[i - 1].event

LEMMA TellsNext ==
  ASSUME NEW s \in Seq(Tell), NEW r \in Seq(Tell), NEW before, Paired(s),
         IsRest(r, s), r # <<>>, LastTold(r, s, before), Tells(Head(r)),
         NEW x, Len(r) = Len(s) => Head(r).to = "on"
  PROVE  LastTold(Tail(r), s, x)'
<1>1. /\ Len(Tail(r)) = Len(r) - 1 /\ Len(r) \in 1 .. Len(s)
      /\ Head(r) = s[Len(s) - Len(r) + 1]
  BY RestTail
<1>2. Len(s) \in Nat /\ Len(r) \in Nat
  BY LenProperties
<1> DEFINE k == Len(s) - Len(r) + 1
<1>3. k \in 1 .. Len(s) /\ Len(s) - Len(Tail(r)) = k /\ Len(Tail(r)) # Len(s)
  <2>1. \A m, n \in Nat : m \in 1 .. n =>
          n - m + 1 \in 1 .. n /\ n - (m - 1) = n - m + 1 /\ m - 1 # n
    OBVIOUS
  <2>2. k \in 1 .. Len(s) /\ Len(s) - (Len(r) - 1) = k /\ Len(r) - 1 # Len(s)
    BY <1>1, <1>2, <2>1, Zenon
  <2>3. QED
    BY <1>1, <2>2, Zenon
<1> HIDE DEF k
<1>4. Head(r) = s[k]
  BY <1>1 DEF k
<1>5. told' = s[k].event
  <2>1. CASE s[k].to = "on"
    BY <1>4, <2>1 DEF Tells
  <2>2. CASE s[k].to # "on"
    <3>1. told' = told /\ k > 1 /\ s[k].event = s[k - 1].event
      BY <1>3, <1>4, <2>2 DEF Tells, Paired
    <3>2. Len(r) # Len(s) /\ k - 1 = Len(s) - Len(r)
      BY <1>2, <1>3, <3>1 DEF k
    <3>3. told = s[k - 1].event
      BY <3>2 DEF LastTold
    <3>4. QED
      BY <3>1, <3>3
  <2>3. QED
    BY <2>1, <2>2
<1>6. QED
  BY <1>3, <1>5, Zenon DEF LastTold

LEMMA AllPaired ==
  /\ \A s, a, b, c : IsSix(s, a, b, c) => Paired(s)
  /\ \A e \in Events : Paired(Both(e))
<1>1. ASSUME NEW s, NEW a, NEW b, NEW c, IsSix(s, a, b, c)
      PROVE  Paired(s)
  <2>1. SUFFICES ASSUME NEW i \in 1 .. 6
                 PROVE  s[i].to = "on" \/ (i > 1 /\ s[i].event = s[i - 1].event)
    BY <1>1 DEF Paired, IsSix
  <2>2. \/ i \in {1, 3, 5}
        \/ i > 1 /\ <<i, i - 1>> \in {<<2, 1>>, <<4, 3>>, <<6, 5>>}
    OBVIOUS
  <2>3. /\ s[1].to = "on" /\ s[3].to = "on" /\ s[5].to = "on"
        /\ s[2].event = s[1].event /\ s[4].event = s[3].event /\ s[6].event = s[5].event
    BY <1>1 DEF IsSix
  <2>4. QED
    BY <2>2, <2>3
<1>2. ASSUME NEW e \in Events PROVE Paired(Both(e))
  <2>1. SUFFICES ASSUME NEW i \in 1 .. 2
                 PROVE  Both(e)[i].to = "on" \/ (i > 1 /\ Both(e)[i].event = Both(e)[i - 1].event)
    BY BothIs DEF Paired
  <2>2. i = 1 \/ i = 2
    OBVIOUS
  <2>3. /\ Both(e)[1].to = "on" /\ Both(e)[1].event = e
        /\ Both(e)[2].event = e
    <3>1. /\ Both(e)[1] = [event |-> e, to |-> "on"]
          /\ Both(e)[2] = [event |-> e, to |-> "listener"]
      BY BothIs
    <3>2. QED
      BY <3>1
  <2>4. QED
    BY <2>2, <2>3
<1>3. QED
  BY <1>1, <1>2

\* What a call under way tells next, and what was told before it.
LEMMA LiveTells ==
  ASSUME NEW f \in Frame, NEW r, r = f.pending, r # <<>>, Live(f),
         Aborting(f) \/ Sending(f) \/ Submitting(f), Tells(Head(r)),
         UNCHANGED <<readyState, sent, generation, response, taken>>,
         NEW h \in Frame, h.call = f.call, h.pending = Tail(r)
  PROVE  Aborting(h)' \/ Sending(h)' \/ Submitting(h)'
<1>1. r \in Seq(Tell)
  BY DEF Frame
<1>2. CASE Aborting(f)
  <2>1. IsSix(AbortEvents, "aborted", "abort", "loadend") /\ Paired(AbortEvents)
        /\ AbortEvents \in Seq(Tell)
    BY CallsTell, AllPaired DEF IsSix
  <2>2. IsRest(r, AbortEvents) /\ LastTold(r, AbortEvents, InProgress)
    BY <1>2 DEF Aborting
  <2>3. IsRest(Tail(r), AbortEvents) /\ Head(r) = AbortEvents[Len(AbortEvents) - Len(r) + 1]
    BY <1>1, <2>1, <2>2, RestTail
  <2>4. Len(r) = Len(AbortEvents) => Head(r).to = "on"
    BY <1>1, <2>1, <2>3, LenProperties DEF IsSix
  <2>5. LastTold(Tail(r), AbortEvents, InProgress)'
    BY <1>1, <2>1, <2>2, <2>4, TellsNext
  <2>6. QED
    BY <1>2, <2>3, <2>5 DEF Aborting
<1>3. CASE Sending(f)
  <2>1. PICK found \in BOOLEAN :
          /\ IsRest(r, SendEvents(found))
          /\ LastTold(r, SendEvents(found), {"opened"})
          /\ Answered(found)
    BY <1>3 DEF Sending
  <2> DEFINE s == SendEvents(found)
  <2>2. IsSix(s, "done", Outcome(found), "loadend") /\ Paired(s) /\ s \in Seq(Tell)
    <3>1. IsSix(s, "done", Outcome(found), "loadend")
      BY CallsTell
    <3>2. QED
      BY <3>1, AllPaired DEF IsSix
  <2> HIDE DEF s
  <2>3. IsRest(r, s) /\ LastTold(r, s, {"opened"})
    BY <2>1 DEF s
  <2>4. IsRest(Tail(r), s) /\ Head(r) = s[Len(s) - Len(r) + 1]
    BY <1>1, <2>2, <2>3, RestTail
  <2>5. Len(r) = Len(s) => Head(r).to = "on"
    BY <1>1, <2>2, <2>4, LenProperties DEF IsSix
  <2>6. LastTold(Tail(r), s, {"opened"})'
    BY <1>1, <2>2, <2>3, <2>5, TellsNext
  <2>7. Answered(found)' /\ Ended'
    BY <1>3, <2>1 DEF Answered, Ended, Sending
  <2>8. LastTold(h.pending, SendEvents(found), {"opened"})'
    BY <2>6 DEF s, LastTold
  <2>9. IsRest(h.pending, SendEvents(found)) /\ h.call = "send"
    BY <1>3, <2>4 DEF s, Sending
  <2>10. QED
    BY <2>7, <2>8, <2>9 DEF Sending
<1>4. CASE Submitting(f)
  <2> DEFINE s == Both("loadstart")
  <2>1. Paired(s) /\ s \in Seq(Tell) /\ Len(s) = 2 /\ s[1].to = "on"
    BY BothIs, AllPaired DEF Events
  <2>2. IsRest(r, s) /\ LastTold(r, s, {"opened"})
    BY <1>4 DEF Submitting
  <2> HIDE DEF s
  <2>3. IsRest(Tail(r), s) /\ Head(r) = s[Len(s) - Len(r) + 1]
    BY <1>1, <2>1, <2>2, RestTail
  <2>4. Len(r) = Len(s) => Head(r).to = "on"
    BY <1>1, <2>1, <2>3, LenProperties
  <2>5. LastTold(Tail(r), s, {"opened"})'
    BY <1>1, <2>1, <2>2, <2>4, TellsNext
  <2>6. QED
    BY <1>4, <2>3, <2>5 DEF Submitting, s, LastTold
<1>5. QED
  BY <1>2, <1>3, <1>4

\* The innermost call tells its next event: it goes on below the handler.
Emitting(f, h, rest) ==
  /\ f = stack[1] /\ f.call # "handler" /\ Valid(f) /\ f.pending # <<>>
  /\ h.call = "handler" /\ h.generation = generation /\ ~h.checked
  /\ rest.call = f.call /\ rest.generation = f.generation /\ (rest.checked <=> f.checked)
  /\ rest.pending = Tail(f.pending)
  /\ stack # <<>> /\ stack' = <<h, rest>> \o Tail(stack)
  /\ Tells(Head(f.pending))
  /\ UNCHANGED <<readyState, sent, generation, response, chain, stopped, taken>>

LEMMA EmitsMeans ==
  ASSUME IInv, Emits
  PROVE  \E f, h, rest \in Frame : Emitting(f, h, rest)
<1>1. stack \in Seq(Frame) /\ stack # <<>>
  BY DEF IInv, TypeInv, Emits, Inside
<1>2. Head(stack) = stack[1] /\ stack[1] \in Frame
  BY <1>1, Popped
<1>3. PICK f \in Frame : f = stack[1]
  BY <1>2
<1>4. /\ f.call # "handler" /\ f.pending # <<>> /\ Valid(f) /\ Tells(Head(f.pending))
      /\ stack' = <<Handler(Head(f.pending)), [f EXCEPT !.pending = Tail(@)]>> \o Tail(stack)
      /\ UNCHANGED <<readyState, sent, generation, response, chain, stopped, taken>>
  BY <1>2, <1>3 DEF Emits, Inside
<1>5. f.pending \in Seq(Tell) /\ Head(f.pending) \in Tell /\ Tail(f.pending) \in Seq(Tell)
  <2>1. f.pending \in Seq(Tell)
    BY DEF Frame
  <2>2. QED
    BY <1>4, <2>1, HeadTailProperties
<1>6. PICK h : h = Handler(Head(f.pending))
  OBVIOUS
<1>7. h \in Frame /\ h.call = "handler" /\ h.generation = generation /\ h.checked = FALSE
  <2>1. <<Head(f.pending)>> \in Seq(Tell)
    BY <1>5
  <2>2. QED
    BY <1>6, <2>1 DEF Handler, Frame, Calls, IInv, TypeInv
<1>8. PICK rest : rest = [f EXCEPT !.pending = Tail(@)]
  OBVIOUS
<1>9. /\ rest \in Frame /\ rest.call = f.call /\ rest.generation = f.generation
      /\ rest.checked = f.checked /\ rest.pending = Tail(f.pending)
  BY <1>5, <1>8 DEF Frame
<1>10. Emitting(f, h, rest)
  BY <1>1, <1>3, <1>4, <1>6, <1>7, <1>8, <1>9 DEF Emitting
<1>11. QED
  BY <1>7, <1>9, <1>10

\* open() tells its first event before anything else happens.
LEMMA OpenTells ==
  ASSUME IInv, NEW f \in Frame, NEW h \in Frame, NEW rest \in Frame, Emitting(f, h, rest),
         f.call = "open"
  PROVE  /\ IsRest(rest.pending, Both("opened")) /\ Len(rest.pending) < 2
         /\ \/ Len(f.pending) = 2 /\ told' = "opened" /\ readyState = 1 /\ ~sent
            \/ Len(f.pending) = 1 /\ told' = told
<1>1. f = stack[1] /\ f.pending # <<>> /\ Tells(Head(f.pending)) /\ rest.pending = Tail(f.pending)
  BY DEF Emitting
<1>2. 1 \in 1 .. Len(stack)
  BY Popped DEF Emitting, IInv, TypeInv
<1>3. f.pending \in Seq(Tell) /\ IsRest(f.pending, Both("opened"))
  BY <1>1, <1>2 DEF IInv, StackInv, FramesOK, FrameOK, Frame
<1>4. /\ Both("opened") \in Seq(Tell) /\ Len(Both("opened")) = 2
      /\ Both("opened")[1] = [event |-> "opened", to |-> "on"]
      /\ Both("opened")[2] = [event |-> "opened", to |-> "listener"]
  BY BothIs DEF Events
<1>5. /\ Len(Tail(f.pending)) = Len(f.pending) - 1 /\ Len(f.pending) \in 1 .. 2
      /\ IsRest(Tail(f.pending), Both("opened"))
      /\ Head(f.pending) = Both("opened")[2 - Len(f.pending) + 1]
  BY <1>1, <1>3, <1>4, RestTail
<1>6. IsRest(rest.pending, Both("opened")) /\ Len(rest.pending) < 2
  <2>1. Len(f.pending) - 1 < 2
    <3>1. \A n \in 1 .. 2 : n - 1 < 2
      OBVIOUS
    <3>2. QED
      BY <1>5, <3>1
  <2>2. QED
    BY <1>1, <1>5, <2>1
<1>7. CASE Len(f.pending) = 2
  <2>1. Head(f.pending) = [event |-> "opened", to |-> "on"]
    BY <1>4, <1>5, <1>7
  <2>2. told' = "opened"
    BY <1>1, <2>1 DEF Tells
  <2>3. readyState = 1 /\ ~sent
    BY <1>1, <1>2, <1>7 DEF IInv, StackInv, OpenFirst
  <2>4. QED
    BY <1>6, <1>7, <2>2, <2>3
<1>8. CASE Len(f.pending) = 1
  <2>1. Head(f.pending) = [event |-> "opened", to |-> "listener"]
    BY <1>4, <1>5, <1>8
  <2>2. told' = told
    BY <1>1, <2>1 DEF Tells
  <2>3. QED
    BY <1>6, <1>8, <2>2
<1>9. QED
  BY <1>5, <1>7, <1>8

LEMMA EmitsKeeps ==
  ASSUME IInv, Emits
  PROVE  IInv'
<1>1. PICK f \in Frame, h \in Frame, rest \in Frame : Emitting(f, h, rest)
  BY EmitsMeans
<1>2. /\ stack \in Seq(Frame) /\ stack # <<>> /\ 1 \in 1 .. Len(stack)
      /\ Len(stack) \in Nat
  BY <1>1, Popped DEF IInv, TypeInv, Emitting
<1>3. /\ stack' \in Seq(Frame) /\ stack' # <<>> /\ stack'[1] = h /\ stack'[2] = rest
      /\ Len(stack') = Len(stack) + 1
      /\ \A i \in 1 .. Len(stack') : \/ i = 1 /\ stack'[i] = h
                                     \/ i = 2 /\ stack'[i] = rest
                                     \/ i - 1 \in 2 .. Len(stack) /\ stack'[i] = stack[i - 1]
  BY <1>1, <1>2, Emitted DEF Emitting
<1>4. /\ UNCHANGED <<readyState, sent, generation, response, chain, stopped, taken>>
      /\ f = stack[1] /\ FrameOK(f) /\ Tells(Head(f.pending)) /\ f.pending # <<>>
  BY <1>1, <1>2 DEF IInv, StackInv, FramesOK, Emitting
<1>5. /\ f.call # "handler" /\ f.call \in Calls /\ (f.call \in Checked => Live(f))
      /\ (f.checked <=> f.call \in Checked)
  BY <1>1, <1>4 DEF Emitting, Valid, Current, Live, FrameOK, Frame
<1>6. \/ f.call \in Checked /\ Live(f) /\ chain[generation] = NoChain
         /\ (Aborting(f) \/ Sending(f) \/ Submitting(f))
      \/ f.call = "open" /\ ~Live(f)
  BY <1>4, <1>5 DEF Calls, Checked, FrameOK, Live
<1>7. /\ h.call = "handler" /\ ~Live(h)' /\ FrameOK(h)'
  <2>1. h.call = "handler" /\ h.generation = generation' /\ ~h.checked
    BY <1>1, <1>4 DEF Emitting
  <2>2. generation' \in Nat
    BY <1>4, RequestAssumption DEF IInv, TypeInv, Generations
  <2>3. QED
    BY <2>1, <2>2 DEF FrameOK, Live, Checked
<1>8. /\ rest.call = f.call /\ rest.generation = f.generation
      /\ (rest.checked <=> f.checked) /\ rest.pending = Tail(f.pending)
  BY <1>1 DEF Emitting
<1>9. Live(rest)' <=> Live(f)
  BY <1>4, <1>8 DEF Live
<1>10. FrameOK(rest)' /\ (rest.call = "open" => Len(rest.pending) # 2)
  <2>1. rest.generation <= generation' /\ (rest.checked <=> rest.call \in Checked)
    BY <1>4, <1>5, <1>8 DEF FrameOK
  <2>2. CASE f.call \in Checked
    <3>1. Aborting(rest)' \/ Sending(rest)' \/ Submitting(rest)'
      BY <1>4, <1>6, <1>8, <2>2, LiveTells DEF Live, Checked
    <3>2. chain'[generation'] = NoChain /\ rest.call # "open"
      BY <1>4, <1>6, <1>8, <2>2 DEF Live, Checked
    <3>3. QED
      BY <2>1, <3>1, <3>2 DEF FrameOK
  <2>3. CASE f.call = "open"
    <3>1. IsRest(rest.pending, Both("opened")) /\ Len(rest.pending) # 2
      BY <1>1, <2>3, OpenTells
    <3>2. ~Live(rest)'
      BY <1>6, <1>9, <2>3 DEF Checked
    <3>3. QED
      BY <2>1, <3>1, <3>2 DEF FrameOK
  <2>4. QED
    BY <1>6, <2>2, <2>3
<1>11. \/ told' = told
       \/ /\ \A i \in 2 .. Len(stack) : ~Live(stack[i])
          /\ chain[generation] = NoChain
  <2>1. CASE f.call \in Checked
    <3>1. Live(stack[1])
      BY <1>4, <1>6, <2>1 DEF Checked
    <3>2. QED
      BY <1>2, <1>6, <2>1, <3>1 DEF IInv, StackInv, OneLive, Checked
  <2>2. CASE f.call = "open"
    <3>1. \/ told' = told
          \/ readyState = 1 /\ ~sent
      BY <1>1, <2>2, OpenTells
    <3>2. QED
      BY <1>2, <3>1 DEF IInv, UnsentInv
  <2>3. QED
    BY <1>6, <2>1, <2>2
<1>12. ASSUME NEW i \in 1 .. Len(stack'), i - 1 \in 2 .. Len(stack), stack'[i] = stack[i - 1]
       PROVE  /\ FrameOK(stack[i])' /\ (Live(stack[i])' <=> Live(stack[i - 1]))
              /\ ~(stack'[i].call = "open" /\ Len(stack'[i].pending) = 2)
  <2>1. i - 1 \in 1 .. Len(stack) /\ i - 1 # 1
    BY <1>2, <1>12
  <2>2. PICK g \in Frame : g = stack[i - 1]
    BY <1>2, <2>1, ElementOfSeq
  <2>3. FrameOK(g) /\ ~(g.call = "open" /\ Len(g.pending) = 2)
    BY <2>1, <2>2 DEF IInv, StackInv, FramesOK, OpenFirst
  <2>4. Live(g)' <=> Live(g)
    BY <1>4 DEF Live
  <2>5. FrameOK(g)'
    <3>1. CASE told' = told
      BY <1>4, <2>3, <3>1, FrameSame
    <3>2. CASE ~Live(g)
      BY <1>4, <2>3, <2>4, <3>2 DEF FrameOK
    <3>3. QED
      BY <1>11, <1>12, <2>2, <3>1, <3>2
  <2>6. stack'[i] = g
    BY <1>12, <2>2
  <2>7. FrameOK(stack[i])'
    BY <2>5, <2>6 DEF FrameOK, Live, Aborting, Sending, Submitting, LastTold
  <2>8. Live(stack[i])' <=> Live(stack[i - 1])
    BY <2>2, <2>4, <2>6 DEF Live
  <2>9. QED
    BY <2>3, <2>6, <2>7, <2>8
<1>13. \A i \in 1 .. Len(stack') :
         /\ FrameOK(stack[i])'
         /\ ~(stack'[i].call = "open" /\ Len(stack'[i].pending) = 2)
         /\ Live(stack[i])' => i # 1 /\ i - 1 \in 1 .. Len(stack) /\ Live(stack[i - 1])
  <2>1. ASSUME NEW i \in 1 .. Len(stack')
        PROVE  /\ FrameOK(stack[i])'
               /\ ~(stack'[i].call = "open" /\ Len(stack'[i].pending) = 2)
               /\ Live(stack[i])' => i # 1 /\ i - 1 \in 1 .. Len(stack) /\ Live(stack[i - 1])
    <3>1. CASE i = 1 /\ stack'[i] = h
      BY <1>7, <3>1 DEF FrameOK, Live
    <3>2. CASE i = 2 /\ stack'[i] = rest
      <4>1. FrameOK(stack[i])' <=> FrameOK(rest)'
        BY <3>2 DEF FrameOK, Live, Aborting, Sending, Submitting, LastTold
      <4>2. Live(stack[i])' <=> Live(rest)'
        BY <3>2 DEF Live
      <4>3. Live(rest)' => Live(stack[1])
        BY <1>4, <1>9
      <4>4. i # 1 /\ i - 1 = 1
        BY <3>2
      <4>5. QED
        BY <1>2, <1>10, <3>2, <4>1, <4>2, <4>3, <4>4
    <3>3. CASE i - 1 \in 2 .. Len(stack) /\ stack'[i] = stack[i - 1]
      BY <1>2, <1>12, <3>3
    <3>4. QED
      BY <1>3, <3>1, <3>2, <3>3
  <2>2. QED
    BY <2>1
<1>14. StackInv'
  <2>1. FramesOK' /\ OpenFirst'
    BY <1>13 DEF FramesOK, OpenFirst
  <2>2. OneLive'
    <3>1. SUFFICES ASSUME NEW i \in 1 .. Len(stack'), NEW j \in 1 .. Len(stack'),
                          Live(stack[i])', Live(stack[j])'
                   PROVE  i = j
      BY DEF OneLive
    <3>2. /\ i - 1 \in 1 .. Len(stack) /\ j - 1 \in 1 .. Len(stack)
          /\ Live(stack[i - 1]) /\ Live(stack[j - 1])
      BY <1>13, <3>1
    <3>3. i - 1 = j - 1
      BY <3>2 DEF IInv, StackInv, OneLive
    <3>4. QED
      BY <1>3, <3>3
  <2>3. QED
    BY <2>1, <2>2 DEF StackInv
<1>15. ChainInv'
  <2>1. PICK c \in Chain : c = chain[generation]
    BY DEF IInv, TypeInv
  <2>2. ChainOK(c)
    BY <2>1 DEF IInv, ChainInv
  <2>3. ChainOK(c)'
    <3>1. CASE told' = told
      BY <1>4, <2>2, <3>1, ChainSame
    <3>2. CASE chain[generation] = NoChain
      BY <2>1, <3>2, NoChainOK
    <3>3. QED
      BY <1>11, <3>1, <3>2
  <2>4. QED
    BY <1>4, <2>1, <2>3 DEF IInv, ChainInv
<1>16. TypeInv'
  <2>1. told' \in Events \cup {NOTHING}
    <3>1. f.pending \in Seq(Tell) /\ f.pending # <<>>
      BY <1>4 DEF Frame
    <3>2. Head(f.pending) \in Tell
      BY <3>1, HeadTailProperties
    <3>3. QED
      BY <1>4, <3>2 DEF Tells, Tell, IInv, TypeInv
  <2>2. QED
    BY <1>3, <1>4, <2>1 DEF IInv, TypeInv
<1>17. SentInv'
  <2>1. SUFFICES ASSUME sent PROVE ~taken' /\ told' \in InProgress
    BY <1>4 DEF SentInv
  <2>2. ~taken'
    BY <1>4, <2>1 DEF IInv, SentInv
  <2>3. told' \in InProgress
    <3>1. CASE f.call = "open"
      <4>1. told' = told /\ Len(f.pending) = 1
        BY <1>1, <2>1, <3>1, OpenTells
      <4>2. ~Fresh("sendLater")
        BY <1>4, <3>1 DEF Fresh
      <4>3. QED
        BY <2>1, <4>1, <4>2 DEF IInv, SentInv
    <3>2. CASE f.call \in Checked
      <4>1. Submitting(f)
        BY <1>6, <2>1, <3>2 DEF Checked, Aborting, Sending, Ended
      <4>2. Submitting(rest)'
        BY <1>4, <1>6, <1>8, <3>2, <4>1, LiveTells
           DEF Live, Checked, Aborting, Sending, Submitting
      <4>3. Len(rest.pending) \in {0, 1}
        <5>1. f.pending \in Seq(Tell) /\ Len(Tail(f.pending)) = Len(f.pending) - 1
          BY <1>4, HeadTailProperties DEF Frame
        <5>2. Len(f.pending) <= 2
          BY <4>1, BothIs DEF Submitting, IsRest, Events
        <5>3. Len(f.pending) \in Nat /\ Len(f.pending) # 0
          BY <1>4, <5>1, LenProperties, EmptySeq
        <5>4. Len(f.pending) - 1 \in {0, 1}
          <6>1. \A n \in Nat : n # 0 /\ n <= 2 => n - 1 \in {0, 1}
            OBVIOUS
          <6>2. QED
            BY <5>2, <5>3, <6>1
        <5>5. QED
          BY <1>8, <5>1, <5>4
      <4>4. /\ Len(Both("loadstart")) = 2
            /\ Both("loadstart")[1] = [event |-> "loadstart", to |-> "on"]
            /\ Both("loadstart")[2] = [event |-> "loadstart", to |-> "listener"]
        BY BothIs DEF Events
      <4>5. Len(rest.pending) # 2 /\ 2 - Len(rest.pending) \in {1, 2}
        <5>1. \A n \in {0, 1} : n # 2 /\ 2 - n \in {1, 2}
          OBVIOUS
        <5>2. QED
          BY <4>3, <5>1
      <4>6. told' = Both("loadstart")[2 - Len(rest.pending)].event
        BY <4>2, <4>4, <4>5 DEF Submitting, LastTold
      <4>7. told' = "loadstart"
        BY <4>4, <4>5, <4>6
      <4>8. QED
        BY <4>7 DEF InProgress
    <3>3. QED
      BY <1>6, <3>1, <3>2
  <2>4. QED
    BY <2>2, <2>3
<1>18. UnsentInv'
  <2>1. SUFFICES ASSUME readyState = 1, ~sent PROVE UnsentInv'
    BY <1>4 DEF UnsentInv
  <2>2. /\ \A i \in 1 .. Len(stack) : ~Live(stack[i])
        /\ chain[generation] = NoChain /\ response = 0 /\ (told = "opened" \/ Fresh("open"))
    BY <2>1 DEF IInv, UnsentInv
  <2>3. ~taken
    BY <2>1 DEF IInv, UnsentInv
  <2>4. f.call = "open"
    BY <1>2, <1>4, <1>6, <2>2
  <2>5. told' = "opened"
    <3>1. \/ told' = "opened"
          \/ told' = told /\ Len(f.pending) = 1
      BY <1>1, <2>4, OpenTells
    <3>2. Len(f.pending) = 1 => ~Fresh("open")
      BY <1>4 DEF Fresh
    <3>3. QED
      BY <2>2, <3>1, <3>2
  <2>6. \A i \in 1 .. Len(stack') : ~Live(stack[i])'
    BY <1>13, <2>2
  <2>7. QED
    BY <1>4, <2>2, <2>3, <2>5, <2>6 DEF UnsentInv
<1>19. QED
  BY <1>14, <1>15, <1>16, <1>17, <1>18 DEF IInv

-----------------------------------------------------------------------------
(* The chain of an asynchronous send() runs while no call is under way.    *)

\* The record of a generation's chain becomes c.
Becomes(g, c) ==
  /\ chain' \in [Generations -> Chain] /\ chain'[g] = c
  /\ \A k \in Generations \ {g} : chain'[k] = chain[k]

LEMMA ChainBecomes ==
  ASSUME IInv, NEW g \in Generations, NEW c \in Chain, chain' = [chain EXCEPT ![g] = c]
  PROVE  Becomes(g, c)
BY DEF Becomes, IInv, TypeInv

LEMMA PlaceBecomes ==
  ASSUME IInv, NEW g \in Generations, NEW a \in Places, To(g, a)
  PROVE  \E c \in Chain : /\ Becomes(g, c) /\ c.at = a /\ c.found = chain[g].found
                          /\ c.pending = chain[g].pending
<1>1. chain \in [Generations -> Chain]
  BY DEF IInv, TypeInv
<1>2. PICK d \in Chain : d = chain[g]
  BY <1>1
<1>3. PICK c : c = [d EXCEPT !.at = a]
  OBVIOUS
<1>4. c \in Chain /\ c.at = a /\ c.found = d.found /\ c.pending = d.pending
  BY <1>3 DEF Chain
<1>5. chain'[g] = c /\ \A k \in Generations \ {g} : chain'[k] = chain[k]
  BY <1>1, <1>2, <1>3 DEF To
<1>6. chain' \in [Generations -> Chain]
  BY <1>1, <1>4, <1>5 DEF To
<1>7. QED
  BY <1>2, <1>4, <1>5, <1>6 DEF Becomes

\* The file was read.
Found(g) == chain' = [chain EXCEPT ![g].at = "headers", ![g].found = TRUE]

LEMMA FoundBecomes ==
  ASSUME IInv, NEW g \in Generations, Found(g)
  PROVE  \E c \in Chain : /\ Becomes(g, c) /\ c.at = "headers" /\ c.found = TRUE
                          /\ c.pending = chain[g].pending
<1>1. chain \in [Generations -> Chain]
  BY DEF IInv, TypeInv
<1>2. PICK d \in Chain : d = chain[g]
  BY <1>1
<1>3. PICK c : c = [d EXCEPT !.at = "headers", !.found = TRUE]
  OBVIOUS
<1>4. c \in Chain /\ c.at = "headers" /\ c.found = TRUE /\ c.pending = d.pending
  BY <1>3 DEF Chain, Places, After
<1>5. chain'[g] = c /\ \A k \in Generations \ {g} : chain'[k] = chain[k]
  BY <1>1, <1>2, <1>3 DEF Found
<1>6. chain' \in [Generations -> Chain]
  BY <1>1, <1>4, <1>5 DEF Found
<1>7. QED
  BY <1>2, <1>4, <1>5, <1>6 DEF Becomes

\* Without calls there is nothing to say of them.
LEMMA NoCalls ==
  ASSUME stack' = <<>>
  PROVE  StackInv' /\ stack' \in Seq(Frame)
<1>1. Len(stack') = 0 /\ stack' \in Seq(Frame)
  BY EmptySeq
<1>2. QED
  BY <1>1 DEF StackInv, FramesOK, OneLive, OpenFirst

LEMMA ChainKept ==
  ASSUME IInv, NEW g \in Generations, chain[g].at # "none", NEW c \in Chain, Becomes(g, c),
         generation' = generation, g = generation => ChainOK(c)',
         g # generation => UNCHANGED <<readyState, sent, response, told, taken>>
  PROVE  ChainInv'
<1>1. generation \in Generations
  BY DEF IInv, TypeInv
<1>2. ~(g > generation)
  BY DEF IInv, ChainInv, NoChain
<1>3. \A k \in Generations : k > generation' => chain'[k] = NoChain
  BY <1>2 DEF Becomes, IInv, ChainInv
<1>4. CASE g = generation
  BY <1>3, <1>4 DEF Becomes, ChainInv
<1>5. CASE g # generation
  <2>1. chain'[generation'] = chain[generation]
    BY <1>1, <1>5 DEF Becomes
  <2>2. PICK d \in Chain : d = chain[generation]
    BY <1>1 DEF IInv, TypeInv
  <2>3. ChainOK(d)'
    BY <1>5, <2>2, ChainSame DEF IInv, ChainInv
  <2>4. QED
    BY <1>3, <2>1, <2>2, <2>3 DEF ChainInv
<1>6. QED
  BY <1>4, <1>5

\* A step of a chain that only moves on.
LEMMA Moves ==
  ASSUME IInv, TaskRuns, NEW g \in Generations, chain[g].at # "none",
         NEW c \in Chain, Becomes(g, c), g = generation => ChainOK(c),
         UNCHANGED <<readyState, sent, generation, response, stack, stopped, told, taken>>
  PROVE  IInv'
<1>1. stack = <<>> /\ stack' = <<>>
  BY DEF TaskRuns
<1>2. TypeInv'
  BY <1>1, NoCalls DEF IInv, TypeInv, Becomes
<1>3. ChainInv'
  BY ChainKept, ChainSame
<1>4. SentInv'
  BY DEF IInv, SentInv, Fresh
<1>5. UnsentInv'
  <2>1. SUFFICES ASSUME readyState = 1, ~sent PROVE UnsentInv'
    BY DEF UnsentInv
  <2>2. chain[generation] = NoChain /\ ~Fresh("open")
    BY <1>1, <2>1 DEF IInv, UnsentInv, Fresh
  <2>3. ~taken /\ response = 0 /\ told = "opened"
    BY <2>1, <2>2 DEF IInv, UnsentInv
  <2>4. chain'[generation'] = NoChain
    BY <2>2 DEF NoChain, Becomes, IInv, TypeInv
  <2>5. Len(stack') = 0
    BY <1>1, EmptySeq
  <2>6. QED
    BY <2>3, <2>4, <2>5 DEF UnsentInv
<1>6. QED
  BY <1>1, <1>2, <1>3, <1>4, <1>5, NoCalls DEF IInv

LEMMA MovesKeep ==
  ASSUME IInv, NEW g \in Generations, Starts(g) \/ ReadEnds(g) \/ Drops(g)
  PROVE  IInv'
<1> DEFINE d == chain[g]
<1>1. d \in Chain /\ (g = generation => ChainOK(d))
  BY DEF IInv, TypeInv, ChainInv
<1>2. /\ TaskRuns
      /\ UNCHANGED <<readyState, sent, generation, response, stack, stopped, told, taken>>
  BY DEF Starts, ReadEnds, Drops
<1>3. d.found \in BOOLEAN
  BY <1>1 DEF Chain
<1>4. CASE Starts(g)
  <2> DEFINE a == IF Current(g) THEN "reading" ELSE "none"
  <2>1. d.at = "queued" /\ To(g, a)
    BY <1>4 DEF Starts
  <2>2. a \in Places /\ (g = generation => a = "reading")
    BY DEF Places, Current
  <2> HIDE DEF a
  <2>3. PICK c \in Chain : /\ Becomes(g, c) /\ c.at = a /\ c.found = d.found
                           /\ c.pending = d.pending
    BY <2>1, <2>2, PlaceBecomes
  <2>4. g = generation => ChainOK(c)
    BY <1>1, <2>1, <2>2, <2>3 DEF ChainOK, After
  <2>5. d.at # "none"
    BY <2>1
  <2>6. QED
    BY <1>2, <2>3, <2>4, <2>5, Moves
<1>5. CASE ReadEnds(g)
  <2>1. /\ d.at \in {"reading", "fallback"}
        /\ Found(g) \/ To(g, "done") \/ To(g, "failed") \/ To(g, "fallback")
    BY <1>5 DEF ReadEnds, Found
  <2>2. PICK c \in Chain : /\ Becomes(g, c) /\ c.pending = d.pending
                           /\ \/ c.at = "headers" /\ c.found = TRUE
                              \/ c.at \in {"done", "failed", "fallback"} /\ c.found = d.found
    <3>1. {"done", "failed", "fallback"} \subseteq Places
      BY DEF Places, After
    <3>2. CASE Found(g)
      BY <3>2, FoundBecomes
    <3>3. CASE To(g, "done")
      BY <3>1, <3>3, PlaceBecomes
    <3>4. CASE To(g, "failed")
      BY <3>1, <3>4, PlaceBecomes
    <3>5. CASE To(g, "fallback")
      BY <3>1, <3>5, PlaceBecomes
    <3>6. QED
      BY <2>1, <3>2, <3>3, <3>4, <3>5
  <2>3. g = generation => ChainOK(c)
    <3>1. SUFFICES ASSUME g = generation PROVE ChainOK(c)
      OBVIOUS
    <3>2. c.pending = <<>> /\ told = "loadstart" /\ sent /\ response = 0 /\ ~d.found
      BY <1>1, <2>1, <2>2, <3>1 DEF ChainOK
    <3>3. Len(c.pending) # 1
      BY <3>2, EmptySeq
    <3>4. QED
      BY <2>2, <3>2, <3>3 DEF ChainOK, Before, After
  <2>4. d.at # "none"
    BY <2>1
  <2>5. QED
    BY <1>2, <2>2, <2>3, <2>4, Moves
<1>6. CASE Drops(g)
  <2>1. d.at # "none" /\ g # generation /\ chain' = [chain EXCEPT ![g] = NoChain]
    BY <1>6 DEF Drops, Current
  <2>2. NoChain \in Chain
    BY EmptySeq DEF NoChain, Chain, Places
  <2>3. Becomes(g, NoChain)
    BY <2>1, <2>2, ChainBecomes
  <2>4. QED
    BY <1>2, <2>1, <2>2, <2>3, Moves
<1>7. QED
  BY <1>4, <1>5, <1>6

LEMMA TellingIs ==
  ASSUME NEW c \in Chain, c.at \in DOMAIN After
  PROVE  Told(c) \in Events
BY DEF Told, Events, After

\* A step of finish() sets the state it will tell.
LEMMA StepsKeeps ==
  ASSUME IInv, NEW g \in Generations, Steps(g)
  PROVE  IInv'
<1> DEFINE d == chain[g]
<1>1. d \in Chain /\ g = generation /\ ChainOK(d)
  BY DEF IInv, TypeInv, ChainInv, Steps, Current
<1>2. /\ stack = <<>> /\ stack' = <<>> /\ UNCHANGED <<generation, stopped, told, taken>>
      /\ d.at \in DOMAIN After /\ d.pending = <<>>
      /\ chain' = [chain EXCEPT ![g].pending = Both(Told(d))]
  BY DEF Steps, TaskRuns, EventOf, Told
<1>3. /\ readyState' = CASE d.at = "headers" -> 2
                         [] d.at = "loading" -> 3
                         [] d.at = "done"    -> 4
                         [] OTHER            -> readyState
      /\ sent' = (sent /\ d.at # "done")
      /\ response' \in CASE d.at = "done" /\ d.found -> {g}
                         [] d.at = "loading"         -> {response, g}
                         [] OTHER                    -> {response}
  BY DEF Steps
<1>4. /\ Both(Told(d)) \in Seq(Tell) /\ Len(Both(Told(d))) = 2
      /\ IsRest(Both(Told(d)), Both(Told(d)))
  BY <1>1, <1>2, TellingIs, BothIs, RestOfAll
<1>5. PICK c \in Chain : /\ Becomes(g, c) /\ c.at = d.at /\ c.found = d.found
                         /\ c.pending = Both(Told(d))
  <2>1. PICK c : c = [at |-> d.at, found |-> d.found, pending |-> Both(Told(d))]
    OBVIOUS
  <2>2. /\ c \in Chain /\ c.at = d.at /\ c.found = d.found /\ c.pending = Both(Told(d))
    BY <1>1, <1>4, <2>1 DEF Chain
  <2>3. chain \in [Generations -> Chain]
    BY DEF IInv, TypeInv
  <2>4. chain'[g] = c
    <3>1. chain'[g] = [d EXCEPT !.pending = Both(Told(d))]
      BY <1>2, <2>3
    <3>2. QED
      BY <1>1, <2>1, <3>1 DEF Chain
  <2>5. \A k \in Generations \ {g} : chain'[k] = chain[k]
    BY <1>2, <2>3
  <2>6. chain' \in [Generations -> Chain]
    BY <1>2, <2>2, <2>3, <2>4, <2>5
  <2>7. QED
    BY <2>2, <2>4, <2>5, <2>6 DEF Becomes
<1>6. /\ told \in Before(d) /\ Told(c) = Told(d) /\ Before(c) = Before(d)
      /\ Len(c.pending) # 1 /\ c.pending # <<>> /\ IsRest(c.pending, Both(Told(c)))
  <2>1. Len(d.pending) = 0
    BY <1>2, EmptySeq
  <2>2. told \in Before(d)
    BY <1>1, <1>2, <2>1 DEF ChainOK
  <2>3. Told(c) = Told(d) /\ Before(c) = Before(d)
    BY <1>5 DEF Told, Before
  <2>4. Len(c.pending) # 1 /\ c.pending # <<>>
    <3>1. Len(c.pending) = 2
      BY <1>4, <1>5
    <3>2. c.pending # <<>>
      BY <3>1, EmptySeq
    <3>3. QED
      BY <3>1, <3>2
  <2>5. QED
    BY <1>4, <1>5, <2>2, <2>3, <2>4
<1>7. /\ sent' \in BOOLEAN /\ readyState' \in 0 .. 4 /\ response' \in {0, generation'}
      /\ ChainOK(c)' /\ SentInv' /\ (readyState' = 1 => sent')
  <2>1. sent \in BOOLEAN /\ readyState \in 0 .. 4 /\ response \in {0, generation}
    BY DEF IInv, TypeInv
  <2>2. CASE d.at \in {"headers", "loading", "progress"}
    <3>1. d.found /\ sent
      BY <1>1, <2>2 DEF ChainOK
    <3>2. sent' = TRUE /\ response' \in {response, g}
      BY <1>3, <2>1, <2>2, <3>1
    <3>3. readyState' \in 0 .. 4
      BY <1>3, <2>1, <2>2
    <3>4. ChainOK(c)'
      BY <1>2, <1>5, <1>6, <2>2, <3>1, <3>2 DEF ChainOK
    <3>5. SentInv'
      BY <1>2, <3>1 DEF IInv, SentInv, Fresh
    <3>6. QED
      BY <1>1, <1>2, <2>1, <3>2, <3>3, <3>4, <3>5
  <2>3. CASE d.at = "done"
    <3>1. sent' = FALSE /\ readyState' = 4
      BY <1>3, <2>3
    <3>2. response' = IF d.found THEN g ELSE response
      BY <1>3, <2>3
    <3>3. ~d.found => response = 0
      BY <1>1, <1>2, <2>3 DEF ChainOK
    <3>4. Answered(c.found)' /\ Ended'
      BY <1>1, <1>2, <1>5, <3>1, <3>2, <3>3 DEF Answered, Ended
    <3>5. ChainOK(c)'
      BY <1>2, <1>5, <1>6, <2>3, <3>4 DEF ChainOK
    <3>6. response' \in {0, generation'} /\ readyState' \in 0 .. 4
      BY <1>1, <1>2, <2>1, <3>1, <3>2
    <3>7. SentInv'
      BY <3>1 DEF SentInv
    <3>8. readyState' # 1
      BY <3>1
    <3>9. sent' \in BOOLEAN
      BY <3>1
    <3>10. QED
      BY <3>5, <3>6, <3>7, <3>8, <3>9
  <2>4. CASE d.at \in {"load", "loadend"}
    <3>1. Ended /\ Answered(d.found)
      BY <1>1, <2>4 DEF ChainOK
    <3>2. readyState' = readyState /\ response' = response /\ ~sent'
      BY <1>3, <2>4, <3>1 DEF Ended
    <3>3. Ended' /\ Answered(c.found)'
      BY <1>2, <1>5, <3>1, <3>2 DEF Ended, Answered
    <3>4. ChainOK(c)'
      BY <1>2, <1>5, <1>6, <2>4, <3>3 DEF ChainOK
    <3>5. sent' \in BOOLEAN
      BY <1>3
    <3>6. readyState' # 1
      BY <3>3 DEF Ended
    <3>7. QED
      BY <1>2, <2>1, <3>2, <3>4, <3>5, <3>6 DEF SentInv
  <2>5. QED
    BY <1>2, <2>2, <2>3, <2>4 DEF After
<1>8. ChainInv'
  <2>1. d.at # "none"
    BY <1>2 DEF After
  <2>2. QED
    BY <1>1, <1>2, <1>5, <1>7, <2>1, ChainKept
<1>9. TypeInv'
  BY <1>2, <1>5, <1>7, NoCalls DEF IInv, TypeInv, Becomes
<1>10. QED
  BY <1>2, <1>7, <1>8, <1>9, NoCalls DEF IInv, UnsentInv

\* A chain tells a receiver, in the handler of a task.
LEMMA NotifiesKeeps ==
  ASSUME IInv, NEW g \in Generations, Notifies(g)
  PROVE  IInv'
<1> DEFINE d == chain[g]
           rest == Tail(d.pending)
           next == IF rest = <<>> THEN After[d.at] ELSE d.at
<1>1. d \in Chain /\ g = generation /\ ChainOK(d)
  BY DEF IInv, TypeInv, ChainInv, Notifies, Current
<1>2. /\ stack = <<>> /\ d.pending # <<>> /\ Tells(Head(d.pending))
      /\ stack' = <<Handler(Head(d.pending))>> \o stack
      /\ UNCHANGED <<readyState, sent, generation, response, stopped, taken>>
      /\ chain' = [chain EXCEPT ![g].pending = rest,
                                ![g].at = IF rest = <<>> THEN After[@] ELSE @]
  BY DEF Notifies, TaskRuns, Enter
<1>3. /\ d.at \in DOMAIN After /\ d.found \in BOOLEAN /\ d.pending \in Seq(Tell)
      /\ IsRest(d.pending, Both(Told(d)))
  BY <1>1, <1>2 DEF ChainOK, Chain, Places
<1>4. /\ Both(Told(d)) \in Seq(Tell) /\ Len(Both(Told(d))) = 2
      /\ Both(Told(d))[1] = [event |-> Told(d), to |-> "on"]
      /\ Both(Told(d))[2] = [event |-> Told(d), to |-> "listener"]
  BY <1>1, <1>3, TellingIs, BothIs
<1>5. /\ rest \in Seq(Tell) /\ Len(rest) = Len(d.pending) - 1 /\ Len(d.pending) \in 1 .. 2
      /\ IsRest(rest, Both(Told(d)))
      /\ Head(d.pending) \in Tell
      /\ Head(d.pending) = Both(Told(d))[2 - Len(d.pending) + 1]
  BY <1>2, <1>3, <1>4, RestTail
<1>6. \/ Len(d.pending) = 2 /\ Len(rest) = 1 /\ rest # <<>> /\ told' = Told(d)
      \/ Len(d.pending) = 1 /\ Len(rest) = 0 /\ rest = <<>> /\ told' = told /\ told = Told(d)
  <2>1. CASE Len(d.pending) = 2
    <3>1. Head(d.pending) = [event |-> Told(d), to |-> "on"]
      BY <1>4, <1>5, <2>1
    <3>2. told' = Told(d)
      BY <1>2, <3>1 DEF Tells
    <3>3. Len(rest) = 1
      BY <1>5, <2>1
    <3>4. rest # <<>>
      <4>1. \A x : Len(x) = 1 => x # <<>>
        BY EmptySeq
      <4>2. QED
        BY <3>3, <4>1
    <3>5. QED
      BY <2>1, <3>2, <3>3, <3>4
  <2>2. CASE Len(d.pending) = 1
    <3>1. Head(d.pending) = [event |-> Told(d), to |-> "listener"]
      BY <1>4, <1>5, <2>2
    <3>2. told' = told
      BY <1>2, <3>1 DEF Tells
    <3>3. Len(rest) = 0
      BY <1>5, <2>2
    <3>4. rest = <<>>
      BY <1>5, <3>3, EmptySeq
    <3>5. told = Told(d)
      BY <1>1, <1>3, <2>2 DEF ChainOK
    <3>6. QED
      BY <2>2, <3>2, <3>3, <3>4, <3>5
  <2>3. QED
    BY <1>5, <2>1, <2>2
<1>7. told' = Told(d)
  BY <1>6
<1>8. next \in Places
  BY <1>3 DEF Places, After
<1>9. PICK c \in Chain : /\ Becomes(g, c) /\ c.at = next /\ c.found = d.found
                         /\ c.pending = rest
  <2>1. PICK c : c = [at |-> next, found |-> d.found, pending |-> rest]
    OBVIOUS
  <2>2. /\ c \in Chain /\ c.at = next /\ c.found = d.found /\ c.pending = rest
    BY <1>3, <1>5, <1>8, <2>1 DEF Chain
  <2>3. chain \in [Generations -> Chain]
    BY DEF IInv, TypeInv
  <2>4. chain'[g] = c
    <3>1. chain'[g] = [d EXCEPT !.pending = rest, !.at = IF rest = <<>> THEN After[@] ELSE @]
      BY <1>2, <2>3
    <3>2. QED
      BY <1>1, <2>1, <3>1 DEF Chain
  <2>5. \A k \in Generations \ {g} : chain'[k] = chain[k]
    BY <1>2, <2>3
  <2>6. chain' \in [Generations -> Chain]
    BY <1>2, <2>2, <2>3, <2>4, <2>5
  <2>7. QED
    BY <2>2, <2>4, <2>5, <2>6 DEF Becomes
<1>10. (\A f \in BOOLEAN : Answered(f)' <=> Answered(f)) /\ (Ended' <=> Ended)
  BY <1>2 DEF Answered, Ended
<1> HIDE DEF next, rest
<1>11. ChainOK(c)'
  <2>1. CASE Len(rest) = 1 /\ rest # <<>>
    <3>1. c.at = d.at /\ Told(c) = Told(d)
      BY <1>9, <2>1 DEF next, Told
    <3>2. IsRest(c.pending, Both(Told(c))) /\ Len(c.pending) = 1 /\ c.pending # <<>>
      BY <1>5, <1>9, <2>1, <3>1
    <3>3. c.at \in {"headers", "loading", "progress"} => c.found /\ sent'
      BY <1>1, <1>2, <1>9, <3>1 DEF ChainOK
    <3>4. c.at \in {"done", "load", "loadend"} => Ended /\ Answered(c.found)
      BY <1>1, <1>2, <1>9, <3>1 DEF ChainOK
    <3>5. QED
      BY <1>3, <1>7, <1>9, <1>10, <3>1, <3>2, <3>3, <3>4 DEF ChainOK, After
  <2>2. CASE Len(rest) = 0 /\ rest = <<>>
    <3>1. c.at = After[d.at] /\ c.pending = <<>> /\ Len(c.pending) # 1
      BY <1>9, <2>2 DEF next
    <3>2. CASE d.at \in {"headers", "loading", "progress"}
      <4>1. d.found /\ sent' /\ told' = d.at
        BY <1>1, <1>2, <1>7, <3>2 DEF ChainOK, Told
      <4>2. /\ d.at = "headers" => c.at = "loading"
            /\ d.at = "loading" => c.at = "progress"
            /\ d.at = "progress" => c.at = "done"
        BY <3>1 DEF After
      <4>3. told' \in Before(c)
        BY <1>9, <3>2, <4>1, <4>2 DEF Before
      <4>4. c.found
        BY <1>9, <4>1
      <4>5. QED
        BY <3>1, <3>2, <4>1, <4>2, <4>3, <4>4 DEF ChainOK
    <3>3. CASE d.at \in {"done", "load"}
      <4>1. Ended' /\ Answered(c.found)'
        BY <1>1, <1>2, <1>3, <1>9, <1>10, <3>3 DEF ChainOK
      <4>2. /\ d.at = "done" => c.at = "load"
            /\ d.at = "load" => c.at = "loadend"
        BY <3>1 DEF After
      <4>3. told' \in Before(c)
        BY <1>7, <3>3, <4>2 DEF Before, Told
      <4>4. QED
        BY <3>1, <3>3, <4>1, <4>2, <4>3 DEF ChainOK
    <3>4. CASE d.at = "loadend"
      <4>1. c.at = "none"
        BY <3>1, <3>4 DEF After
      <4>2. QED
        BY <3>1, <4>1 DEF ChainOK, After
    <3>5. QED
      BY <1>3, <3>2, <3>3, <3>4 DEF After
  <2>3. QED
    BY <1>6, <2>1, <2>2
<1>12. ChainInv'
  <2>1. d.at # "none"
    BY <1>3 DEF After
  <2>2. QED
    BY <1>1, <1>2, <1>9, <1>11, <2>1, ChainKept
<1>13. PICK h : h = Handler(Head(d.pending))
  OBVIOUS
<1>14. h \in Frame /\ h.call = "handler" /\ h.generation = generation /\ h.checked = FALSE
  <2>1. <<Head(d.pending)>> \in Seq(Tell)
    BY <1>5
  <2>2. QED
    BY <1>13, <2>1 DEF Handler, Frame, Calls, IInv, TypeInv
<1>15. /\ stack' \in Seq(Frame) /\ Len(stack') = 1
       /\ \A i \in 1 .. Len(stack') : i = 1 /\ stack'[i] = h
  <2>1. stack \in Seq(Frame) /\ Len(stack) = 0
    BY <1>2, EmptySeq
  <2>2. /\ stack' \in Seq(Frame) /\ Len(stack') = Len(stack) + 1
        /\ \A i \in 1 .. Len(stack') : \/ i = 1 /\ stack'[i] = h
                                       \/ i - 1 \in 1 .. Len(stack) /\ stack'[i] = stack[i - 1]
    BY <1>2, <1>13, <1>14, <2>1, Pushed
  <2>3. QED
    BY <2>1, <2>2
<1>16. FrameOK(h)' /\ ~Live(h)'
  <2>1. h.generation = generation' /\ generation' \in Nat
    BY <1>2, <1>14, RequestAssumption DEF IInv, TypeInv, Generations
  <2>2. QED
    BY <1>14, <2>1 DEF FrameOK, Live, Checked
<1>17. StackInv'
  <2>1. ASSUME NEW i \in 1 .. Len(stack') PROVE FrameOK(stack[i])'
    BY <1>15, <1>16 DEF FrameOK, Live
  <2>2. QED
    BY <1>14, <1>15, <2>1 DEF StackInv, FramesOK, OneLive, OpenFirst
<1>18. TypeInv'
  <2>1. told' \in Events
    BY <1>1, <1>3, <1>7, TellingIs
  <2>2. QED
    BY <1>2, <1>9, <1>15, <2>1 DEF IInv, TypeInv, Becomes
<1>19. SentInv'
  <2>1. SUFFICES ASSUME sent PROVE ~taken' /\ told' \in InProgress
    BY <1>2 DEF SentInv
  <2>2. ~taken'
    BY <1>2, <2>1 DEF IInv, SentInv
  <2>3. d.at \in {"headers", "loading", "progress"}
    BY <1>1, <1>2, <1>3, <2>1 DEF ChainOK, Ended, After
  <2>4. QED
    BY <1>7, <2>2, <2>3 DEF InProgress, Told
<1>20. UnsentInv'
  <2>1. chain[generation] # NoChain
    BY <1>1, <1>2 DEF NoChain
  <2>2. QED
    BY <1>2, <2>1 DEF IInv, UnsentInv
<1>21. QED
  BY <1>12, <1>17, <1>18, <1>19, <1>20 DEF IInv

LEMMA StopKeeps ==
  ASSUME IInv, stopped' \in BOOLEAN,
         UNCHANGED <<readyState, sent, generation, response, stack, chain, told, taken>>
  PROVE  IInv'
<1>1. TypeInv'
  BY DEF IInv, TypeInv
<1>2. stack \in Seq(Frame) /\ generation \in Generations /\ chain \in [Generations -> Chain]
  BY DEF IInv, TypeInv
<1>3. StackInv'
  <2>1. ASSUME NEW i \in 1 .. Len(stack')
        PROVE  FrameOK(stack[i])' /\ (Live(stack[i])' <=> Live(stack[i]))
    <3>1. PICK f \in Frame : f = stack[i]
      BY <1>2, <2>1, ElementOfSeq
    <3>2. FrameOK(f)' /\ (Live(f)' <=> Live(f))
      BY <2>1, <3>1, FrameSame DEF IInv, StackInv, FramesOK
    <3>3. FrameOK(stack[i])' <=> FrameOK(f)'
      BY <3>1 DEF FrameOK, Live, Aborting, Sending, Submitting, LastTold
    <3>4. Live(stack[i])' <=> Live(stack[i])
      BY DEF Live
    <3>5. QED
      BY <3>2, <3>3, <3>4
  <2>2. FramesOK'
    BY <2>1 DEF FramesOK
  <2>3. OneLive'
    BY DEF IInv, StackInv, OneLive, Live
  <2>4. OpenFirst'
    BY DEF IInv, StackInv, OpenFirst, Fresh
  <2>5. QED
    BY <2>2, <2>3, <2>4 DEF StackInv
<1>4. ChainInv'
  <2>1. PICK c \in Chain : c = chain[generation]
    BY <1>2
  <2>2. ChainOK(c)'
    BY <2>1, ChainSame DEF IInv, ChainInv
  <2>3. QED
    BY <2>1, <2>2 DEF IInv, ChainInv
<1>5. SentInv'
  BY DEF IInv, SentInv, Fresh
<1>6. UnsentInv'
  BY DEF IInv, UnsentInv, Fresh, Live
<1>7. QED
  BY <1>1, <1>3, <1>4, <1>5, <1>6 DEF IInv

LEMMA NextKeeps ==
  ASSUME IInv, [Next]_vars
  PROVE  IInv'
<1>1. CASE Next
  <2>1. CASE Open
    BY <2>1, OpenKeeps
  <2>2. CASE Abort
    BY <2>2, AbortKeeps
  <2>3. CASE SendNow \/ SendLater
    BY <2>3, SendKeeps
  <2>4. CASE Stop
    BY <2>4, StopKeeps DEF Stop
  <2>5. CASE Returns
    BY <2>5, ReturnsKeeps
  <2>6. CASE Emits
    BY <2>6, EmitsKeeps
  <2>7. CASE Leaves
    BY <2>7, LeavesKeeps
  <2>8. ASSUME NEW g \in Generations, ChainStep(g) PROVE IInv'
    BY <2>8, MovesKeep, StepsKeeps, NotifiesKeeps DEF ChainStep
  <2>9. QED
    BY <1>1, <2>1, <2>2, <2>3, <2>4, <2>5, <2>6, <2>7, <2>8 DEF Next
<1>2. CASE UNCHANGED vars
  <2>1. stopped \in BOOLEAN
    BY DEF IInv, TypeInv
  <2>2. QED
    BY <1>2, <2>1, StopKeeps DEF vars
<1>3. QED
  BY <1>1, <1>2

LEMMA Inductive == Spec => []IInv
<1>1. Init => IInv
  BY InitInv
<1>2. IInv /\ [Next]_vars => IInv'
  BY NextKeeps
<1>3. QED
  BY <1>1, <1>2, PTL DEF Spec

\* What response and responseText hold is of the current generation, whichever
\* read comes back late: open() and abort() begin a generation with no response,
\* and only a chain of the current generation writes one.
THEOREM ResponseIsOwn == Spec => []NoForeignResponse
<1>1. IInv => NoForeignResponse
  BY DEF IInv, TypeInv, NoForeignResponse
<1>2. QED
  BY <1>1, Inductive, PTL

-----------------------------------------------------------------------------
(* The on-handlers are told what Exchange allows.                          *)

\* Before the first open() nothing happens.
NothingOpened ==
  generation = 0 => readyState = 0 /\ ~sent /\ stack = <<>> /\ chain[0] = NoChain

LEMMA NothingKeeps ==
  ASSUME IInv, NothingOpened, [Next]_vars
  PROVE  NothingOpened'
<1> SUFFICES ASSUME generation' = 0 PROVE NothingOpened'
  BY DEF NothingOpened
<1>1. generation \in Nat
  BY RequestAssumption DEF IInv, TypeInv, Generations
<1>2. CASE Open
  BY <1>1, <1>2 DEF Open
<1>3. CASE ~Open
  <2>1. generation = 0
    <3>1. generation' = generation \/ generation' = generation + 1
      BY <1>3 DEF Next, vars, Abort, SendNow, SendLater, Stop, Returns, Emits, Leaves,
                  ChainStep, Starts, ReadEnds, Drops, Steps, Notifies
    <3>2. QED
      BY <1>1, <3>1
  <2>2. /\ readyState = 0 /\ ~sent /\ stack = <<>>
        /\ \A g \in Generations : chain[g] = NoChain
    <3>1. \A g \in Generations : g = 0 \/ g > 0
      BY RequestAssumption DEF Generations
    <3>2. QED
      BY <2>1, <3>1 DEF NothingOpened, IInv, ChainInv
  <2>3. \A g \in Generations : ~ChainStep(g)
    <3>1. \A g \in Generations : chain[g].at = "none" /\ chain[g].pending = <<>>
      BY <2>2 DEF NoChain
    <3>2. QED
      BY <3>1 DEF ChainStep, Starts, ReadEnds, Drops, Steps, Notifies, After
  <2>4. ~Returns /\ ~Emits /\ ~Leaves /\ ~SendNow /\ ~SendLater
    BY <2>2 DEF Returns, Emits, Leaves, Inside, SendNow, SendLater, MaySend
  <2>5. Abort \/ Stop \/ UNCHANGED vars
    BY <1>3, <2>3, <2>4 DEF Next
  <2>6. readyState' = readyState /\ UNCHANGED <<stack, chain>>
    BY <2>2, <2>5 DEF Abort, Stop, vars
  <2>7. ~sent'
    BY <2>2, <2>5 DEF Abort, Stop, vars
  <2>8. QED
    BY <2>1, <2>2, <2>6, <2>7 DEF NothingOpened
<1>4. QED
  BY <1>2, <1>3

\* The response as Exchange has it.
Answer == IF taken THEN "taken" ELSE IF response # 0 THEN "there" ELSE "none"

LEMMA TellMeans ==
  ASSUME told \in Events, told' \in AsTold!Follows[told], UNCHANGED Answer,
         told' = "load" => Answer # "none", told' = "error" => Answer # "there"
  PROVE  AsTold!Next
<1>1. told # NOTHING
  BY RequestAssumption
<1>2. QED
  BY <1>1 DEF AsTold!Next, AsTold!Tell, Answer

\* Three events, each told to the on-handler and to the listener.
LEMMA SixTold ==
  ASSUME NEW s, NEW a, NEW b, NEW c, IsSix(s, a, b, c), NEW r \in Seq(Tell), r # <<>>,
         NEW before, IsRest(r, s), LastTold(r, s, before), Tells(Head(r))
  PROVE  \/ told' = told
         \/ told \in before /\ told' = a
         \/ told = a /\ told' = b
         \/ told = b /\ told' = c
<1>1. /\ s \in Seq(Tell) /\ Len(r) \in 1 .. 6 /\ Len(s) = 6
      /\ Head(r) = s[6 - Len(r) + 1]
  BY RestTail DEF IsSix
<1>2. \A n \in 1 .. 6 : \/ n = 6 /\ 6 - n + 1 = 1
                        \/ n = 5 /\ 6 - n + 1 = 2
                        \/ n = 4 /\ 6 - n + 1 = 3 /\ 6 - n = 2 /\ n # 6
                        \/ n = 3 /\ 6 - n + 1 = 4
                        \/ n = 2 /\ 6 - n + 1 = 5 /\ 6 - n = 4 /\ n # 6
                        \/ n = 1 /\ 6 - n + 1 = 6
  OBVIOUS
<1>3. CASE Head(r).to = "listener"
  BY <1>3 DEF Tells
<1>4. CASE Head(r) = s[1] /\ Len(r) = 6
  BY <1>1, <1>4 DEF IsSix, LastTold, Tells
<1>5. CASE Head(r) = s[3] /\ Len(r) # 6 /\ 6 - Len(r) = 2
  BY <1>1, <1>5 DEF IsSix, LastTold, Tells
<1>6. CASE Head(r) = s[5] /\ Len(r) # 6 /\ 6 - Len(r) = 4
  BY <1>1, <1>6 DEF IsSix, LastTold, Tells
<1>7. Head(r) = s[2] \/ Head(r) = s[4] \/ Head(r) = s[6] => Head(r).to = "listener"
  BY DEF IsSix
<1>8. QED
  BY <1>1, <1>2, <1>3, <1>4, <1>5, <1>6, <1>7

\* The next event of abort() or send().
LEMMA LiveFollows ==
  ASSUME IInv, NothingOpened, stack # <<>>,
         NEW f \in Frame, f.pending # <<>>, Tells(Head(f.pending)),
         Aborting(f) \/ Sending(f) \/ Submitting(f), UNCHANGED <<response, taken>>
  PROVE  AsTold!Next \/ told' = told
<1>0. f.pending \in Seq(Tell)
  BY DEF Frame
<1>1. UNCHANGED Answer
  BY DEF Answer
<1>2. CASE Aborting(f)
  <2>1. IsSix(AbortEvents, "aborted", "abort", "loadend")
    BY CallsTell
  <2>2. \/ told' = told
        \/ told \in InProgress /\ told' = "aborted"
        \/ told = "aborted" /\ told' = "abort"
        \/ told = "abort" /\ told' = "loadend"
    BY <1>0, <1>2, <2>1, SixTold DEF Aborting
  <2>3. told' = told \/ (told \in Events /\ told' \in AsTold!Follows[told])
    BY <2>2 DEF InProgress, AsTold!Follows, Events
  <2>4. told' = told \/ (told' # "load" /\ told' # "error")
    BY <2>2
  <2>5. QED
    BY <1>1, <2>3, <2>4, TellMeans
<1>3. CASE Sending(f)
  <2>1. PICK found \in BOOLEAN :
          /\ IsRest(f.pending, SendEvents(found))
          /\ LastTold(f.pending, SendEvents(found), {"opened"})
          /\ Answered(found)
    BY <1>3 DEF Sending
  <2>2. IsSix(SendEvents(found), "done", Outcome(found), "loadend")
    BY CallsTell
  <2>3. \/ told' = told
        \/ told \in {"opened"} /\ told' = "done"
        \/ told = "done" /\ told' = Outcome(found)
        \/ told = Outcome(found) /\ told' = "loadend"
    BY <1>0, <2>1, <2>2, SixTold
  <2>4. told' = told \/ (told \in Events /\ told' \in AsTold!Follows[told])
    BY <2>3 DEF Outcome, AsTold!Follows, Events
  <2>5. generation # 0
    BY DEF NothingOpened
  <2>6. IF found THEN Answer # "none" ELSE Answer # "there"
    BY <2>1, <2>5 DEF Answered, Answer
  <2>7. \/ told' = told
        \/ /\ told' = "load" => Answer # "none"
           /\ told' = "error" => Answer # "there"
    BY <2>3, <2>6 DEF Outcome
  <2>8. QED
    BY <1>1, <2>4, <2>7, TellMeans
<1>4. CASE Submitting(f)
  <2> DEFINE s == Both("loadstart")
  <2>1. /\ s \in Seq(Tell) /\ Len(s) = 2
        /\ s[1] = [event |-> "loadstart", to |-> "on"]
        /\ s[2] = [event |-> "loadstart", to |-> "listener"]
    BY BothIs DEF Events
  <2>2. IsRest(f.pending, s) /\ LastTold(f.pending, s, {"opened"})
    BY <1>4 DEF Submitting
  <2> HIDE DEF s
  <2>3. Len(f.pending) \in 1 .. 2 /\ Head(f.pending) = s[2 - Len(f.pending) + 1]
    BY <1>0, <2>1, <2>2, RestTail
  <2>4. CASE Len(f.pending) = 2
    <3>1. Head(f.pending) = s[1] /\ told = "opened"
      BY <2>1, <2>2, <2>3, <2>4 DEF LastTold
    <3>2. told' = "loadstart"
      BY <2>1, <3>1 DEF Tells
    <3>3. told \in Events /\ told' \in AsTold!Follows[told]
      BY <3>1, <3>2 DEF AsTold!Follows, Events
    <3>4. QED
      BY <1>1, <3>2, <3>3, TellMeans
  <2>5. CASE Len(f.pending) = 1
    <3>1. Head(f.pending) = s[2]
      BY <2>3, <2>5
    <3>2. QED
      BY <2>1, <3>1 DEF Tells
  <2>6. QED
    BY <2>3, <2>4, <2>5
<1>5. QED
  BY <1>2, <1>3, <1>4

LEMMA EmitsFollows ==
  ASSUME IInv, NothingOpened, Emits
  PROVE  AsTold!Next \/ (UNCHANGED Answer /\ told' = told)
<1>1. PICK f \in Frame, h \in Frame, rest \in Frame : Emitting(f, h, rest)
  BY EmitsMeans
<1>2. stack # <<>> /\ 1 \in 1 .. Len(stack)
  BY <1>1, Popped DEF IInv, TypeInv, Emitting
<1>3. /\ FrameOK(f) /\ f = stack[1] /\ f.pending # <<>> /\ Tells(Head(f.pending))
      /\ f.call # "handler" /\ Valid(f) /\ UNCHANGED <<response, taken>>
  BY <1>1, <1>2 DEF IInv, StackInv, FramesOK, Emitting
<1>4. UNCHANGED Answer
  BY <1>3 DEF Answer
<1>5. CASE f.call \in Checked
  <2>1. Aborting(f) \/ Sending(f) \/ Submitting(f)
    BY <1>3, <1>5 DEF FrameOK, Valid, Current, Live
  <2>2. QED
    BY <1>2, <1>3, <1>4, <2>1, LiveFollows
<1>6. CASE f.call = "open"
  <2>1. CASE Len(f.pending) = 2 /\ told' = "opened" /\ readyState = 1 /\ ~sent
    <3>1. ~taken /\ response = 0
      BY <2>1 DEF IInv, UnsentInv
    <3>2. Answer' = "none"
      BY <1>3, <3>1 DEF Answer
    <3>3. QED
      BY <2>1, <3>2 DEF AsTold!Next, AsTold!Open, Answer
  <2>2. CASE told' = told
    BY <1>4, <2>2
  <2>3. QED
    BY <1>1, <1>6, <2>1, <2>2, OpenTells
<1>7. QED
  BY <1>3, <1>5, <1>6 DEF Frame, Calls, Checked

\* What a step of finish() writes.
LEMMA StepsRespond ==
  ASSUME IInv, NEW g \in Generations, Steps(g)
  PROVE  AsTold!Next \/ (UNCHANGED Answer /\ told' = told)
<1> DEFINE d == chain[g]
<1>1. d \in Chain /\ g = generation /\ ChainOK(d)
  BY DEF IInv, TypeInv, ChainInv, Steps, Current
<1>2. d.at \in DOMAIN After /\ d.pending = <<>> /\ UNCHANGED <<told, taken>>
  BY DEF Steps
<1>3. response' \in CASE d.at = "done" /\ d.found -> {g}
                      [] d.at = "loading"         -> {response, g}
                      [] OTHER                    -> {response}
  BY DEF Steps
<1>4. response \in {0, g}
  BY <1>1 DEF IInv, TypeInv
<1>5. told \in Before(d)
  <2>1. Len(d.pending) = 0
    BY <1>2, EmptySeq
  <2>2. QED
    BY <1>1, <1>2, <2>1 DEF ChainOK
<1>6. CASE response' = response
  BY <1>2, <1>6 DEF Answer
<1>7. CASE response' # response
  <2>1. (d.at = "done" /\ d.found) \/ d.at = "loading"
    BY <1>3, <1>7
  <2>2. response = 0 /\ response' # 0
    BY <1>3, <1>4, <1>7, <2>1
  <2>3. sent
    BY <1>1, <1>2, <2>1 DEF ChainOK
  <2>4. ~taken
    BY <2>3 DEF IInv, SentInv
  <2>5. told \in {"headers", "progress"}
    BY <1>5, <2>1 DEF Before
  <2>6. Answer = "none" /\ Answer' = "there"
    BY <1>2, <2>2, <2>4 DEF Answer
  <2>7. QED
    BY <1>2, <2>5, <2>6 DEF AsTold!Next, AsTold!Respond, Answer
<1>8. QED
  BY <1>6, <1>7

LEMMA NotifiesFollows ==
  ASSUME IInv, NothingOpened, NEW g \in Generations, Notifies(g)
  PROVE  AsTold!Next \/ (UNCHANGED Answer /\ told' = told)
<1> DEFINE d == chain[g]
<1>1. d \in Chain /\ g = generation /\ ChainOK(d)
  BY DEF IInv, TypeInv, ChainInv, Notifies, Current
<1>2. d.pending # <<>> /\ Tells(Head(d.pending)) /\ UNCHANGED <<response, taken>>
  BY DEF Notifies
<1>3. /\ d.at \in DOMAIN After /\ d.found \in BOOLEAN /\ d.pending \in Seq(Tell)
      /\ IsRest(d.pending, Both(Told(d)))
  BY <1>1, <1>2 DEF ChainOK, Chain, Places
<1>4. /\ Both(Told(d)) \in Seq(Tell) /\ Len(Both(Told(d))) = 2
      /\ Both(Told(d))[1] = [event |-> Told(d), to |-> "on"]
      /\ Both(Told(d))[2] = [event |-> Told(d), to |-> "listener"]
  BY <1>1, <1>3, TellingIs, BothIs
<1>5. /\ Len(d.pending) \in 1 .. 2
      /\ Head(d.pending) = Both(Told(d))[2 - Len(d.pending) + 1]
  BY <1>2, <1>3, <1>4, RestTail
<1>6. UNCHANGED Answer
  BY <1>2 DEF Answer
<1>7. CASE Len(d.pending) = 1
  <2>1. Head(d.pending) = [event |-> Told(d), to |-> "listener"]
    BY <1>4, <1>5, <1>7
  <2>2. QED
    BY <1>2, <1>6, <2>1 DEF Tells
<1>8. CASE Len(d.pending) = 2
  <2>1. Head(d.pending) = [event |-> Told(d), to |-> "on"]
    BY <1>4, <1>5, <1>8
  <2>2. told' = Told(d)
    BY <1>2, <2>1 DEF Tells
  <2>3. told \in Before(d)
    BY <1>1, <1>3, <1>8 DEF ChainOK
  <2>4. told \in Events /\ told' \in AsTold!Follows[told]
    <3>1. CASE d.at \in {"headers", "loading", "progress", "loadend"}
      BY <2>2, <2>3, <3>1 DEF Before, Told, AsTold!Follows, Events
    <3>2. CASE d.at \in {"done", "load"}
      BY <2>2, <2>3, <3>2 DEF Before, Told, AsTold!Follows, Events
    <3>3. QED
      BY <1>3, <3>1, <3>2 DEF After
  <2>5. /\ told' = "load" => Answer # "none"
        /\ told' = "error" => Answer # "there"
    <3>1. SUFFICES ASSUME told' \in {"load", "error"}
                   PROVE  /\ told' = "load" => Answer # "none"
                          /\ told' = "error" => Answer # "there"
      OBVIOUS
    <3>2. d.at = "load" /\ (told' = "load" <=> d.found)
      BY <1>3, <2>2, <3>1 DEF Told, After
    <3>3. Answered(d.found)
      BY <1>1, <3>2 DEF ChainOK
    <3>4. generation # 0
      BY <1>1, <1>2 DEF NothingOpened, NoChain
    <3>5. QED
      BY <3>2, <3>3, <3>4 DEF Answered, Answer
  <2>6. QED
    BY <1>6, <2>4, <2>5, TellMeans
<1>9. QED
  BY <1>5, <1>7, <1>8

LEMMA StepTold ==
  ASSUME IInv, NothingOpened, [Next]_vars
  PROVE  AsTold!Next \/ (UNCHANGED Answer /\ told' = told)
<1>1. CASE Open
  <2>1. told' = told /\ Answer' = "none"
    BY <1>1 DEF Open, Answer
  <2>2. QED
    BY <2>1 DEF AsTold!Next, AsTold!Forget, Answer
<1>2. CASE Abort
  <2>1. told' = told /\ response' = 0
    BY <1>2 DEF Abort
  <2>2. Answer' \in {"none", "taken"}
    BY <2>1 DEF Answer
  <2>3. QED
    BY <2>1, <2>2 DEF AsTold!Next, AsTold!Forget, Answer
<1>3. CASE SendNow
  <2>1. PICK found \in BOOLEAN : response' = IF found THEN generation ELSE response
    BY <1>3 DEF SendNow
  <2>2. /\ GuestRuns /\ readyState = 1 /\ ~sent /\ UNCHANGED <<told, taken>>
    BY <1>3 DEF SendNow, MaySend
  <2>3. response = 0 /\ told = "opened"
    BY <2>2, GuestFacts DEF IInv, UnsentInv
  <2>4. ~taken
    BY <2>2 DEF IInv, UnsentInv
  <2>5. Answer = "none" /\ Answer' \in {"none", "there"}
    BY <2>2, <2>3, <2>4 DEF Answer
  <2>6. QED
    BY <2>2, <2>3, <2>5 DEF AsTold!Next, AsTold!Respond, Answer
<1>4. CASE SendLater \/ Stop \/ Returns \/ Leaves \/ UNCHANGED vars
  <2>1. UNCHANGED <<told, response, taken>>
    BY <1>4 DEF SendLater, Stop, Returns, Leaves, vars
  <2>2. QED
    BY <2>1 DEF Answer
<1>5. CASE Emits
  BY <1>5, EmitsFollows
<1>6. ASSUME NEW g \in Generations, ChainStep(g)
      PROVE  AsTold!Next \/ (UNCHANGED Answer /\ told' = told)
  <2>1. CASE Starts(g) \/ ReadEnds(g) \/ Drops(g)
    BY <2>1 DEF Starts, ReadEnds, Drops, Answer
  <2>2. QED
    BY <1>6, <2>1, StepsRespond, NotifiesFollows DEF ChainStep
<1>7. QED
  BY <1>1, <1>2, <1>3, <1>4, <1>5, <1>6 DEF Next

\* Handlers open, send and abort the request between two events, and the tasks
\* of earlier generations are still under way; the on-handlers are told of one
\* exchange at a time all the same, load with a response and error without.
THEOREM TellsOneExchange == Spec => ToldInOrder
<1>1. Init => NothingOpened /\ AsTold!Init
  <2>1. Init => NothingOpened
    BY RequestAssumption DEF Init, NothingOpened, Generations
  <2>2. Init => AsTold!Init
    BY DEF Init, AsTold!Init
  <2>3. QED
    BY <2>1, <2>2
<1>2. IInv /\ NothingOpened /\ [Next]_vars => NothingOpened'
  BY NothingKeeps
<1>3. IInv /\ NothingOpened /\ [Next]_vars => [AsTold!Next]_(AsTold!vars)
  BY StepTold DEF AsTold!vars, Answer
<1>4. QED
  BY <1>1, <1>2, <1>3, Inductive, PTL DEF Spec, ToldInOrder, AsTold!Spec
=============================================================================
