----------------------------- MODULE LoopedSource -----------------------------
(***************************************************************************)
(* The order in which the frames of an audio file are heard, with or       *)
(* without a loop.  A source is a record [len, loopStart, loopEnd,         *)
(* duration]: the frames of the file, its loop tags, and the duration its  *)
(* container states, which is a time.                                      *)
(*                                                                         *)
(* Times are doubles, in seconds; here they are counted in ticks, of which *)
(* a frame has Ticks, so that there are times between two frames.  The     *)
(* service cuts a time down to the frame it lies in, the decoder goes to   *)
(* the nearest frame.  After a seek the frame that is read and the number  *)
(* it is counted as may therefore differ: a place has both.                *)
(***************************************************************************)
EXTENDS Integers

CONSTANT Ticks
ASSUME TicksAssumption == Ticks \in Nat \ {0}

Time(frame) == frame * Ticks
Truncated(time) == time \div Ticks
Rounded(time) == (2 * time + Ticks) \div (2 * Ticks)

Places == [frame : Nat, count : Nat]

\* Where the decoder goes for a time, and the number the service counts it as.
PlaceAt(time) == [frame |-> Rounded(time), count |-> Truncated(time)]

\* The place n frames on in the file.
Onward(x, n) == [frame |-> x.frame + n, count |-> x.count + n]

HasLoopPoints(s) == s.loopEnd > s.loopStart

LoopStart(s) == [frame |-> s.loopStart, count |-> s.loopStart]

\* What stands at x when the end of a loop, or of the file, leads to its start.
Fold(s, loop, x) ==
  IF loop /\ (x.frame >= s.len \/ (HasLoopPoints(s) /\ x.count >= s.loopEnd))
  THEN LoopStart(s) ELSE x

\* n steps of a function, from x on.
Iterated(step, x, n) ==
  LET at[i \in 0 .. n] == IF i = 0 THEN x ELSE step[at[i - 1]] IN at[n]

\* The place after each place; nothing comes after the end of the file.
Following(s, loop) ==
  [x \in Places |-> IF x.frame >= s.len THEN x ELSE Fold(s, loop, Onward(x, 1))]

\* n frames after x.
Ahead(s, loop, x, n) == Iterated(Following(s, loop), x, n)
=============================================================================
