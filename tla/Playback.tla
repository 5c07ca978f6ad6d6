------------------------------ MODULE Playback ------------------------------
(***************************************************************************)
(* What a streamed voice of the audio service promises: from the offset of *)
(* the last play() on, the device hears the frames of the source in their  *)
(* order, one in `pitch`, round its loop, with pauses but with no gap, no  *)
(* repetition and nothing of an earlier play().  The end of a tagged loop  *)
(* is found by counting, from the frame that play()'s offset lies in, while*)
(* the nearest frame is the first to be heard: so the first pass, and only *)
(* that, may be one frame too long.  The voice falls silent when asked to  *)
(* or when decoding fails; by itself only after the last frame.            *)
(***************************************************************************)
EXTENDS LoopedSource

CONSTANTS Pitches,  \* frames of the source per frame of output
          SILENT    \* no frame

VARIABLES source,   \* [len, loopStart, loopEnd, duration]
          state,    \* "stopped", "playing", "finished"
          looping,  \* play(loop)
          next,     \* the place to be heard next
          heard     \* the last frame heard since play()

vars == <<source, state, looping, next, heard>>

Init == state = "stopped" /\ looping = FALSE /\ next = SILENT /\ heard = SILENT

Play(time, loop) ==
  /\ state' = "playing"
  /\ looping' = loop
  /\ next' = Fold(source, loop, PlaceAt(time))
  /\ heard' = SILENT

Hear(p) ==
  /\ state = "playing" /\ next.frame < source.len
  /\ heard' = next.frame
  /\ LET g == Ahead(source, looping, next, p)
     IN  \/ state' = "playing" /\ next' = g
         \/ g.frame >= source.len /\ ~looping /\ state' = "finished" /\ next' = SILENT
  /\ UNCHANGED looping

\* All frames were heard.
Finish ==
  /\ state = "playing" /\ next.frame >= source.len /\ ~looping
  /\ state' = "finished"
  /\ next' = SILENT
  /\ UNCHANGED <<looping, heard>>

\* stop(), a fade to silence, a decoder that fails.
Cut ==
  /\ state = "playing"
  /\ state' = "stopped"
  /\ next' = SILENT
  /\ UNCHANGED <<looping, heard>>

Next ==
  /\ \/ \E time \in 0..source.duration, loop \in BOOLEAN : Play(time, loop)
     \/ \E p \in Pitches : Hear(p)
     \/ Finish
     \/ Cut
  /\ UNCHANGED source

Spec == Init /\ [][Next]_vars
=============================================================================
