----------------------------- MODULE MediaStream -----------------------------
(***************************************************************************)
(* A streamed voice of the audio service (src/media_service.cpp), shared   *)
(* by three threads under the voice's mutex:                               *)
(*   - the game: play(), stop(), fade(), setSuspended(), setParameters();  *)
(*   - the decode worker, fill(): under the lock it takes the seek that is *)
(*     asked for and the generation, decodes without the lock, and under   *)
(*     the lock again appends what it decoded, unless the game has played  *)
(*     or stopped the voice in between;                                    *)
(*   - the device callback, which mixes the first frames of the buffer.    *)
(* An action is a section under the lock; the decoding itself belongs to   *)
(* the section after it, as only the worker uses the decoder.  A frame of  *)
(* sound is its place: the number it has in the file, and the one the      *)
(* worker counted it as.  Gains, panning and the samples in between two    *)
(* frames are left out; the pitch is a whole number.                       *)
(***************************************************************************)
EXTENDS LoopedSource, Sequences, FiniteSetsExt

CONSTANTS
  Sources,        \* files: [len, loopStart, loopEnd, duration]; 0 is no duration
  Pitches,        \* frames of the source consumed per frame of output
  BufferFrames,   \* bufferFrames: the worker keeps this many ahead
  DecodeFrames,   \* decodeFrames: at most this many are decoded at a time
  MaxGeneration,  \* bound: how often the game plays or stops the voice
  SILENT,         \* no frame
  NONE            \* no seek is asked for

ASSUME MediaAssumption ==
  /\ \A s \in Sources : /\ s.len \in Nat /\ s.loopStart \in Nat /\ s.loopEnd \in Nat
                          /\ s.duration \in Nat
  /\ Pitches \subseteq Nat \ {0} /\ 1 \in Pitches  \* the pitch of a new voice
  /\ BufferFrames \in Nat \ {0, 1} /\ DecodeFrames \in Nat \ {0}
  /\ MaxGeneration \in Nat
  /\ SILENT \notin Nat /\ NONE \notin Nat

VARIABLES
  source,    \* the file
  mix,       \* VoiceMixState: what the callback works on
  voice,     \* the rest of Voice
  worker,    \* the locals of fill(), or idle
  decoderAt, \* the frame the decoder returns next
  \* history of what the device got, for the properties
  heard,     \* the last frame since play()
  finished,  \* the callback found the voice at its end
  beat       \* changes with each frame heard

vars == <<source, mix, voice, worker, decoderAt, heard, finished, beat>>

Idle == [busy |-> FALSE, generation |-> 0, seek |-> NONE, wanted |-> 0]

Init ==
  /\ source \in Sources
  /\ mix = [playing |-> FALSE, suspended |-> FALSE, loop |-> FALSE, eof |-> FALSE,
            stopAfterFade |-> FALSE, samples |-> <<>>, phase |-> 0, position |-> 0,
            pitch |-> 1]
  /\ voice = [producer |-> 0, generation |-> 0, requestedSeek |-> NONE,
              emptyLoopRestart |-> FALSE, failure |-> FALSE]
  /\ worker = Idle
  /\ decoderAt = 0
  /\ heard = SILENT /\ finished = FALSE /\ beat = 0

(***************************************************************************)
(* The game.                                                               *)
(***************************************************************************)

\* The time from which play(loop, offset) plays: an offset behind the end of a
\* loop is taken back into it, and all is cut to the duration.
StartTime(loop, offset) ==
  LET s == source
      folded == IF s.duration = 0 \/ ~loop THEN offset
                ELSE IF HasLoopPoints(s)
                THEN IF offset >= Time(s.loopEnd)
                     THEN Time(s.loopStart)
                            + ((offset - Time(s.loopStart)) % Time(s.loopEnd - s.loopStart))
                     ELSE offset
                ELSE offset % s.duration
  IN  Min({folded, s.duration})

Play(loop, offset) ==
  /\ voice.generation < MaxGeneration
  /\ ~voice.failure
  /\ LET start == StartTime(loop, offset)
     IN  /\ mix' = [mix EXCEPT !.samples = <<>>, !.phase = 0, !.position = Truncated(start),
                               !.loop = loop, !.eof = FALSE, !.playing = TRUE,
                               !.stopAfterFade = FALSE]
         /\ voice' = [voice EXCEPT !.emptyLoopRestart = FALSE, !.producer = Truncated(start),
                                   !.requestedSeek = start, !.generation = @ + 1]
  /\ heard' = SILENT /\ finished' = FALSE
  /\ UNCHANGED <<source, worker, decoderAt, beat>>

Stop ==
  /\ voice.generation < MaxGeneration
  /\ mix' = [mix EXCEPT !.playing = FALSE, !.stopAfterFade = FALSE, !.samples = <<>>]
  /\ voice' = [voice EXCEPT !.generation = @ + 1]
  /\ UNCHANGED <<source, worker, decoderAt, heard, finished, beat>>

\* fade(): a ramp that may end in silence, or a jump to it.
Fade(stopWhenFinished, atOnce) ==
  /\ mix' = [mix EXCEPT !.stopAfterFade = stopWhenFinished,
                        !.playing = @ /\ ~(stopWhenFinished /\ atOnce)]
  /\ UNCHANGED <<source, voice, worker, decoderAt, heard, finished, beat>>

\* setSuspended(), and suspendContext() for the voices of the context.
SetSuspended ==
  /\ mix' = [mix EXCEPT !.suspended = ~@]
  /\ UNCHANGED <<source, voice, worker, decoderAt, heard, finished, beat>>

SetPitch(p) ==
  /\ mix' = [mix EXCEPT !.pitch = p]
  /\ UNCHANGED <<source, voice, worker, decoderAt, heard, finished, beat>>

(***************************************************************************)
(* The decode worker.                                                      *)
(***************************************************************************)

\* fill() reclaims the buffer of a voice that does not play.
Reclaim ==
  /\ ~worker.busy /\ ~mix.playing
  /\ mix' = [mix EXCEPT !.samples = <<>>]
  /\ UNCHANGED <<source, voice, worker, decoderAt, heard, finished, beat>>

StartFill ==
  /\ ~worker.busy
  /\ mix.playing /\ ~mix.eof /\ Len(mix.samples) < BufferFrames
  /\ worker' = [busy |-> TRUE, generation |-> voice.generation,
                seek |-> voice.requestedSeek,
                wanted |-> Min({DecodeFrames, BufferFrames - Len(mix.samples)})]
  /\ voice' = [voice EXCEPT !.requestedSeek = NONE]
  /\ UNCHANGED <<source, mix, decoderAt, heard, finished, beat>>

\* decoder->seek() goes to the nearest frame, and read() returns these frames.
ReadFrom == IF worker.seek = NONE THEN decoderAt ELSE Rounded(worker.seek)
Decoded == LET from == ReadFrom
               count == Min({worker.wanted, Max({0, source.len - from})})
           IN  [i \in 1..count |-> from + i - 1]

\* Mutant of Current: only a voice that stopped drops what was decoded.
CurrentIfPlaying == mix.playing
\* What was decoded is still wanted.
Current == worker.generation = voice.generation /\ mix.playing

\* The samples of a chunk that are counted before the end of the loop.
Usable ==
  LET count == IF mix.loop /\ HasLoopPoints(source) /\ voice.producer < source.loopEnd
               THEN Min({Len(Decoded), source.loopEnd - voice.producer})
               ELSE Len(Decoded)
  IN  [i \in 1..count |-> [frame |-> Decoded[i], count |-> voice.producer + i - 1]]

EndsLoop == mix.loop /\ HasLoopPoints(source) /\ voice.producer + Len(Usable) >= source.loopEnd

FillDropped ==
  /\ worker.busy /\ ~Current
  /\ decoderAt' = ReadFrom + Len(Decoded)
  /\ worker' = Idle
  /\ UNCHANGED <<source, mix, voice, heard, finished, beat>>

FillAppends ==
  /\ worker.busy /\ Current
  /\ ~(Decoded = <<>> /\ mix.loop /\ voice.emptyLoopRestart)
  /\ LET restart == EndsLoop \/ (Decoded = <<>> /\ mix.loop)
     IN  /\ mix' = [mix EXCEPT !.samples = @ \o Usable,
                               !.eof = @ \/ (Decoded = <<>> /\ ~restart)]
         /\ voice' = [voice EXCEPT
              !.producer = IF restart THEN source.loopStart ELSE @ + Len(Usable),
              !.requestedSeek = IF restart THEN Time(source.loopStart) ELSE @,
              !.emptyLoopRestart = IF restart THEN Usable = <<>>
                                   ELSE @ /\ Usable = <<>>]
  /\ decoderAt' = ReadFrom + Len(Decoded)
  /\ worker' = Idle
  /\ UNCHANGED <<source, heard, finished, beat>>

\* seek or read fails, or a loop gives no samples even from its start.  A
\* decoder that throws is noticed also when the voice stopped meanwhile.
FillFails ==
  /\ worker.busy /\ worker.generation = voice.generation
  /\ mix' = [mix EXCEPT !.playing = FALSE, !.eof = TRUE, !.samples = <<>>]
  /\ voice' = [voice EXCEPT !.failure = TRUE, !.requestedSeek = NONE]
  /\ \E at \in 0..source.len : decoderAt' = at
  /\ worker' = Idle
  /\ UNCHANGED <<source, heard, finished, beat>>

(***************************************************************************)
(* The device callback, for one frame of output: mixVoiceInto().           *)
(***************************************************************************)

\* The position is at the end of a tagged loop, or of the duration.
LoopEnds(at) == mix.loop /\ HasLoopPoints(source) /\ at >= source.loopEnd
DurationEnds(at) == mix.loop /\ source.duration > 0 /\ at >= Truncated(source.duration)

\* Mutant of Step: the position wraps to the start of the file.
StepToZero(at) == IF LoopEnds(at + 1) \/ DurationEnds(at + 1) THEN 0 ELSE at + 1
\* The position after `at`.
Step(at) == IF LoopEnds(at + 1) THEN source.loopStart
            ELSE IF DurationEnds(at + 1) THEN 0
            ELSE at + 1

\* consumeSourcePhase(): whole frames of the phase leave the buffer, as far
\* as there are any.
Consumed(m) ==
  LET n == Min({m.phase, Len(m.samples)})
  IN  [m EXCEPT !.samples = SubSeq(m.samples, n + 1, Len(m.samples)), !.phase = m.phase - n,
                !.position = Iterated([at \in Nat |-> Step(at)], m.position, n)]

\* The buffer after what was pending is consumed.
Ready == Consumed(mix)

\* Mutant of Underrun: the last frame waits for one more.
UnderrunAtEnd == Len(Ready.samples) < 2 /\ ~(Ready.eof /\ Ready.samples = <<>>)
\* One frame is not enough to interpolate, unless it is the last.
Underrun == Len(Ready.samples) < 2 /\ ~Ready.eof

AtEnd == Ready.samples = <<>> /\ Ready.eof

Mixing == mix.playing /\ ~mix.suspended

CallbackWaits ==
  /\ Mixing /\ Underrun
  /\ mix' = Ready
  /\ UNCHANGED <<source, voice, worker, decoderAt, heard, finished, beat>>

CallbackEnds ==
  /\ Mixing /\ AtEnd
  /\ mix' = [Ready EXCEPT !.playing = FALSE]
  /\ finished' = TRUE
  /\ UNCHANGED <<source, voice, worker, decoderAt, heard, beat>>

\* advanceGain() reaches silence before the frame is mixed.
CallbackFadesOut ==
  /\ Mixing /\ ~Underrun /\ ~AtEnd
  /\ mix.stopAfterFade
  /\ mix' = [Ready EXCEPT !.playing = FALSE]
  /\ UNCHANGED <<source, voice, worker, decoderAt, heard, finished, beat>>

CallbackMixes ==
  /\ Mixing /\ ~Underrun /\ ~AtEnd
  /\ LET after == Consumed([Ready EXCEPT !.phase = @ + mix.pitch])
         ends  == ~mix.loop /\ after.eof /\ after.samples = <<>>
     IN  /\ mix' = [after EXCEPT !.playing = ~ends]
         /\ finished' = ends
  /\ heard' = Head(Ready.samples).frame
  /\ beat' = 1 - beat
  /\ UNCHANGED <<source, voice, worker, decoderAt>>

(***************************************************************************)

\* Offsets behind the end of the duration are all alike, but for a loop.
Offsets == 0..(source.duration + Time(1))

Game == \/ \E loop \in BOOLEAN, offset \in Offsets : Play(loop, offset)
        \/ Stop
        \/ \E stop, atOnce \in BOOLEAN : Fade(stop, atOnce)
        \/ SetSuspended
        \/ \E p \in Pitches : SetPitch(p)

Worker == Reclaim \/ StartFill \/ FillDropped \/ FillAppends \/ FillFails
Callback == CallbackWaits \/ CallbackEnds \/ CallbackFadesOut \/ CallbackMixes

Next == Game \/ Worker \/ Callback

\* The worker visits each voice every few milliseconds and the device asks
\* for samples; the game promises nothing.
Fairness == WF_vars(Worker) /\ WF_vars(Callback)

Spec == Init /\ [][Next]_vars /\ Fairness

(***************************************************************************)
(* Properties.                                                             *)
(***************************************************************************)

\* The frame that the worker reads next.
NextRead == IF voice.requestedSeek # NONE THEN Rounded(voice.requestedSeek)
            ELSE IF worker.busy THEN ReadFrom ELSE decoderAt

\* What play() starts is heard: every frame the device gets is the one that
\* follows the last, or the one at the offset of the last play(), whatever the
\* game did while the worker decoded; and the voice ends by itself only when
\* all was heard (fill() and mixVoiceInto() refine Playback).
NextHeard ==
  LET at == IF mix.samples # <<>> THEN Head(mix.samples)
            ELSE Fold(source, mix.loop, [frame |-> NextRead, count |-> voice.producer])
  IN  IF mix.playing THEN Ahead(source, mix.loop, at, mix.phase) ELSE SILENT
AsHeard ==
  INSTANCE Playback WITH
    state   <- IF mix.playing THEN "playing" ELSE IF finished THEN "finished" ELSE "stopped",
    looping <- mix.loop,
    next    <- NextHeard
Plays == AsHeard!Spec

\* The loop is tagged with a start and an end inside the file and its duration,
\* or it is the whole file and the duration tells the frames it has.
LoopIsTold ==
  IF HasLoopPoints(source)
  THEN /\ source.loopEnd <= source.len
       /\ source.duration = 0 \/ source.loopEnd <= Truncated(source.duration)
  ELSE source.loopStart = 0 /\ Truncated(source.duration) = source.len

\* position() names the frame that is heard next, or the one before it: worker
\* and callback wrap at the end of a loop independently of each other, one by
\* what the decoder returns and the number it counts, the other by the duration,
\* and both count from the frame in which an offset lies while the decoder goes
\* to the nearest one.  They never come apart by more than that frame, over any
\* number of loops, for a voice that does not loop or whose loop is told.
PositionIsNext ==
  mix.samples # <<>> /\ (mix.loop => LoopIsTold)
    => \/ Head(mix.samples).frame - mix.position \in {0, 1}
       \/ Head(mix.samples).frame = Step(mix.position)

\* A voice that plays is heard, or ends, or fails: no seek is lost on the way to
\* the worker, the last frame does not wait for another, and a file or loop
\* without samples does not restart for ever.
NeverStalls ==
  \A b \in 0..1 : Mixing /\ beat = b ~> beat # b \/ ~Mixing
=============================================================================
