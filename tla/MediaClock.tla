----------------------------- MODULE MediaClock -----------------------------
(***************************************************************************)
(* The muxing thread of a caster whose pictures are raw frames from memory *)
(* and whose sound comes from PulseAudio: how it takes frames and sound    *)
(* out of their buffers, and the two clocks that tell the player when to   *)
(* show and to play them.                                                  *)
(*                                                                         *)
(* The clock of the picture follows the wall clock: the length of a packet *)
(* is the time between two frames as the thread got them.  The clock of    *)
(* the sound advances by the length of a packet of sound, and follows the  *)
(* one of the picture; silence is put in where sound is missing.           *)
(*                                                                         *)
(* Time is in ticks, on the scale of all time bases of the code; taking    *)
(* and encoding a frame takes at least one.  Sound is in bytes.            *)
(***************************************************************************)
EXTENDS Integers, Sequences

CONSTANTS
  Nominal,     \* the length of a frame at the frame rate of the source
  AudioDur,    \* m_audioFrameDuration, m_audioPktDuration
  AudioFrame,  \* m_audioInFrameSize
  Fragments,   \* the bytes of sound that PulseAudio hands over at once
  FrameSizes,  \* what m_videoRawFrameSize can be
  BufferSize,  \* m_videoBufSize
  MaxTime,     \* bound: ticks
  MaxFrames,   \* bound: frames from the source
  MaxSound     \* bound: bytes of sound that wait

ASSUME MediaClockAssumption ==
  /\ Nominal \in Nat \ {0}
  /\ AudioDur \in Nat \ {0}
  /\ AudioFrame \in Nat \ {0}
  /\ Fragments \subseteq Nat
  /\ FrameSizes \subseteq Nat \ {0}
  /\ BufferSize \in Nat
  /\ MaxTime \in Nat
  /\ MaxFrames \in Nat
  /\ MaxSound \in Nat

VARIABLES
  media,      \* what is cast: "video", "audio" or both
  frameSize,  \* m_videoRawFrameSize
  state,      \* m_state: "starting", "started" or "terminating"
  now,        \* the wall clock
  pc,         \* where the muxing thread is
  began,      \* now of muxVideo()
  pushed,     \* how many frames the source delivered
  held,       \* the numbers of the frames in m_videoBuf
  stream,     \* m_paStream is not null
  sound,      \* how many bytes are in m_audioBuf
  vpts,       \* m_nextVideoPts
  realDur,    \* m_videoRealFrameDuration
  lastFrame,  \* m_videoTimeLastFrame
  flushed,    \* m_videoFlushed
  apts,       \* m_nextAudioPts
  lastAudio,  \* m_audioTimeLastFrame
  firstFrame, \* history: when the first frame was taken
  hurried,    \* history: a frame came so soon that its time was not believed
  taken       \* history: the frame taken last, and how many the source had
              \* delivered when the one before it was taken

castVars   == <<media, frameSize>>
sourceVars == <<pushed, held>>
soundVars  == <<stream, sound>>
videoClock == <<vpts, realDur, lastFrame, flushed, firstFrame, hurried>>
audioClock == <<apts, lastAudio>>
threadVars == <<pc, began>>
clockVars  == <<castVars, state, now, threadVars, sourceVars, soundVars, videoClock,
                audioClock, taken>>

Media == {{"video"}, {"audio"}, {"video", "audio"}}

ClockInit ==
  /\ media \in Media
  /\ frameSize \in FrameSizes
  /\ state = "starting"
  /\ now = 1
  /\ pc = "none"
  /\ began = 0
  /\ pushed = 0
  /\ held = <<>>
  /\ stream \in BOOLEAN
  /\ sound = 0
  /\ vpts = 0
  /\ realDur = 0
  /\ lastFrame = 0
  /\ flushed = FALSE
  /\ apts = 0
  /\ lastAudio = 0
  /\ firstFrame = 0
  /\ hurried = FALSE
  /\ taken = [frame |-> 0, before |-> 0, seen |-> 0]

-----------------------------------------------------------------------------
(* Around the muxing thread.                                               *)

\* Time, and what becomes of the stream, matter only while the cast goes on.
Tick ==
  /\ state = "started"
  /\ now < MaxTime
  /\ now' = now + 1
  /\ UNCHANGED <<castVars, state, threadVars, sourceVars, soundVars, videoClock,
                 audioClock, taken>>

\* start(): Started, then the thread.
StartMuxing ==
  /\ pc = "none"
  /\ state' = "started"
  /\ pc' = "begin"
  /\ realDur' = IF "video" \in media THEN Nominal ELSE 0
  /\ UNCHANGED <<castVars, now, began, sourceVars, soundVars, vpts, lastFrame, flushed,
                 firstFrame, hurried, audioClock, taken>>

\* reportError(), or the destructor
Terminate ==
  /\ state' = "terminating"
  /\ UNCHANGED <<castVars, now, threadVars, sourceVars, soundVars, videoClock,
                 audioClock, taken>>

\* Mutation of RawVideoDataReady: a frame always goes behind the others.
RawVideoDataReady_Queues ==
  /\ "video" \in media
  /\ pushed < MaxFrames
  /\ pushed' = pushed + 1
  /\ held' = IF state = "terminating" THEN held ELSE Append(held, pushed')
  /\ UNCHANGED <<castVars, state, now, threadVars, soundVars, videoClock, audioClock, taken>>

\* rawVideoDataReadyHandler().  The buffer grows to the size of a frame.  A
\* second frame replaces the one that is held, but pushOverwriteTail() does so
\* only if there is room for another one behind it.
RawVideoDataReady ==
  /\ "video" \in media
  /\ pushed < MaxFrames
  /\ pushed' = pushed + 1
  /\ held' = IF state # "terminating" /\ (held = <<>> \/ BufferSize >= 2 * frameSize)
             THEN <<pushed'>> ELSE held
  /\ UNCHANGED <<castVars, state, now, threadVars, soundVars, videoClock, audioClock, taken>>

\* paStreamRequestCallback(); what comes when the cast is not started is dropped.
PaStreamRequest(n) ==
  /\ "audio" \in media
  /\ stream
  /\ state = "started"
  /\ sound + n <= MaxSound
  /\ sound' = sound + n
  /\ UNCHANGED <<castVars, state, now, threadVars, sourceVars, stream, videoClock,
                 audioClock, taken>>

\* An application that plays comes or goes.
PaStreamChanges ==
  /\ "audio" \in media
  /\ state = "started"
  /\ stream' = ~stream
  /\ UNCHANGED <<castVars, state, now, threadVars, sourceVars, sound, videoClock,
                 audioClock, taken>>

-----------------------------------------------------------------------------
(* A round of the muxing thread: muxVideo(), then muxAudio().              *)

RoundBegins ==
  /\ pc = "begin"
  /\ IF state = "started"
     THEN /\ now > lastFrame
          /\ pc' = IF "video" \in media THEN "video" ELSE "audio"
          /\ began' = now
     ELSE /\ pc' = "done"
          /\ UNCHANGED began
  /\ UNCHANGED <<castVars, state, now, sourceVars, soundVars, videoClock, audioClock, taken>>

AfterVideo == IF "audio" \in media THEN "audio" ELSE "begin"

\* readVideoFrameFromBuf() finds nothing.
NoFrame ==
  /\ pc = "video"
  /\ held = <<>>
  /\ pc' = AfterVideo
  /\ UNCHANGED <<castVars, state, now, began, sourceVars, soundVars, videoClock,
                 audioClock, taken>>

Interval == began - lastFrame

Believed == lastFrame > 0 => Interval >= realDur \div 4

\* updateVideoSampleStats()
UpdateVideoSampleStats ==
  /\ realDur' = IF lastFrame > 0 /\ Believed THEN Interval ELSE realDur
  /\ lastFrame' = began
  /\ firstFrame' = IF lastFrame = 0 THEN began ELSE firstFrame
  /\ hurried' = (hurried \/ ~Believed)

TakeFrame ==
  /\ held' = Tail(held)
  /\ taken' = [frame |-> Head(held), before |-> taken.seen, seen |-> pushed]
  /\ UNCHANGED pushed

\* Mutation of WriteVideo: the packet has the length of the frame before.
WriteVideo_OldLength ==
  /\ pc = "video"
  /\ held # <<>>
  /\ TakeFrame
  /\ UpdateVideoSampleStats
  /\ vpts' = vpts + realDur
  /\ flushed' = TRUE
  /\ pc' = AfterVideo
  /\ UNCHANGED <<castVars, state, now, began, soundVars, audioClock>>

WriteVideo ==
  /\ pc = "video"
  /\ held # <<>>
  /\ TakeFrame
  /\ UpdateVideoSampleStats
  /\ vpts' = vpts + realDur'
  /\ flushed' = TRUE
  /\ pc' = AfterVideo
  /\ UNCHANGED <<castVars, state, now, began, soundVars, audioClock>>

\* The encoder keeps the frame for now.
VideoNotReady ==
  /\ pc = "video"
  /\ held # <<>>
  /\ TakeFrame
  /\ pc' = AfterVideo
  /\ UNCHANGED <<castVars, state, now, began, soundVars, videoClock, audioClock>>

\* An exception anywhere in a round.
MuxFails ==
  /\ pc \in {"video", "audio"}
  /\ pc' = "done"
  /\ state' = "terminating"
  /\ UNCHANGED <<castVars, now, began, sourceVars, soundVars, videoClock, audioClock, taken>>

Max2(a, b) == IF a > b THEN a ELSE b

MaxDelay == IF realDur > 0 THEN Max2(realDur, 2 * AudioDur) ELSE 2 * AudioDur

\* videoAudioDelay(), or audioDelay() where there is no picture
Delay == IF realDur > 0 THEN vpts - apts
         ELSE IF lastAudio = 0 THEN AudioDur
         ELSE now - (lastAudio + AudioDur)

\* muxAudio() has nothing to do, or is told to stop.
AudioEnough ==
  /\ pc = "audio"
  /\ state = "terminating" \/ Delay < AudioDur
  /\ pc' = "begin"
  /\ UNCHANGED <<castVars, state, now, began, sourceVars, soundVars, videoClock,
                 audioClock, taken>>

\* Mutation of PushNull: sound that is late is waited for.
PushNull_OnlyWithoutStream == ~stream

PushNull == ~stream \/ (Delay > MaxDelay /\ flushed)

\* readAudioPktFromBuf(): it is too early for silence.
AudioMissing ==
  /\ pc = "audio"
  /\ state # "terminating"
  /\ Delay >= AudioDur
  /\ sound < AudioFrame
  /\ ~PushNull
  /\ pc' = "begin"
  /\ UNCHANGED <<castVars, state, now, began, sourceVars, soundVars, videoClock,
                 audioClock, taken>>

\* A frame of sound, filled up with silence, leaves the buffer.
TakeSound ==
  /\ pc = "audio"
  /\ state # "terminating"
  /\ Delay >= AudioDur
  /\ sound >= AudioFrame \/ PushNull
  /\ sound' = Max2(sound - AudioFrame, 0)
  /\ UNCHANGED <<castVars, state, now, threadVars, sourceVars, stream, videoClock, taken>>

WriteAudio ==
  /\ TakeSound
  /\ apts' = apts + AudioDur
  /\ lastAudio' = IF apts = 0 THEN now ELSE lastAudio + AudioDur

AudioNotReady ==
  /\ TakeSound
  /\ UNCHANGED audioClock

-----------------------------------------------------------------------------
MuxStep ==
  \/ RoundBegins
  \/ NoFrame
  \/ WriteVideo
  \/ VideoNotReady
  \/ AudioEnough
  \/ AudioMissing
  \/ WriteAudio
  \/ AudioNotReady

ClockNext ==
  \/ Tick
  \/ StartMuxing
  \/ Terminate
  \/ RawVideoDataReady
  \/ \E n \in Fragments : PaStreamRequest(n)
  \/ PaStreamChanges
  \/ MuxStep
  \/ MuxFails

ClockSpec == ClockInit /\ [][ClockNext]_clockVars

-----------------------------------------------------------------------------
(* Properties.                                                             *)

\* The clock of the picture keeps the time that passed between the first frame
\* and the last.  It is exact as long as every interval was believed, and
\* never behind: an interval that is not believed counts as a longer one.
PictureKeepsTime ==
  lastFrame > 0 =>
    LET elapsed == Nominal + lastFrame - firstFrame
    IN  vpts >= elapsed /\ (~hurried => vpts = elapsed)

\* Sound and picture stay together.  The sound is never ahead of the picture,
\* or of the wall clock if there is no picture; and whenever a round is over
\* it is behind by no more than a frame of picture or two of sound.
SoundInStep ==
  /\ media = {"video", "audio"} => apts <= vpts
  /\ (media = {"audio"} /\ apts > AudioDur) => lastAudio + AudioDur <= now
  /\ (media = {"video", "audio"} /\ pc = "begin" /\ state = "started" /\ flushed) =>
       vpts - apts <= Max2(realDur, 2 * AudioDur)

\* A frame that is taken was delivered after the one before it was taken: no
\* frame is shown twice or out of order, and none waits in the buffer while
\* another is shown.
FramesAreFresh == taken.frame > 0 => taken.frame > taken.before
=============================================================================
