---------------------------- MODULE CasterProofs ----------------------------
(***************************************************************************)
(* A cast of raw frames: its clock (RawCast, MediaClock) and its picture   *)
(* (VideoGeometry), which have no variable in common.                      *)
(*                                                                         *)
(* For every length of a frame, every size of a buffer and any amount of   *)
(* time, frames and sound: picture, sound and wall clock stay together,    *)
(* and a cast takes no step that the muxing clock does not allow.          *)
(*                                                                         *)
(* For every size of screen and every capture device: a caster that got to *)
(* run has the filter that each of its frames needs, that filter puts out  *)
(* frames of the encoder's size, and the picture is upright; one that is   *)
(* lost for want of a filter has a picture that is too long for its frame. *)
(***************************************************************************)
EXTENDS RawCast, VideoGeometry, TLAPS

-----------------------------------------------------------------------------
(* The clock.                                                              *)


\* Each clock is a number, and the thread is where its media let it be.
ClockTypes ==
  /\ media \in Media
  /\ pc \in {"none", "begin", "video", "audio", "done"}
  /\ pc = "video" => "video" \in media
  /\ pc = "audio" => "audio" \in media
  /\ now \in Nat \ {0}
  /\ began \in Nat
  /\ vpts \in Int
  /\ realDur \in Nat
  /\ lastFrame \in Nat
  /\ firstFrame \in Nat
  /\ hurried \in BOOLEAN
  /\ flushed \in BOOLEAN
  /\ apts \in Nat
  /\ lastAudio \in Nat

\* PictureKeepsTime with what it rests on: before the first frame the clock is
\* at 0 and a frame is of nominal length; a round begins after the last frame.
PictureInv ==
  /\ pc = "none" => lastFrame = 0
  /\ pc = "video" => lastFrame < began
  /\ lastFrame = 0 => vpts = 0
  /\ (lastFrame = 0 /\ pc # "none" /\ "video" \in media) => realDur = Nominal
  /\ PictureKeepsTime

\* SoundInStep with what it rests on: the length of a frame tells whether there
\* is a picture to follow.
SoundInv ==
  /\ pc = "none" => ~flushed /\ vpts = 0 /\ apts = 0
  /\ (pc # "none" /\ "video" \in media) => realDur > 0
  /\ "video" \notin media => realDur = 0
  /\ apts > 0 => lastAudio > 0
  /\ SoundInStep

ClockInv == ClockTypes /\ PictureInv /\ SoundInv

\* A frame that is held is newer than the last one that was taken.
FramesInv ==
  /\ pushed \in Nat
  /\ taken.seen \in Nat
  /\ taken.seen <= pushed
  /\ held = <<>> \/ \E f \in Nat : held = <<f>> /\ taken.seen < f /\ f <= pushed
  /\ FramesAreFresh

-----------------------------------------------------------------------------
\* Nothing that the clocks are made of changes.
LEMMA ClockUnchanged ==
  ASSUME ClockInv, UNCHANGED <<castVars, state, threadVars, videoClock, audioClock>>,
         now' = now \/ now' = now + 1
  PROVE  ClockInv'
<1> USE DEF castVars, threadVars, videoClock, audioClock
<1>1. ClockTypes'
  BY DEF ClockInv, ClockTypes
<1>2. PictureInv'
  BY DEF ClockInv, ClockTypes, PictureInv, PictureKeepsTime
<1>3. SoundInv'
  <2>1. now' >= now
    BY DEF ClockInv, ClockTypes
  <2> QED BY <2>1, MediaClockAssumption
          DEF ClockInv, ClockTypes, SoundInv, SoundInStep, Max2
<1> QED BY <1>1, <1>2, <1>3 DEF ClockInv

\* The initial state has both clocks at 0.
LEMMA ClockInitInv == ClockInit => ClockInv
<1> SUFFICES ASSUME ClockInit PROVE ClockInv
  OBVIOUS
<1> USE MediaClockAssumption DEF ClockInit
<1>1. ClockTypes
  <2>1. media \in Media /\ pc = "none" /\ now = 1
    OBVIOUS
  <2>2. /\ began = 0 /\ vpts = 0 /\ realDur = 0 /\ lastFrame = 0 /\ firstFrame = 0
        /\ apts = 0 /\ lastAudio = 0
    OBVIOUS
  <2>3. hurried \in BOOLEAN /\ flushed \in BOOLEAN
    BY Zenon
  <2> HIDE DEF ClockInit
  <2> QED BY <2>1, <2>2, <2>3 DEF ClockTypes
<1>2. PictureInv
  BY DEF PictureInv, PictureKeepsTime
<1>3. SoundInv
  BY DEF SoundInv, SoundInStep
<1> QED BY <1>1, <1>2, <1>3 DEF ClockInv

\* Writing a frame advances the clock of the picture by what its packet says.
LEMMA WriteVideoInv == ClockInv /\ WriteVideo => ClockInv'
<1> SUFFICES ASSUME ClockInv, WriteVideo PROVE ClockInv'
  OBVIOUS
<1> USE MediaClockAssumption
<1>1. /\ pc = "video" /\ "video" \in media /\ lastFrame < began
      /\ lastFrame' = began /\ vpts' = vpts + realDur' /\ realDur > 0
      /\ media' = media /\ now' = now /\ began' = began /\ flushed' = TRUE
      /\ apts' = apts /\ lastAudio' = lastAudio
      /\ pc' = IF "audio" \in media THEN "audio" ELSE "begin"
      /\ realDur' = IF lastFrame > 0 /\ Believed THEN began - lastFrame ELSE realDur
      /\ firstFrame' = IF lastFrame = 0 THEN began ELSE firstFrame
      /\ hurried' = (hurried \/ ~Believed)
  BY DEF ClockInv, ClockTypes, PictureInv, SoundInv, WriteVideo, UpdateVideoSampleStats,
         AfterVideo, Interval, castVars, audioClock
<1>2. Believed \in BOOLEAN /\ (~Believed => began - lastFrame < realDur /\ lastFrame > 0)
  <2>1. \A n \in Nat : n \div 4 <= n
    OBVIOUS
  <2>2. realDur \div 4 <= realDur
    BY <2>1 DEF ClockInv, ClockTypes
  <2> QED BY <2>2 DEF Believed, Interval, ClockInv, ClockTypes
<1>3. realDur' \in Nat /\ realDur' > 0
  BY <1>1 DEF ClockInv, ClockTypes
<1>4. ClockTypes'
  BY <1>1, <1>2, <1>3 DEF ClockInv, ClockTypes, Media
<1>5. PictureKeepsTime'
  <2>1. CASE lastFrame = 0
    <3>1. Believed /\ firstFrame' = began /\ vpts' = Nominal
      BY <1>1, <1>2, <2>1 DEF ClockInv, ClockTypes, PictureInv
    <3> QED BY <1>1, <3>1 DEF ClockInv, ClockTypes, PictureInv, PictureKeepsTime
  <2>2. CASE lastFrame > 0 /\ Believed
    BY <1>1, <1>2, <2>2 DEF ClockInv, ClockTypes, PictureInv, PictureKeepsTime
  <2>3. CASE ~Believed
    <3>1. hurried'
      BY <1>1, <2>3, Zenon
    <3>2. realDur' = realDur /\ firstFrame' = firstFrame
      BY <1>1, <1>2, <2>3 DEF ClockInv, ClockTypes
    <3> QED BY <1>1, <1>2, <3>1, <3>2 DEF ClockInv, ClockTypes, PictureInv, PictureKeepsTime
  <2> QED BY <1>2, <2>1, <2>2, <2>3 DEF ClockInv, ClockTypes
<1>6. PictureInv'
  BY <1>1, <1>5 DEF ClockInv, ClockTypes, PictureInv
<1>7. SoundInv'
  BY <1>1, <1>3 DEF ClockInv, ClockTypes, SoundInv, SoundInStep, Media
<1> QED BY <1>4, <1>6, <1>7 DEF ClockInv

\* Sound is written only if it is due.
LEMMA WriteAudioInv == ClockInv /\ WriteAudio => ClockInv'
  BY MediaClockAssumption
     DEF ClockInv, ClockTypes, PictureInv, SoundInv, PictureKeepsTime, SoundInStep, Media,
         Max2, WriteAudio, TakeSound, Delay, castVars, threadVars, videoClock

\* A round that ends with the sound leaves it no further behind than that.
LEMMA AudioEndsInv == ClockInv /\ (AudioEnough \/ AudioMissing) => ClockInv'
  BY MediaClockAssumption
     DEF ClockInv, ClockTypes, PictureInv, SoundInv, PictureKeepsTime, SoundInStep, Media,
         Max2, AudioEnough, AudioMissing, PushNull, Delay, MaxDelay, castVars, videoClock,
         audioClock

\* The clocks do not move when the thread starts, begins a round, or ends.
LEMMA RoundInv ==
  ClockInv /\ (StartMuxing \/ RoundBegins \/ NoFrame \/ VideoNotReady \/ MuxFails)
    => ClockInv'
  BY MediaClockAssumption
     DEF ClockInv, ClockTypes, PictureInv, SoundInv, PictureKeepsTime, SoundInStep, Media,
         Max2, StartMuxing, RoundBegins, NoFrame, VideoNotReady, MuxFails, AfterVideo,
         castVars, videoClock, audioClock

\* The end of a cast leaves the clocks alone.
LEMMA TerminateInv == ClockInv /\ Terminate => ClockInv'
  BY MediaClockAssumption
     DEF ClockInv, ClockTypes, PictureInv, SoundInv, PictureKeepsTime, SoundInStep, Media,
         Max2, Terminate, castVars, threadVars, videoClock, audioClock

LEMMA ClockStep == ClockInv /\ [ClockNext]_clockVars => ClockInv'
<1> SUFFICES ASSUME ClockInv, [ClockNext]_clockVars PROVE ClockInv'
  OBVIOUS
<1>1. CASE Tick
  BY <1>1, ClockUnchanged DEF Tick
<1>2. CASE StartMuxing \/ RoundBegins \/ NoFrame \/ VideoNotReady \/ MuxFails
  BY <1>2, RoundInv
<1>3. CASE Terminate
  BY <1>3, TerminateInv
<1>4. CASE RawVideoDataReady
  BY <1>4, ClockUnchanged DEF RawVideoDataReady
<1>5. CASE \E n \in Fragments : PaStreamRequest(n)
  BY <1>5, ClockUnchanged DEF PaStreamRequest
<1>6. CASE PaStreamChanges
  BY <1>6, ClockUnchanged DEF PaStreamChanges
<1>7. CASE WriteVideo
  BY <1>7, WriteVideoInv
<1>8. CASE AudioEnough \/ AudioMissing
  BY <1>8, AudioEndsInv
<1>9. CASE WriteAudio
  BY <1>9, WriteAudioInv
<1>10. CASE AudioNotReady
  BY <1>10, ClockUnchanged DEF AudioNotReady, TakeSound
<1>11. CASE UNCHANGED clockVars
  BY <1>11, ClockUnchanged DEF clockVars
<1> QED BY <1>1, <1>2, <1>3, <1>4, <1>5, <1>6, <1>7, <1>8, <1>9, <1>10, <1>11
        DEF ClockNext, MuxStep

\* Frames come out newer than they went in.
LEMMA FramesStep == FramesInv /\ [ClockNext]_clockVars => FramesInv'
<1> SUFFICES ASSUME FramesInv, [ClockNext]_clockVars PROVE FramesInv'
  OBVIOUS
<1>1. CASE RawVideoDataReady
  <2>1. /\ pushed' = pushed + 1 /\ taken' = taken
        /\ held' = held \/ held' = <<pushed'>>
    BY <1>1 DEF RawVideoDataReady
  <2>2. CASE held' = <<pushed'>>
    BY <2>1, <2>2 DEF FramesInv, FramesAreFresh
  <2>3. CASE held' = held
    BY <2>1, <2>3 DEF FramesInv, FramesAreFresh
  <2> QED BY <2>1, <2>2, <2>3
<1>2. CASE WriteVideo \/ VideoNotReady
  <2>1. held # <<>> /\ TakeFrame
    BY <1>2 DEF WriteVideo, VideoNotReady
  <2>2. PICK f \in Nat : held = <<f>> /\ taken.seen < f /\ f <= pushed
    BY <2>1 DEF FramesInv
  <2>3. Head(held) = f /\ Tail(held) = <<>>
    BY <2>2
  <2> QED BY <2>1, <2>2, <2>3 DEF TakeFrame, FramesInv, FramesAreFresh
<1>3. CASE UNCHANGED <<sourceVars, taken>>
  BY <1>3 DEF sourceVars, FramesInv, FramesAreFresh
<1> QED BY <1>1, <1>2, <1>3
        DEF ClockNext, MuxStep, Tick, StartMuxing, Terminate, PaStreamRequest,
            PaStreamChanges, RoundBegins, NoFrame, AudioEnough, AudioMissing, WriteAudio,
            AudioNotReady, TakeSound, MuxFails, clockVars

-----------------------------------------------------------------------------
\* The clock of the picture keeps the time that passed, for every frame rate
\* and every pattern of arrivals.
THEOREM ClockPicture == ClockSpec => []PictureKeepsTime
<1>1. ClockInv => PictureKeepsTime
  BY DEF ClockInv, PictureInv
<1> QED BY <1>1, ClockInitInv, ClockStep, PTL DEF ClockSpec

\* The sound is never ahead and never further behind than the code allows, for
\* every length of frames and packets of sound.
THEOREM ClockSound == ClockSpec => []SoundInStep
<1>1. ClockInv => SoundInStep
  BY DEF ClockInv, SoundInv
<1> QED BY <1>1, ClockInitInv, ClockStep, PTL DEF ClockSpec

\* No frame is shown twice, out of order or after it waited for another, for
\* every size of frames.
THEOREM ClockFrames == ClockSpec => []FramesAreFresh
<1>1. ClockInit => FramesInv
  BY DEF ClockInit, FramesInv, FramesAreFresh
<1>2. FramesInv => FramesAreFresh
  BY DEF FramesInv
<1> QED BY <1>1, <1>2, FramesStep, PTL DEF ClockSpec

\* A cast with its threads, its start and its end does to the buffers and the
\* clocks only what MediaClock does: what holds there holds in every cast.
THEOREM RawCastImplementsClock == RawSpec => ClockSpec
<1>1. RawInit => ClockInit
  BY DEF RawInit
<1>2. [RawNext]_rawVars => [ClockNext]_clockVars
  BY DEF RawNext, Running, OwnerStep, Registered, StartVideoSource, Started, StartFails,
         ReportError, Destroy, StopSource, JoinSource, JoinMux, WaylandEvent, WlGlobal,
         WlLrSetup, UserStops, DisplayIsLost, SourceStep, SourceGoesOn, SourceIsStopped,
         SourceLosesDisplay, SourceReports, Deliver, CameraFrame, RecorderFails, Mux,
         MuxReports, Around, ClockNext, rawVars
<1> QED BY <1>1, <1>2, PTL DEF RawSpec, ClockSpec

-----------------------------------------------------------------------------
(* The picture.                                                            *)


\* What initVideoTrans may choose, of the transformations without a frame.
Quarters == {"TransClock", "VflipHflip", "TransCclock"}

\* What a caster can have chosen before it knows its encoder.
Chosen ==
  /\ source.type # "DroidCam"
  /\ trans \in {"Off", "Frame169", "Frame169Rot90"} \cup Quarters

\* The filters that go with the transformation of a caster that may start.
Equipped ==
  /\ trans \in {"Off", "Scale", "Frame169", "Frame169Rot90"} \cup Quarters
  /\ trans = "Off" =>
       exact /\ encoded = source.dim /\ source.type # "Lipstick"
  /\ trans \in Plain => filters = Plain
  /\ trans \in Framed =>
       filters = Framed \cup
                 (IF source.type = "Lipstick" THEN FramedVflip ELSE {})

IInv ==
  /\ source \in Sources
  /\ request \in Orientations \cup {"auto"}
  /\ phase \in {"new", "turned", "encoder", "ready", "running", "failed"}
  /\ encoded \in [w : Nat, h : Nat]
  /\ pose \in 0..3
  /\ yinverted \in BOOLEAN
  /\ phase \in {"turned", "encoder"} => Chosen
  /\ phase = "encoder" =>
       encoded = TransDim(source.dim, trans, source.scale)
  /\ phase \in {"ready", "running"} /\ source.type # "DroidCam" => Equipped
  /\ phase # "running" \/ source.type = "DroidCam" => shown = "none"
  /\ shown # "none" =>
       /\ shown = "Off" => trans = "Off"
       /\ shown \in Plain => (shown \in Transposing <=> trans \in Transposing)

----------------------------------------------------------------------------
\* What the sources have in common.
LEMMA SourceFacts ==
  ASSUME NEW s \in Sources
  PROVE  /\ s.dim \in Sizes
         /\ s.scale \in {2, 4}
         /\ s.trans \in {"Off", "Frame169", "Frame169Rot90"}
         /\ s.orientation \in Orientations
         /\ s.type = "Lipstick" => s.scale = 2
         /\ s.type = "Lipstick" => s.trans \in {"Off", "Frame169"}
  <1>1. CameraSize \in Sizes /\ TestSize \in Sizes
    BY DEF CameraSize, TestSize, Sizes
  <1>2. Orientations = {"landscape", "portrait", "inverted_landscape",
                        "inverted_portrait"}
    BY DEF Orientations, Rot
  <1>3. \A d \in Sizes : SizeOrientation(d) \in Orientations
    BY <1>2 DEF SizeOrientation
  <1>4. CASE s \in LipstickSources
    BY <1>2, <1>4, SizesAssumption DEF LipstickSources, Source
  <1>5. CASE s \in DroidCamSources
    BY <1>1, <1>2, <1>5 DEF DroidCamSources, Source
  <1>6. CASE s \in DroidCamRawSources
    BY <1>1, <1>2, <1>6 DEF DroidCamRawSources, Source
  <1>7. CASE s \in TestSources
    BY <1>1, <1>3, <1>7 DEF TestSources, Source
  <1>8. CASE s \in DemuxerSources
    BY <1>3, <1>8, SizesAssumption DEF DemuxerSources, Source
  <1> QED
    BY <1>4, <1>5, <1>6, <1>7, <1>8 DEF Sources

\* The transformation for a request is the source's own or a quarter turn.
LEMMA OrientationFacts ==
  ASSUME NEW s \in Sources, NEW r \in Orientations \cup {"auto"}
  PROVE  OrientationToTrans(r, s) \in {s.trans} \cup Quarters
  <1>1. CASE r = "auto"
    BY <1>1 DEF OrientationToTrans
  <1>2. CASE r # "auto"
    <2>1. Rot[r] \in 0..3 /\ Rot[s.orientation] \in 0..3
      BY <1>2, SourceFacts DEF Rot, Orientations
    <2> DEFINE q == (Rot[r] - Rot[s.orientation]) % 4
    <2>2. q \in {0, 1, 2, 3}
      BY <2>1
    <2>3. OrientationToTrans(r, s) = IF q = 0 THEN s.trans ELSE QuarterTrans[q]
      BY <1>2 DEF OrientationToTrans
    <2>4. q # 0 => QuarterTrans[q] \in Quarters
      BY <2>2 DEF QuarterTrans, Quarters
    <2> QED
      BY <2>3, <2>4
  <1> QED
    BY <1>1, <1>2

\* The encoder's size is a size, and half a screen is never the whole.
LEMMA TransDimFacts ==
  ASSUME NEW d \in Sizes, NEW t, NEW scale \in {2, 4}
  PROVE  /\ TransDim(d, t, scale) \in [w : Nat, h : Nat]
         /\ t = "Off" /\ scale = 2 => TransDim(d, t, scale) # d
  <1> DEFINE s    == [w |-> Scaled(d.w, scale), h |-> Scaled(d.h, scale)]
             high == Scaled(Max(d.w, d.h), scale)
  <1>1. d.w \in Nat \ {0} /\ d.h \in Nat \ {0}
    BY DEF Sizes
  <1>2. /\ Scaled(d.w, scale) \in Nat /\ Scaled(d.h, scale) \in Nat
        /\ Scaled(Max(d.w, d.h), scale) \in Nat
    BY <1>1 DEF Scaled, Max
  <1>3. \A e \in [w : Nat, h : Nat] : Even(e) \in [w : Nat, h : Nat]
    BY DEF Even
  <1>4. s \in [w : Nat, h : Nat] /\ Swap(s) \in [w : Nat, h : Nat]
    BY <1>2 DEF Swap
  <1>5. [w |-> (16 * high + 8) \div 9, h |-> high] \in [w : Nat, h : Nat]
    BY <1>2
  <1>6. TransDim(d, t, scale) \in [w : Nat, h : Nat]
    BY <1>3, <1>4, <1>5 DEF TransDim
  <1>7. ASSUME t = "Off", scale = 2
        PROVE  TransDim(d, t, scale) # d
    <2>1. TransDim(d, t, scale) = Even(s)
      BY <1>7 DEF TransDim, Framed, FramedVflip, Transposing
    <2>2. Even(s).w = 2 * (((d.w * 2 + 3) \div 4) \div 2)
      BY <1>7 DEF Even, Scaled
    <2>3. 2 * (((d.w * 2 + 3) \div 4) \div 2) # d.w
      BY <1>1
    <2> QED
      BY <2>1, <2>2, <2>3
  <1> QED
    BY <1>6, <1>7

\* Turning a transformation upside down does not lay it on its side.
LEMMA InvertedFacts ==
  /\ \A t \in {"Scale"} \cup Quarters :
       Inverted[t] \in Plain /\ (Inverted[t] \in Transposing <=> t \in Transposing)
  /\ \A t \in Framed : Inverted[t] \in FramedVflip
  BY DEF Inverted, Quarters, Plain, Framed, FramedVflip, Transposing

\* Whatever the pose and the buffer, the frame's filter has been made.
LEMMA FrameTransFacts ==
  ASSUME source \in Sources, Equipped, source.type # "DroidCam",
         NEW p \in 0..3, NEW y \in BOOLEAN
  PROVE  LET t == FrameTrans(p, y)
         IN  /\ t \in filters \cup {"Off"}
             /\ t = "Off" => trans = "Off"
             /\ t \in Plain => (t \in Transposing <=> trans \in Transposing)
  <1> DEFINE t == FrameTrans(p, y)
             Base == IF trans \in Framed \cup FramedVflip
                     THEN LipstickPoses[p + 1] ELSE trans
  <1>1. /\ LipstickPoses[p + 1] \in Framed /\ CameraPoses[p + 1] \in Framed
    <2>1. p + 1 \in {1, 2, 3, 4}
      OBVIOUS
    <2> QED
      BY <2>1 DEF LipstickPoses, CameraPoses, Framed
  <1>2. /\ Plain \cap Framed = {} /\ Plain \cap FramedVflip = {}
        /\ "Off" \notin Plain \cup Framed \cup FramedVflip
        /\ {"Scale"} \cup Quarters \subseteq Plain
        /\ {"Frame169", "Frame169Rot90"} \subseteq Framed
    BY DEF Plain, Framed, FramedVflip, Quarters
  <1>3. CASE source.type = "Lipstick" /\ trans \in Framed
    <2>1. t = IF y THEN Inverted[LipstickPoses[p + 1]]
                   ELSE LipstickPoses[p + 1]
      BY <1>3 DEF FrameTrans, TransForYinverted
    <2>2. t \in Framed \cup FramedVflip
      BY <1>1, <2>1, InvertedFacts
    <2> QED
      BY <1>2, <1>3, <2>2 DEF Equipped
  <1>4. CASE source.type = "Lipstick" /\ trans \notin Framed
    <2>1. trans \in {"Scale"} \cup Quarters
      BY <1>4, <1>2 DEF Equipped
    <2>2. t = IF y THEN Inverted[trans] ELSE trans
      BY <1>2, <1>4, <2>1 DEF FrameTrans, TransForYinverted
    <2>3. t \in Plain /\ (t \in Transposing <=> trans \in Transposing)
      BY <1>2, <2>1, <2>2, InvertedFacts
    <2> QED
      BY <1>2, <2>1, <2>3 DEF Equipped
  <1>5. CASE source.type # "Lipstick" /\ trans \in Framed
    <2>1. t \in Framed
      BY <1>1, <1>5 DEF FrameTrans
    <2> QED
      BY <1>2, <1>5, <2>1 DEF Equipped
  <1>6. CASE source.type # "Lipstick" /\ trans \notin Framed
    <2>1. trans \in {"Off", "Scale"} \cup Quarters
      BY <1>2, <1>6 DEF Equipped
    <2>2. t = trans
      BY <1>2, <1>6, <2>1 DEF FrameTrans
    <2> QED
      BY <1>2, <2>1, <2>2 DEF Equipped
  <1> QED
    BY <1>3, <1>4, <1>5, <1>6

\* The filters initAvVideoFilters makes are those the transformation needs.
LEMMA NeededFacts ==
  ASSUME source \in Sources, Chosen,
         encoded = TransDim(source.dim, trans, source.scale),
         trans' = NeededTrans, filters' = NeededFilters,
         UNCHANGED <<source, encoded, exact>>
  PROVE  Equipped'
  <1>1. /\ {"Scale"} \cup Quarters \subseteq Plain
        /\ {"Frame169", "Frame169Rot90"} \subseteq Framed
        /\ "Off" \notin Plain \cup Framed /\ Plain \cap Framed = {}
    BY DEF Plain, Framed, Quarters
  <1>2. NeededTrans \in {"Off", "Scale", "Frame169", "Frame169Rot90"}
                          \cup Quarters
    BY DEF NeededTrans, Chosen
  <1>3. NeededTrans = "Off" => trans = "Off" /\ exact /\ encoded = source.dim
    BY <1>1 DEF NeededTrans
  <1>4. NeededTrans = "Off" => source.type # "Lipstick"
    BY <1>3, SourceFacts, TransDimFacts
  <1>5. /\ NeededTrans \in Plain => NeededFilters = Plain
        /\ NeededTrans \in Framed =>
             NeededFilters = Framed \cup
               (IF source.type = "Lipstick" THEN FramedVflip ELSE {})
    BY <1>1 DEF NeededFilters
  <1> QED
    BY <1>2, <1>3, <1>4, <1>5 DEF Equipped

----------------------------------------------------------------------------
LEMMA InitIInv == Init => IInv
  <1> SUFFICES ASSUME Init PROVE IInv
    OBVIOUS
  <1>1. encoded \in [w : Nat, h : Nat]
    BY DEF Init, NoSize
  <1>2. pose \in 0..3
    BY DEF Init
  <1>3. yinverted \in BOOLEAN
    BY Zenon DEF Init
  <1> QED
    BY <1>1, <1>2, <1>3 DEF Init, IInv

LEMMA NextIInv == IInv /\ [Next]_vars => IInv'
  <1> SUFFICES ASSUME IInv, [Next]_vars PROVE IInv'
    OBVIOUS
  <1> USE DEF choice, device
  <1>1. CASE InitVideoTrans
    <2>1. source.type # "DroidCam" => Chosen'
      BY <1>1, SourceFacts, OrientationFacts DEF InitVideoTrans, IInv, Chosen
    <2> QED
      BY <1>1, <2>1 DEF InitVideoTrans, IInv
  <1>2. CASE InitVideoEncoder
    <2>1. encoded' \in [w : Nat, h : Nat]
      BY <1>2, SourceFacts, TransDimFacts DEF InitVideoEncoder, IInv
    <2>2. Chosen'
      BY <1>2 DEF InitVideoEncoder, IInv, Chosen
    <2>3. encoded' = TransDim(source.dim, trans, source.scale)'
      BY <1>2 DEF InitVideoEncoder
    <2> QED
      BY <1>2, <2>1, <2>2, <2>3 DEF InitVideoEncoder, IInv
  <1>3. CASE InitVideoFilters
    <2>1. phase' = "ready" => Equipped'
      BY <1>3, NeededFacts DEF InitVideoFilters, IInv
    <2> QED
      BY <1>3, <2>1 DEF InitVideoFilters, IInv
  <1>4. CASE Start
    <2>1. Equipped => Equipped'
      BY <1>4 DEF Start, Equipped
    <2> QED
      BY <1>4, <2>1 DEF Start, IInv
  <1>5. CASE TurnDevice
    <2>1. Equipped => Equipped'
      BY <1>5 DEF TurnDevice, Equipped, built
    <2> QED
      BY <1>5, <2>1 DEF TurnDevice, IInv, built
  <1>6. CASE FrameRecorded
    <2>1. Equipped => Equipped'
      BY <1>6 DEF FrameRecorded, Equipped, built
    <2> QED
      BY <1>6, <2>1 DEF FrameRecorded, IInv, built
  <1>7. CASE EncodeVideoFrame
    <2>1. Equipped /\ Equipped'
      BY <1>7 DEF EncodeVideoFrame, IInv, Equipped, built
    <2>2. /\ shown' \in filters \cup {"Off"}
          /\ shown' = "Off" => trans = "Off"
          /\ shown' \in Plain =>
               (shown' \in Transposing <=> trans \in Transposing)
      BY <1>7, <2>1, FrameTransFacts DEF EncodeVideoFrame, IInv
    <2> QED
      BY <1>7, <2>1, <2>2 DEF EncodeVideoFrame, IInv, built
  <1>8. CASE UNCHANGED vars
    <2>1. /\ Equipped => Equipped'
          /\ Chosen => Chosen'
      BY <1>8 DEF vars, built, Equipped, Chosen
    <2> QED
      BY <1>8, <2>1 DEF vars, built, IInv
  <1> QED
    BY <1>1, <1>2, <1>3, <1>4, <1>5, <1>6, <1>7, <1>8 DEF Next

LEMMA IInvEncodable == IInv => FramesAreEncodable
  <1> SUFFICES ASSUME IInv PROVE FramesAreEncodable
    OBVIOUS
  <1>1. phase # "aborted"
    BY DEF IInv
  <1>2. ASSUME shown # "none"
        PROVE  ShownSize = encoded /\ (shown = "Off" => exact)
    <2>1. Equipped /\ (shown = "Off" => trans = "Off")
      BY <1>2 DEF IInv
    <2>2. Swap([w |-> encoded.h, h |-> encoded.w]) = encoded
      BY DEF IInv, Swap
    <2>3. FilterSize(shown) = encoded
      BY <2>2 DEF FilterSize
    <2> QED
      BY <2>1, <2>3 DEF ShownSize, Equipped
  <1> QED
    BY <1>1, <1>2 DEF FramesAreEncodable, IInv

\* No frame of a caster that has been started ends the program for want of a
\* filter, or reaches the encoder in a size or a pixel format it was not
\* opened for (filterVideoIfNeeded, encodeVideoFrame).
THEOREM EveryFrameIsEncodable == Spec => []FramesAreEncodable
  BY InitIInv, NextIInv, IInvEncodable, PTL DEF Spec

----------------------------------------------------------------------------
(* How the picture is turned.                                              *)

\* The transformations that do not mirror, and the quarters they turn by.
Unmirrored == {"Off", "Scale"} \cup Quarters \cup Framed

Turns(t) ==
  CASE t \in {"Off", "Scale", "Frame169Rot270"} -> 0
    [] t \in {"VflipHflip", "Frame169Rot90"} -> 2
    [] t \in {"TransClock", "Frame169"} -> Clock
    [] OTHER -> 4 - Clock

\* What the filters do to a picture, one by one.
LEMMA EffectTable ==
  /\ Effect("Off") = Turned(0, FALSE)
  /\ Effect("Scale") = Turned(0, FALSE)
  /\ Effect("Frame169Rot270") = Turned(0, FALSE)
  /\ Effect("VflipHflip") = Turned(2, FALSE)
  /\ Effect("Frame169Rot90") = Turned(2, FALSE)
  /\ Effect("TransClock") = Turned(Clock, FALSE)
  /\ Effect("Frame169") = Turned(Clock, FALSE)
  /\ Effect("TransCclock") = Turned(4 - Clock, FALSE)
  /\ Effect("Frame169Rot180") = Turned(4 - Clock, FALSE)
  /\ Effect("Vflip") = Turned(0, TRUE)
  /\ Effect("Frame169VflipRot270") = Turned(0, TRUE)
  /\ Effect("Hflip") = Turned(2, TRUE)
  /\ Effect("Frame169VflipRot90") = Turned(2, TRUE)
  /\ Effect("TransClockFlip") = Turned(4 - Clock, TRUE)
  /\ Effect("Frame169Vflip") = Turned(4 - Clock, TRUE)
  /\ Effect("TransCclockFlip") = Turned(Clock, TRUE)
  /\ Effect("Frame169VflipRot180") = Turned(Clock, TRUE)
  BY DEF Effect

\* A transformation that does not mirror, and its counterpart for a buffer
\* that is upside down.
LEMMA EffectFacts ==
  ASSUME NEW t \in Unmirrored
  PROVE  /\ Effect(t) = Turned(Turns(t), FALSE)
         /\ Effect(Inverted[t]) = Turned(4 - Turns(t), TRUE)
         /\ Turns(t) \in 0..3
  <1>1. Clock \in {1, 3} /\ 4 - (4 - Clock) = Clock
    BY DEF Clock
  <1>2. Turned(4 - 0, TRUE) = Turned(0, TRUE) /\ Turned(4 - 2, TRUE) = Turned(2, TRUE)
    BY DEF Turned
  <1>3. CASE t \in {"Off", "Scale", "Frame169Rot270"}
    <2>1. Turns(t) = 0 /\ Inverted[t] \in {"Vflip", "Frame169VflipRot270"}
      BY <1>3 DEF Turns, Inverted
    <2>2. Effect(t) = Turned(0, FALSE) /\ Effect(Inverted[t]) = Turned(0, TRUE)
      BY <1>3, <2>1, EffectTable
    <2>3. Turned(4 - Turns(t), TRUE) = Turned(0, TRUE)
      <3>1. (4 - Turns(t)) % 4 = 0 % 4
        BY <2>1
      <3> QED
        BY <3>1 DEF Turned
    <2>4. Effect(Inverted[t]) = Turned(4 - Turns(t), TRUE)
      BY <2>2, <2>3, Zenon
    <2>5. Effect(t) = Turned(Turns(t), FALSE) /\ Turns(t) \in 0..3
      BY <2>1, <2>2
    <2> QED
      BY <2>4, <2>5
  <1>4. CASE t \in {"VflipHflip", "Frame169Rot90"}
    <2>1. Turns(t) = 2 /\ Inverted[t] \in {"Hflip", "Frame169VflipRot90"}
      BY <1>4 DEF Turns, Inverted
    <2>2. Effect(t) = Turned(2, FALSE) /\ Effect(Inverted[t]) = Turned(2, TRUE)
      BY <1>4, <2>1, EffectTable
    <2> QED
      BY <1>2, <2>1, <2>2
  <1>5. CASE t \in {"TransClock", "Frame169"}
    <2>1. Turns(t) = Clock /\ Inverted[t] \in {"TransClockFlip", "Frame169Vflip"}
      BY <1>5 DEF Turns, Inverted
    <2>2. /\ Effect(t) = Turned(Clock, FALSE)
          /\ Effect(Inverted[t]) = Turned(4 - Clock, TRUE)
      BY <1>5, <2>1, EffectTable
    <2> QED
      BY <1>1, <2>1, <2>2
  <1>6. CASE t \in {"TransCclock", "Frame169Rot180"}
    <2>1. Turns(t) = 4 - Clock /\ Inverted[t] \in {"TransCclockFlip", "Frame169VflipRot180"}
      BY <1>6 DEF Turns, Inverted
    <2>2. /\ Effect(t) = Turned(4 - Clock, FALSE)
          /\ Effect(Inverted[t]) = Turned(Clock, TRUE)
      BY <1>6, <2>1, EffectTable
    <2> QED
      BY <1>1, <2>1, <2>2
  <1> QED
    BY <1>3, <1>4, <1>5, <1>6 DEF Unmirrored, Quarters, Framed

\* A flip of a bottom-up buffer is undone.
LEMMA PictureOf ==
  ASSUME NEW p, NEW e
  PROVE  /\ Effect(FrameTrans(p, TRUE)) = [q |-> e, mirrored |-> TRUE] =>
              Picture(p, TRUE) = [q |-> e, mirrored |-> FALSE]
         /\ Effect(FrameTrans(p, FALSE)) = [q |-> e, mirrored |-> FALSE] =>
              Picture(p, FALSE) = [q |-> e, mirrored |-> FALSE]
  <1>1. ASSUME Effect(FrameTrans(p, TRUE)) = [q |-> e, mirrored |-> TRUE]
        PROVE  Picture(p, TRUE) = [q |-> e, mirrored |-> FALSE]
    <2> DEFINE d == [q |-> e, mirrored |-> TRUE]
    <2>1. Picture(p, TRUE) = [d EXCEPT !.mirrored = (d.mirrored # TRUE)]
      BY <1>1 DEF Picture
    <2>2. (d.mirrored # TRUE) = FALSE
      OBVIOUS
    <2> QED
      BY <2>1, <2>2
  <1>2. ASSUME Effect(FrameTrans(p, FALSE)) = [q |-> e, mirrored |-> FALSE]
        PROVE  Picture(p, FALSE) = [q |-> e, mirrored |-> FALSE]
    <2> DEFINE d == [q |-> e, mirrored |-> FALSE]
    <2>1. Picture(p, FALSE) = [d EXCEPT !.mirrored = (d.mirrored # FALSE)]
      BY <1>2 DEF Picture
    <2>2. (d.mirrored # FALSE) = FALSE
      OBVIOUS
    <2> QED
      BY <2>1, <2>2
  <1> QED
    BY <1>1, <1>2

\* The transformation of a frame is one that does not mirror, or its counterpart
\* when the buffer is upside down; so the picture is not mirrored, and turned
\* the other way round.
LEMMA PictureFacts ==
  ASSUME NEW p, NEW y \in BOOLEAN, NEW t \in Unmirrored,
         FrameTrans(p, y) = TransForYinverted(t, y)
  PROVE  /\ Picture(p, y).q = IF y THEN (4 - Turns(t)) % 4 ELSE Turns(t) % 4
         /\ ~Picture(p, y).mirrored
  <1>1. CASE y = TRUE
    <2>1. Effect(FrameTrans(p, TRUE)) = [q |-> (4 - Turns(t)) % 4, mirrored |-> TRUE]
      BY <1>1, EffectFacts DEF TransForYinverted, Turned
    <2>2. Picture(p, TRUE) = [q |-> (4 - Turns(t)) % 4, mirrored |-> FALSE]
      BY <2>1, PictureOf
    <2>3. Picture(p, y) = [q |-> (4 - Turns(t)) % 4, mirrored |-> FALSE]
      BY <1>1, <2>2, Zenon
    <2>4. Picture(p, y).q = (4 - Turns(t)) % 4 /\ Picture(p, y).mirrored = FALSE
      BY <2>3
    <2> QED
      BY <1>1, <2>4
  <1>2. CASE y = FALSE
    <2>1. Effect(FrameTrans(p, FALSE)) = [q |-> Turns(t) % 4, mirrored |-> FALSE]
      BY <1>2, EffectFacts DEF TransForYinverted, Turned
    <2>2. Picture(p, FALSE) = [q |-> Turns(t) % 4, mirrored |-> FALSE]
      BY <2>1, PictureOf
    <2>3. Picture(p, y) = [q |-> Turns(t) % 4, mirrored |-> FALSE]
      BY <1>2, <2>2, Zenon
    <2>4. Picture(p, y).q = Turns(t) % 4 /\ Picture(p, y).mirrored = FALSE
      BY <2>3
    <2> QED
      BY <1>2, <2>4
  <1> QED
    BY <1>1, <1>2

\* What initVideoTrans chose.
Asked ==
  IF source.trans = "Frame169" THEN "Frame169" ELSE OrientationToTrans(request, source)

\* The transformation is the one asked for, or a scale where none was; only what
\* knows its pose is turned, only the compositor delivers bottom-up buffers, and
\* the stream's header has its rotation.
AsAsked ==
  /\ phase \in {"turned", "encoder"} => trans = Asked
  /\ phase \in {"ready", "running"} /\ source.type # "DroidCam" =>
       trans = Asked \/ (Asked = "Off" /\ trans = "Scale")
  /\ yinverted => source.type = "Lipstick"
  /\ phase = "running" => rotation = StreamRotation

\* Each step keeps it.
LEMMA AsAskedStep == IInv /\ AsAsked /\ [Next]_vars => AsAsked'
  <1> SUFFICES ASSUME IInv, AsAsked, [Next]_vars PROVE AsAsked'
    OBVIOUS
  <1>1. UNCHANGED choice
    BY DEF Next, vars, InitVideoTrans, InitVideoEncoder, InitVideoFilters, Start,
       TurnDevice, FrameRecorded, EncodeVideoFrame
  <1>2. UNCHANGED <<source, Asked, StreamRotation>>
    BY <1>1 DEF choice, Asked, OrientationToTrans, StreamRotation
  <1>3. CASE InitVideoTrans
    BY <1>2, <1>3 DEF InitVideoTrans, AsAsked, Asked, IInv, device
  <1>4. CASE InitVideoEncoder
    BY <1>2, <1>4 DEF InitVideoEncoder, AsAsked, IInv, device
  <1>5. CASE InitVideoFilters
    BY <1>2, <1>5 DEF InitVideoFilters, NeededTrans, AsAsked, IInv, device
  <1>6. CASE Start
    BY <1>2, <1>6 DEF Start, AsAsked, IInv, device
  <1>7. CASE TurnDevice \/ FrameRecorded
    BY <1>2, <1>7 DEF TurnDevice, FrameRecorded, AsAsked, IInv, built
  <1>8. CASE EncodeVideoFrame
    BY <1>2, <1>8 DEF EncodeVideoFrame, AsAsked, IInv, built, device
  <1>9. CASE UNCHANGED vars
    BY <1>2, <1>9 DEF vars, AsAsked, IInv, built, device
  <1> QED
    BY <1>3, <1>4, <1>5, <1>6, <1>7, <1>8, <1>9 DEF Next

\* The transformation of a frame before a buffer that is upside down is seen to.
Base(p) ==
  IF trans \notin Framed THEN trans
  ELSE IF source.type = "Lipstick" THEN LipstickPoses[p + 1]
  ELSE IF source.type = "DroidCamRaw" THEN CameraPoses[p + 1]
  ELSE trans

\* It does not mirror.
LEMMA BaseFacts ==
  ASSUME IInv, AsAsked, Filtering, NEW p \in 0..3
  PROVE  /\ Base(p) \in Unmirrored
         /\ FrameTrans(p, yinverted) = TransForYinverted(Base(p), yinverted)
  <1>1. Equipped /\ source.type # "DroidCam"
    BY DEF IInv, Filtering
  <1>2. trans \in Unmirrored /\ trans \notin FramedVflip
    BY <1>1 DEF Equipped, Unmirrored, Quarters, Framed, FramedVflip
  <1>3. LipstickPoses[p + 1] \in Framed /\ CameraPoses[p + 1] \in Framed
    <2>1. p + 1 \in {1, 2, 3, 4}
      OBVIOUS
    <2> QED
      BY <2>1 DEF LipstickPoses, CameraPoses, Framed
  <1>4. Base(p) \in Unmirrored
    BY <1>2, <1>3 DEF Base, Unmirrored
  <1>5. CASE source.type = "Lipstick"
    <2> DEFINE t == IF trans \in Framed \cup FramedVflip
                    THEN LipstickPoses[p + 1] ELSE trans
    <2>1. t = Base(p)
      BY <1>2, <1>5 DEF Base
    <2>2. FrameTrans(p, yinverted) = TransForYinverted(t, yinverted)
      BY <1>5 DEF FrameTrans
    <2> HIDE DEF t
    <2> QED
      BY <1>4, <2>1, <2>2, Zenon
  <1>6. CASE source.type # "Lipstick"
    <2>1. yinverted = FALSE
      BY <1>6 DEF IInv, AsAsked
    <2>2. FrameTrans(p, yinverted) = Base(p)
      BY <1>2, <1>6 DEF FrameTrans, Base
    <2>3. TransForYinverted(Base(p), FALSE) = Base(p)
      BY DEF TransForYinverted
    <2> QED
      BY <1>4, <2>1, <2>2, <2>3, Zenon
  <1> QED
    BY <1>4, <1>5, <1>6

\* The picture of a frame.
LEMMA Pictures ==
  ASSUME IInv, AsAsked, Filtering, NEW p \in 0..3
  PROVE  /\ Picture(p, yinverted).q = IF yinverted THEN (4 - Turns(Base(p))) % 4
                                      ELSE Turns(Base(p)) % 4
         /\ ~Picture(p, yinverted).mirrored
  BY BaseFacts, PictureFacts DEF IInv

\* The screen is the front of the device, and a camera of compressed video lies
\* on its side.
LEMMA SourceSides ==
  ASSUME NEW s \in Sources
  PROVE  /\ s.type = "Lipstick" => s.direction = "front"
         /\ s.type = "DroidCam" => s.orientation \in {"landscape", "inverted_landscape"}
  <1>1. CASE s \in LipstickSources
    BY <1>1 DEF LipstickSources, Source
  <1>2. CASE s \in DroidCamSources
    BY <1>2 DEF DroidCamSources, Source
  <1>3. CASE s \in DroidCamRawSources
    BY <1>3 DEF DroidCamRawSources, Source
  <1>4. CASE s \in TestSources
    BY <1>4 DEF TestSources, Source
  <1>5. CASE s \in DemuxerSources
    BY <1>5 DEF DemuxerSources, Source
  <1> QED
    BY <1>1, <1>2, <1>3, <1>4, <1>5 DEF Sources

\* No picture is mirrored.
LEMMA UprightMirrored == IInv /\ AsAsked => NeverMirrored
  BY Pictures DEF NeverMirrored

\* The picture follows the device.
LEMMA UprightTurns == IInv /\ AsAsked => TurnsAreFollowed
  <1> SUFFICES ASSUME IInv, AsAsked, Filtering, HasPose, trans \in Framed,
                      NEW p \in 0..3
               PROVE  Picture((p + 1) % 4, yinverted).q =
                        (Picture(p, yinverted).q + Sense(yinverted)) % 4
    BY DEF TurnsAreFollowed
  <1> DEFINE n == (p + 1) % 4
             a == Turns(Base(p))
             b == Turns(Base(n))
  <1>1. n \in 0..3
    OBVIOUS
  <1>2. b = (a + Clock) % 4 /\ a \in 0..3 /\ b \in 0..3 /\ Clock \in {1, 3}
    <2>1. Clock \in {1, 3} /\ (Clock = 3 <=> source.direction = "front")
      BY DEF Clock
    <2>2. a \in 0..3 /\ b \in 0..3
      BY <1>1, BaseFacts, EffectFacts
    <2>3. CASE source.type = "Lipstick"
      <3>1. Clock = 3
        BY <2>1, <2>3, SourceSides DEF IInv
      <3>2. Base(p) = LipstickPoses[p + 1] /\ Base(n) = LipstickPoses[n + 1]
        BY <2>3 DEF Base
      <3>3. /\ LipstickPoses[1] = "Frame169Rot270" /\ LipstickPoses[2] = "Frame169"
            /\ LipstickPoses[3] = "Frame169Rot90" /\ LipstickPoses[4] = "Frame169Rot180"
        BY DEF LipstickPoses
      <3>4. /\ Turns("Frame169Rot270") = 0 /\ Turns("Frame169") = 3
            /\ Turns("Frame169Rot90") = 2 /\ Turns("Frame169Rot180") = 1
        BY <3>1 DEF Turns
      <3>5. <<p, n>> \in {<<0, 1>>, <<1, 2>>, <<2, 3>>, <<3, 0>>}
        OBVIOUS
      <3> HIDE DEF n
      <3>6. <<a, b>> \in {<<0, 3>>, <<3, 2>>, <<2, 1>>, <<1, 0>>}
        BY <3>2, <3>3, <3>4, <3>5
      <3> QED
        BY <2>1, <2>2, <3>1, <3>6
    <2>4. CASE source.type = "DroidCamRaw"
      <3>2. Base(p) = CameraPoses[p + 1] /\ Base(n) = CameraPoses[n + 1]
        BY <2>4 DEF Base
      <3>3. /\ CameraPoses[1] = "Frame169" /\ CameraPoses[2] = "Frame169Rot90"
            /\ CameraPoses[3] = "Frame169Rot180" /\ CameraPoses[4] = "Frame169Rot270"
        BY DEF CameraPoses
      <3>4. /\ Turns("Frame169Rot270") = 0 /\ Turns("Frame169") = Clock
            /\ Turns("Frame169Rot90") = 2 /\ Turns("Frame169Rot180") = 4 - Clock
        BY DEF Turns
      <3>5. <<p, n>> \in {<<0, 1>>, <<1, 2>>, <<2, 3>>, <<3, 0>>}
        OBVIOUS
      <3> HIDE DEF n
      <3>6. <<a, b>> \in {<<Clock, 2>>, <<2, 4 - Clock>>, <<4 - Clock, 0>>, <<0, Clock>>}
        BY <3>2, <3>3, <3>4, <3>5
      <3>7. CASE Clock = 1
        BY <3>6, <3>7
      <3>8. CASE Clock = 3
        BY <3>6, <3>8
      <3> QED
        BY <2>1, <2>2, <3>7, <3>8
    <2> QED
      BY <2>3, <2>4 DEF HasPose
  <1> HIDE DEF n, a, b
  <1>3. /\ Picture(p, yinverted).q = IF yinverted THEN (4 - a) % 4 ELSE a % 4
        /\ Picture(n, yinverted).q = IF yinverted THEN (4 - b) % 4 ELSE b % 4
    BY <1>1, Pictures DEF a, b
  <1>4. yinverted \in BOOLEAN
    BY DEF IInv
  <1>5. Sense(yinverted) = IF yinverted THEN 4 - Clock ELSE Clock
    BY <1>4 DEF Sense, Clock
  <1>6. /\ (4 - b) % 4 = (((4 - a) % 4) + (4 - Clock)) % 4
        /\ b % 4 = ((a % 4) + Clock) % 4
    BY <1>2
  <1> QED
    BY <1>3, <1>4, <1>5, <1>6 DEF n

\* The quarters from the source's orientation to the one asked for.
Wanted ==
  IF request = "auto" THEN 0 ELSE Rot[request] - Rot[source.orientation]

\* The transformation that was asked for turns by so many quarters.
LEMMA AskedTurns ==
  ASSUME source \in Sources, request \in Orientations \cup {"auto"}, source.trans = "Off"
  PROVE  /\ Wanted \in -3 .. 3
         /\ Wanted % 4 = 0 => Asked = "Off"
         /\ Wanted % 4 = 1 => Asked = "TransClock"
         /\ Wanted % 4 = 2 => Asked = "VflipHflip"
         /\ Wanted % 4 = 3 => Asked = "TransCclock"
  <1>1. Asked = OrientationToTrans(request, source)
    BY DEF Asked
  <1>2. CASE request = "auto"
    BY <1>1, <1>2 DEF OrientationToTrans, Wanted
  <1>3. CASE request # "auto"
    <2>1. Rot[request] \in 0..3 /\ Rot[source.orientation] \in 0..3
      BY <1>3, SourceFacts DEF Rot, Orientations
    <2>2. Wanted \in -3 .. 3
      BY <1>3, <2>1 DEF Wanted
    <2>3. Asked = IF Wanted % 4 = 0 THEN "Off" ELSE QuarterTrans[Wanted % 4]
      BY <1>1, <1>3 DEF OrientationToTrans, Wanted
    <2>4. /\ QuarterTrans[1] = "TransClock" /\ QuarterTrans[2] = "VflipHflip"
          /\ QuarterTrans[3] = "TransCclock"
      BY DEF QuarterTrans
    <2> QED
      BY <2>2, <2>3, <2>4
  <1> QED
    BY <1>2, <1>3

\* What was asked for is what is seen.
LEMMA UprightRequest == IInv /\ AsAsked => RequestIsHonoured
  <1> SUFFICES ASSUME IInv, AsAsked PROVE RequestIsHonoured
    OBVIOUS
  <1>1. source \in Sources /\ request \in Orientations \cup {"auto"} /\ pose \in 0..3
    BY DEF IInv
  <1>2. ASSUME Filtering, source.trans = "Off"
        PROVE  Picture(pose, yinverted).q = (Sense(yinverted) * Wanted) % 4
    <2> DEFINE a == Turns(Base(pose))
    <2>1. Wanted \in -3 .. 3 /\ Clock \in {1, 3}
      BY <1>1, <1>2, AskedTurns DEF Clock
    <2>2. trans = Asked \/ (Asked = "Off" /\ trans = "Scale")
      BY <1>2 DEF AsAsked, Filtering
    <2>3. Asked \in {"Off"} \cup Quarters
      BY <1>1, <1>2, OrientationFacts DEF Asked
    <2>4. Base(pose) = trans
      BY <2>2, <2>3 DEF Base, Quarters, Framed
    <2>5. /\ Wanted % 4 = 0 => a = 0
          /\ Wanted % 4 = 1 => a = Clock
          /\ Wanted % 4 = 2 => a = 2
          /\ Wanted % 4 = 3 => a = 4 - Clock
      <3>1. /\ Turns("Off") = 0 /\ Turns("Scale") = 0 /\ Turns("TransClock") = Clock
            /\ Turns("VflipHflip") = 2 /\ Turns("TransCclock") = 4 - Clock
        BY DEF Turns
      <3> QED
        BY <1>1, <1>2, <2>2, <2>4, <3>1, AskedTurns
    <2> HIDE DEF a
    <2>6. Picture(pose, yinverted).q = IF yinverted THEN (4 - a) % 4 ELSE a % 4
      BY <1>1, <1>2, Pictures DEF a
    <2>7. yinverted \in BOOLEAN
      BY DEF IInv
    <2>8. Sense(yinverted) = IF yinverted THEN 4 - Clock ELSE Clock
      BY <2>7 DEF Sense, Clock
    <2>9. /\ (4 - a) % 4 = ((4 - Clock) * Wanted) % 4
          /\ a % 4 = (Clock * Wanted) % 4
      <3>1. CASE Clock = 1
        <4>1. (4 - a) % 4 = (3 * Wanted) % 4 /\ a % 4 = (1 * Wanted) % 4
          BY <2>1, <2>5, <3>1
        <4> QED
          BY <3>1, <4>1
      <3>2. CASE Clock = 3
        <4>1. (4 - a) % 4 = (1 * Wanted) % 4 /\ a % 4 = (3 * Wanted) % 4
          BY <2>1, <2>5, <3>2
        <4> QED
          BY <3>2, <4>1
      <3> QED
        BY <2>1, <3>1, <3>2
    <2> QED
      BY <2>6, <2>7, <2>8, <2>9
  <1>3. ASSUME phase = "running", source.type = "DroidCam", container = "mp4"
        PROVE  rotation = Wanted % 4
    <2>1. source.orientation \in {"landscape", "inverted_landscape"}
      BY <1>1, <1>3, SourceSides
    <2>2. Rot[source.orientation] \in {0, 2}
      BY <2>1 DEF Rot
    <2>3. rotation = IF request \in {"auto", source.orientation} THEN 0
                     ELSE (Rot[request] + Rot[source.orientation]) % 4
      BY <1>3 DEF AsAsked, StreamRotation
    <2>4. CASE request = "auto"
      BY <2>3, <2>4 DEF Wanted
    <2>5. CASE request # "auto"
      <3>1. Rot[request] \in 0..3
        BY <1>1, <2>5 DEF Rot, Orientations
      <3>2. Wanted = Rot[request] - Rot[source.orientation]
        BY <2>5 DEF Wanted
      <3>3. request = source.orientation => Wanted % 4 = 0
        BY <2>2, <3>2
      <3>4. (Rot[request] + Rot[source.orientation]) % 4 = Wanted % 4
        BY <2>2, <3>1, <3>2
      <3> QED
        BY <2>3, <2>5, <3>3, <3>4
    <2> QED
      BY <2>4, <2>5
  <1> QED
    BY <1>2, <1>3 DEF RequestIsHonoured, Wanted

\* A viewer sees every frame the right way up: not mirrored, turned as the device
\* is or as the client has asked, by a filter or by the header of the stream
\* (initVideoTrans, orientationToTrans, transForYinverted, filterVideoIfNeeded,
\* setVideoStreamRotation).
THEOREM EveryPictureIsUpright == Spec => []PictureIsUpright
  <1>1. Init => AsAsked
    BY DEF Init, AsAsked
  <1>2. IInv /\ AsAsked => PictureIsUpright
    BY UprightMirrored, UprightTurns, UprightRequest DEF PictureIsUpright
  <1> QED
    BY <1>1, <1>2, InitIInv, NextIInv, AsAskedStep, PTL DEF Spec

----------------------------------------------------------------------------
(* Which pictures do not fit their frame.                                  *)

\* A caster is lost in initAvVideoFilters for a framing filter that cannot be
\* made.
Refused ==
  phase = "failed" =>
    /\ trans \in Framed
    /\ encoded = TransDim(source.dim, trans, source.scale)
    /\ \E t \in Framed \cup FramedVflip : ~CanPad(t)

\* Each step keeps it.
LEMMA RefusedStep == IInv /\ Refused /\ [Next]_vars => Refused'
  <1> SUFFICES ASSUME IInv, Refused, [Next]_vars, phase' = "failed"
               PROVE  Refused'
    BY DEF Refused
  <1>1. CASE InitVideoFilters
    <2>1. /\ Chosen /\ encoded = TransDim(source.dim, trans, source.scale)
          /\ trans' = NeededTrans /\ UNCHANGED <<source, encoded>>
      BY <1>1 DEF InitVideoFilters, IInv, choice
    <2>2. PICK t \in NeededFilters \ Plain : ~CanPad(t)
      BY <1>1 DEF InitVideoFilters
    <2>3. NeededTrans \notin {"Off"} \cup Plain /\ t \in Framed \cup FramedVflip
      BY <2>2 DEF NeededFilters
    <2>4. trans' = trans /\ trans \in Framed
      BY <2>1, <2>3 DEF NeededTrans, Chosen, Plain, Quarters, Framed
    <2>5. CanPad(t)' <=> CanPad(t)
      BY <2>1 DEF CanPad, Fitted, Thin
    <2> QED
      BY <2>1, <2>2, <2>3, <2>4, <2>5 DEF Refused
  <1>2. CASE UNCHANGED <<source, trans, encoded, phase>>
    BY <1>2 DEF Refused, CanPad, Fitted, Thin
  <1>3. CASE UNCHANGED vars
    BY <1>2, <1>3 DEF vars, choice, built
  <1> QED
    BY <1>1, <1>2, <1>3 DEF Next, InitVideoTrans, InitVideoEncoder, Start, TurnDevice,
       FrameRecorded, EncodeVideoFrame, IInv, choice, built

\* The frame of a picture whose long side is scaled to high.
LEMMA FrameSize ==
  ASSUME NEW high \in Nat
  PROVE  LET w == 2 * (((16 * high + 8) \div 9) \div 2)
             h == 2 * (high \div 2)
         IN  /\ w \in Nat /\ h \in Nat /\ h <= w
             /\ 16 * h < 9 * w + 18
             /\ h >= 4 => w <= 2 * h
  OBVIOUS

\* What FFmpeg rounds to more than n is more than n and a half.
LEMMA RescaleFacts ==
  ASSUME NEW a \in Nat, NEW b \in Nat, NEW c \in Nat \ {0}, NEW n \in Nat,
         ~(Rescale(a, b, c) <= n)
  PROVE  2 * (n * c) + c <= 2 * (a * b)
  <1> DEFINE d == a * b + c \div 2
  <1>1. a * b \in Nat /\ n * c \in Nat /\ c \div 2 \in Nat /\ 2 * (c \div 2) <= c
    OBVIOUS
  <1>2. d \in Nat
    BY <1>1
  <1>3. ~(d \div c <= n)
    BY DEF Rescale
  <1> HIDE DEF d
  <1>4. (n + 1) * c <= d
    BY <1>2, <1>3
  <1>5. (n + 1) * c = n * c + c
    OBVIOUS
  <1> QED
    BY <1>1, <1>4, <1>5 DEF d

\* A picture that is not longer than its frame, at either of its sides, fits.
LEMMA RefusedIsLong ==
  ASSUME source.dim \in Sizes, encoded \in [w : Nat, h : Nat],
         NEW high \in Nat,
         encoded.w = 2 * (((16 * high + 8) \div 9) \div 2),
         encoded.h = 2 * (high \div 2),
         NEW t, ~CanPad(t),
         NEW long, long = Max(source.dim.w, source.dim.h),
         NEW short, short = source.dim.w + source.dim.h - long
  PROVE  /\ 2 * encoded.h * (16 * short - 9 * long) < 27 * short
         /\ source.dim.w < source.dim.h /\ encoded.h >= 4 => long < 2 * short
  <1> DEFINE W == encoded.w
             H == encoded.h
             d == IF t \in Transposing THEN Swap(source.dim) ELSE source.dim
  <1>1. /\ W \in Nat /\ H \in Nat /\ H <= W /\ 16 * H < 9 * W + 18
        /\ H >= 4 => W <= 2 * H
    BY FrameSize
  <1>2. /\ long \in Nat \ {0} /\ short \in Nat \ {0} /\ short <= long
        /\ \/ source.dim.w = long /\ source.dim.h = short
           \/ source.dim.w = short /\ source.dim.h = long
        /\ source.dim.w < source.dim.h =>
             source.dim.w = short /\ source.dim.h = long /\ short < long
    BY DEF Sizes, Max
  <1>3. \/ d.w = long /\ d.h = short
        \/ d.w = short /\ d.h = long
    BY <1>2 DEF Swap
  <1>4. source.dim.w < source.dim.h /\ t \in Transposing =>
          d.w = long /\ d.h = short
    BY <1>2 DEF Swap
  <1>5. Thin(source.dim) <=> long \div short > 1
    BY <1>2 DEF Thin
  <1>6. Thin(source.dim) <=> long >= 2 * short
    <2>1. ASSUME long >= 2 * short
          PROVE  long \div short > 1
      BY <1>2, <2>1
    <2>2. ASSUME long < 2 * short
          PROVE  ~(long \div short > 1)
      BY <1>2, <2>2
    <2> QED
      BY <1>2, <1>5, <2>1, <2>2
  <1> HIDE DEF W, H, d
  <1>7. CASE Thin(source.dim) /\ t \in Transposing
    <2>1. ~(Rescale(W, d.h, d.w) <= H)
      BY <1>1, <1>7 DEF CanPad, Fitted, W, H, d
    <2>2. 2 * (H * d.w) + d.w <= 2 * (W * d.h)
      BY <1>1, <1>2, <1>3, <2>1, RescaleFacts
    <2>3. 2 * H * (16 * short - 9 * long) < 27 * short
      <3>1. 16 * short - 9 * long <= 0
        BY <1>2, <1>6, <1>7
      <3>2. 2 * H * (16 * short - 9 * long) <= 0
        BY <1>1, <1>2, <3>1
      <3> QED
        BY <1>1, <1>2, <3>2
    <2>4. ASSUME source.dim.w < source.dim.h, H >= 4
          PROVE  FALSE
      <3>1. 2 * (H * long) + long <= 2 * (W * short)
        BY <1>4, <1>7, <2>2, <2>4
      <3>2. W * short <= 2 * H * short
        BY <1>1, <1>2, <2>4
      <3>3. 2 * H * short <= H * long
        <4>1. H * (2 * short) <= H * long
          BY <1>1, <1>2, <1>6, <1>7
        <4> QED
          BY <1>1, <1>2, <4>1
      <3>4. W * short \in Nat /\ H * long \in Nat /\ 2 * H * short \in Nat
        BY <1>1, <1>2
      <3>5. W * short <= H * long
        BY <3>2, <3>3, <3>4
      <3> QED
        BY <1>2, <3>1, <3>4, <3>5
    <2> QED
      BY <2>3, <2>4 DEF H
  <1>8. CASE ~(Thin(source.dim) /\ t \in Transposing)
    <2>1. ~(Rescale(H, d.w, d.h) <= W)
      BY <1>1, <1>8 DEF CanPad, Fitted, W, H, d
    <2>2. 2 * (W * d.h) + d.h <= 2 * (H * d.w)
      BY <1>1, <1>2, <1>3, <2>1, RescaleFacts
    <2>3. d.w = long /\ d.h = short
      <3> SUFFICES ASSUME d.w = short, d.h = long PROVE FALSE
        BY <1>3
      <3>1. H * short <= W * long
        <4>1. H * short <= W * short /\ W * short <= W * long
          BY <1>1, <1>2
        <4>2. H * short \in Nat /\ W * short \in Nat /\ W * long \in Nat
          BY <1>1, <1>2
        <4> QED
          BY <4>1, <4>2
      <3>2. H * short \in Nat /\ W * long \in Nat
        BY <1>1, <1>2
      <3> QED
        BY <1>2, <2>2, <3>1, <3>2
    <2>4. 2 * (W * short) + short <= 2 * (H * long)
      BY <2>2, <2>3
    <2>5. 2 * H * (16 * short - 9 * long) < 27 * short
      <3>1. (16 * H) * short < (9 * W + 18) * short
        BY <1>1, <1>2
      <3>2. /\ (16 * H) * short = 16 * (H * short)
            /\ (9 * W + 18) * short = 9 * (W * short) + 18 * short
            /\ 2 * H * (16 * short - 9 * long) = 32 * (H * short) - 18 * (H * long)
        BY <1>1, <1>2
      <3>3. H * short \in Nat /\ W * short \in Nat /\ H * long \in Nat
        BY <1>1, <1>2
      <3> QED
        BY <1>2, <2>4, <3>1, <3>2, <3>3
    <2>6. source.dim.w < source.dim.h => long < 2 * short
      <3> SUFFICES ASSUME source.dim.w < source.dim.h PROVE ~Thin(source.dim)
        BY <1>2, <1>6
      <3>1. CASE t \in Transposing
        BY <1>8, <3>1
      <3>2. CASE t \notin Transposing
        BY <1>2, <2>3, <3>2 DEF d
      <3> QED
        BY <3>1, <3>2
    <2> QED
      BY <2>5, <2>6 DEF H
  <1> QED
    BY <1>7, <1>8

\* A cast is lost for the shape of its picture only if that is longer than 16:9
\* or nearly so, and, if it is upright, shorter than 2:1 (initAvVideoFilters,
\* computeTransDim, Dim::thin).
THEOREM FittingPicturesAreFramed == Spec => []FittingPictureIsFramed
  <1>1. Init => Refused
    BY DEF Init, Refused
  <1>2. IInv /\ Refused => FittingPictureIsFramed
    <2> SUFFICES ASSUME IInv, Refused, phase = "failed",
                        NEW long, long = Max(source.dim.w, source.dim.h),
                        NEW short, short = source.dim.w + source.dim.h - long
                 PROVE  /\ 2 * encoded.h * (16 * short - 9 * long) < 27 * short
                        /\ source.dim.w < source.dim.h /\ encoded.h >= 4 =>
                             long < 2 * short
      BY DEF FittingPictureIsFramed
    <2>1. /\ source.dim \in Sizes /\ source.scale \in {2, 4}
          /\ encoded \in [w : Nat, h : Nat]
      BY SourceFacts DEF IInv
    <2>2. /\ encoded = TransDim(source.dim, trans, source.scale)
          /\ trans \in Framed
      BY DEF Refused
    <2>3. PICK t : ~CanPad(t)
      BY DEF Refused
    <2> DEFINE high == Scaled(Max(source.dim.w, source.dim.h), source.scale)
    <2>4. high \in Nat
      BY <2>1 DEF Scaled, Max, Sizes
    <2>5. encoded = Even([w |-> (16 * high + 8) \div 9, h |-> high])
      BY <2>2 DEF TransDim
    <2> HIDE DEF high
    <2>6. /\ encoded.w = 2 * (((16 * high + 8) \div 9) \div 2)
          /\ encoded.h = 2 * (high \div 2)
      BY <2>5 DEF Even
    <2> QED
      BY <2>1, <2>3, <2>4, <2>6, RefusedIsLong
  <1> QED
    BY <1>1, <1>2, InitIInv, NextIInv, RefusedStep, PTL DEF Spec
=============================================================================
