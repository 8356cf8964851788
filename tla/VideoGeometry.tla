---------------------------- MODULE VideoGeometry ----------------------------
(***************************************************************************)
(* How a caster of caster.cpp turns, scales and frames the picture of its  *)
(* video source: the transformation chosen when the caster is made         *)
(* (initVideoTrans), the size of the encoded picture (computeTransDim),    *)
(* the FFmpeg filters made for it (initAvVideoFilters) and the filter      *)
(* picked for each frame (filterVideoIfNeeded), while the device is turned *)
(* and the compositor delivers its buffers upside down or not.             *)
(*                                                                         *)
(* A picture is abstracted to its size and to how it is turned: flipped    *)
(* top to bottom or not, then turned clockwise by q quarters.              *)
(***************************************************************************)
EXTENDS Integers

CONSTANTS
  Screens,   \* sizes [w, h] of a Sailfish screen, as the compositor tells it
  Captures   \* sizes a V4L2 camera or an X11 screen delivers

Sizes == [w : Nat \ {0}, h : Nat \ {0}]

ASSUME SizesAssumption == Screens \subseteq Sizes /\ Captures \subseteq Sizes

Plain   == {"Scale", "Vflip", "Hflip", "VflipHflip", "TransClock",
            "TransClockFlip", "TransCclock", "TransCclockFlip"}
Framed  == {"Frame169", "Frame169Rot90", "Frame169Rot180", "Frame169Rot270"}
FramedVflip == {"Frame169Vflip", "Frame169VflipRot90",
                "Frame169VflipRot180", "Frame169VflipRot270"}
Trans   == {"Off"} \cup Plain \cup Framed \cup FramedVflip

\* The transformations that swap the width and the height of the picture.
Transposing == {"TransClock", "TransClockFlip", "TransCclock",
                "TransCclockFlip", "Frame169", "Frame169Rot180",
                "Frame169Vflip", "Frame169VflipRot180"}

\* Orientations, as quarter turns (orientationToRot).
Rot == [landscape |-> 0, portrait |-> 1, inverted_landscape |-> 2,
        inverted_portrait |-> 3]
Orientations == DOMAIN Rot

----------------------------------------------------------------------------
(***************************************************************************)
(* The sources and what they say of themselves.                            *)
(***************************************************************************)

Max(a, b) == IF a > b THEN a ELSE b
Swap(d)   == [w |-> d.h, h |-> d.w]

SizeOrientation(d) == IF d.w < d.h THEN "portrait" ELSE "landscape"

\* scale: the quarters of the size that are left (VideoScale).
Source(type, direction, orientation, trans, scale, dim) ==
  [type |-> type, direction |-> direction, orientation |-> orientation,
   trans |-> trans, scale |-> scale, dim |-> dim]

LipstickSources ==
  { Source("Lipstick", "front", "portrait", "Off", 2, d) : d \in Screens }
  \cup
  { Source("Lipstick", "front", "landscape", "Frame169", 2, d) :
      d \in Screens }

CameraSize == [w |-> 1280, h |-> 720]

DroidCamSources ==
  { Source("DroidCam", "back", "landscape", "Off", 4, CameraSize),
    Source("DroidCam", "front", "inverted_landscape", "Off", 4, CameraSize) }

DroidCamRawSources ==
  { Source("DroidCamRaw", direction, "landscape", trans, 4, CameraSize) :
      direction \in {"back", "front"}, trans \in {"Off", "Frame169"} }

TestSize == [w |-> 200, h |-> 800]

TestSources ==
  { Source("Test", "unknown", SizeOrientation(TestSize), trans, 4, TestSize) :
      trans \in {"Off", "Frame169", "Frame169Rot90"} }

\* V4L2 and X11 sources, read through an FFmpeg demuxer.
DemuxerSources ==
  { Source("Demuxer", "unknown", SizeOrientation(d), "Off", 4, d) :
      d \in Captures }

Sources == LipstickSources \cup DroidCamSources \cup DroidCamRawSources
             \cup TestSources \cup DemuxerSources

----------------------------------------------------------------------------
(***************************************************************************)
(* The choice of the transformation and of the encoded size.               *)
(***************************************************************************)

QuarterTrans == <<"TransClock", "VflipHflip", "TransCclock">>

\* The transformation that brings a source to the orientation asked for.
OrientationToTrans(request, src) ==
  IF request = "auto" THEN src.trans
  ELSE LET q == (Rot[request] - Rot[src.orientation]) % 4
       IN  IF q = 0 THEN src.trans ELSE QuarterTrans[q]

\* ceil(n * scale / 4)
Scaled(n, scale) == (n * scale + 3) \div 4

\* The encoder takes even sizes only.
Even(d) == [w |-> 2 * (d.w \div 2), h |-> 2 * (d.h \div 2)]

TransDim(d, trans, scale) ==
  LET s    == [w |-> Scaled(d.w, scale), h |-> Scaled(d.h, scale)]
      high == Scaled(Max(d.w, d.h), scale)
  IN  Even(IF trans \in Framed \cup FramedVflip
           THEN [w |-> (16 * high + 8) \div 9, h |-> high]
           ELSE IF trans \in Transposing THEN Swap(s) ELSE s)

----------------------------------------------------------------------------
VARIABLES
  source,     \* the properties of the source the client chose
  request,    \* the orientation the client asked for
  container,  \* the stream format
  phase,      \* how far the caster has come
  trans,      \* m_videoTrans
  encoded,    \* size the encoder was opened with
  exact,      \* the encoder takes the source's pixel format as it is
  filters,    \* keys of m_videoFilterCtxMap
  rotation,   \* quarter turns written to the stream's side data
  pose,       \* transform() of the screen or of the orientation monitor
  yinverted,  \* yinverted() of the screen's buffer
  shown       \* transformation the last frame went through

choice == <<source, request, container>>
built  == <<trans, encoded, exact, filters, rotation>>
device == <<pose, yinverted>>
vars   == <<choice, phase, built, device, shown>>

NoSize == [w |-> 0, h |-> 0]

Init ==
  /\ source \in Sources
  /\ request \in Orientations \cup {"auto"}
  /\ container \in {"mp4", "mpegts"}
  /\ phase = "new"
  /\ trans = "Off" /\ encoded = NoSize /\ exact = FALSE
  /\ filters = {} /\ rotation = 0
  /\ pose = 0 /\ yinverted = FALSE
  /\ shown = "none"

\* initVideoTrans: a compressed stream is never decoded, so never turned.
InitVideoTrans ==
  /\ phase = "new"
  /\ trans' = IF source.type = "DroidCam" THEN "Off"
              ELSE IF source.trans = "Frame169" THEN "Frame169"
              ELSE OrientationToTrans(request, source)
  /\ phase' = IF source.type = "DroidCam" THEN "ready" ELSE "turned"
  /\ UNCHANGED <<choice, encoded, exact, filters, rotation, device, shown>>

\* initAvVideoEncoder: the pixel formats of source and encoder may agree.
InitVideoEncoder ==
  /\ phase = "turned"
  /\ encoded' = TransDim(source.dim, trans, source.scale)
  /\ exact' \in BOOLEAN
  /\ phase' = "encoder"
  /\ UNCHANGED <<choice, trans, filters, rotation, device, shown>>

\* A frame the encoder would not take as it is has to be scaled at least.
NeededTrans ==
  IF trans = "Off" /\ (~exact \/ encoded # source.dim) THEN "Scale" ELSE trans

\* Mutation of NeededFilters: no fallthrough from the screen's own filters.
NeededFilters_NoFallthrough ==
  CASE NeededTrans = "Off"   -> {}
    [] NeededTrans \in Plain -> Plain
    [] OTHER -> IF source.type = "Lipstick" THEN FramedVflip ELSE Framed

NeededFilters ==
  CASE NeededTrans = "Off"   -> {}
    [] NeededTrans \in Plain -> Plain
    [] OTHER -> Framed \cup
                (IF source.type = "Lipstick" THEN FramedVflip ELSE {})

\* Mutation of Thin: long sides are not looked at.
Thin_Never(d) == FALSE

\* Dim::thin(), with the integer divisions of the code.
Thin(d) ==
  (IF d.w > d.h THEN d.w \div d.h ELSE d.h \div d.w) > 16 \div 9

\* scale=...:-1 of FFmpeg: a * b / c to the nearest.
Rescale(a, b, c) == (a * b + c \div 2) \div c

\* What a framing filter leaves to be padded: the picture, turned and then
\* scaled to the width or to the height of the frame.
Fitted(t) ==
  LET d == IF t \in Transposing THEN Swap(source.dim) ELSE source.dim
  IN  IF Thin(source.dim) /\ t \in Transposing
      THEN [w |-> encoded.w, h |-> Rescale(encoded.w, d.h, d.w)]
      ELSE [w |-> Rescale(encoded.h, d.w, d.h), h |-> encoded.h]

\* FFmpeg's pad filter refuses to make a picture smaller.
CanPad(t) == Fitted(t).w <= encoded.w /\ Fitted(t).h <= encoded.h

\* Size of what a filter puts out.
FilterSize(t) ==
  IF t \notin Plain THEN encoded
  ELSE IF t \in Transposing
       THEN Swap([w |-> encoded.h, h |-> encoded.w])
       ELSE encoded

\* initAvVideoFilters: one filter that cannot be made and the caster is lost.
InitVideoFilters ==
  /\ phase = "encoder"
  /\ trans' = NeededTrans
  /\ IF \A t \in NeededFilters \ Plain : CanPad(t)
     THEN filters' = NeededFilters /\ phase' = "ready"
     ELSE filters' = {} /\ phase' = "failed"
  /\ UNCHANGED <<choice, encoded, exact, rotation, device, shown>>

\* setVideoStreamRotation, of the header of an MP4 stream.
StreamRotation ==
  IF \/ source.type # "DroidCam" \/ container # "mp4"
     \/ request \in {"auto", source.orientation}
  THEN 0
  ELSE (Rot[request] + Rot[source.orientation]) % 4

Start ==
  /\ phase = "ready"
  /\ rotation' = StreamRotation
  /\ phase' = "running"
  /\ UNCHANGED <<choice, trans, encoded, exact, filters, device, shown>>

----------------------------------------------------------------------------
HasPose == source.type \in {"Lipstick", "DroidCamRaw"}

\* The compositor tells a new transform of its output.
TurnDevice ==
  /\ phase = "running" /\ HasPose
  /\ pose' \in 0..3
  /\ UNCHANGED <<choice, phase, built, yinverted, shown>>

\* A buffer of the screen comes with its rows top down or bottom up.
FrameRecorded ==
  /\ phase = "running" /\ source.type = "Lipstick"
  /\ yinverted' \in BOOLEAN
  /\ UNCHANGED <<choice, phase, built, pose, shown>>

Inverted ==
  [Off |-> "Vflip", Scale |-> "Vflip", Vflip |-> "Scale",
   Hflip |-> "VflipHflip", VflipHflip |-> "Hflip",
   TransClock |-> "TransClockFlip", TransClockFlip |-> "TransClock",
   TransCclock |-> "TransCclockFlip", TransCclockFlip |-> "TransCclock",
   Frame169 |-> "Frame169Vflip", Frame169Vflip |-> "Frame169",
   Frame169Rot90 |-> "Frame169VflipRot90",
   Frame169VflipRot90 |-> "Frame169Rot90",
   Frame169Rot180 |-> "Frame169VflipRot180",
   Frame169VflipRot180 |-> "Frame169Rot180",
   Frame169Rot270 |-> "Frame169VflipRot270",
   Frame169VflipRot270 |-> "Frame169Rot270"]

TransForYinverted(t, y) == IF y THEN Inverted[t] ELSE t

\* Transformations for the poses 0 to 3, one place on.
LipstickPoses ==
  <<"Frame169Rot270", "Frame169", "Frame169Rot90", "Frame169Rot180">>
\* Mutation of CameraPoses: two neighbours in the wrong order.
CameraPoses_Swapped ==
  <<"Frame169", "Frame169Rot180", "Frame169Rot90", "Frame169Rot270">>

CameraPoses ==
  <<"Frame169", "Frame169Rot90", "Frame169Rot180", "Frame169Rot270">>

\* filterVideoIfNeeded: the transformation of a frame in pose p.
FrameTrans(p, y) ==
  CASE source.type = "Lipstick" ->
         TransForYinverted(IF trans \in Framed \cup FramedVflip
                           THEN LipstickPoses[p + 1] ELSE trans, y)
    [] source.type = "DroidCamRaw" /\ trans \in Framed \cup FramedVflip ->
         CameraPoses[p + 1]
    [] OTHER -> trans

\* encodeVideoFrame. A filter that is missing is std::out_of_range of map::at,
\* which no handler of the muxing thread takes: the program ends.
EncodeVideoFrame ==
  /\ phase = "running" /\ source.type # "DroidCam"
  /\ shown' = FrameTrans(pose, yinverted)
  /\ phase' = IF shown' \in filters \cup {"Off"} THEN phase ELSE "aborted"
  /\ UNCHANGED <<choice, built, device>>

Next ==
  \/ InitVideoTrans \/ InitVideoEncoder \/ InitVideoFilters \/ Start
  \/ TurnDevice \/ FrameRecorded \/ EncodeVideoFrame

Spec == Init /\ [][Next]_vars

----------------------------------------------------------------------------
(***************************************************************************)
(* Properties                                                              *)
(***************************************************************************)

ShownSize == IF shown = "Off" THEN source.dim ELSE FilterSize(shown)

\* The filter a frame needs has been made whatever the device and the
\* compositor did since, and what it puts out is a frame of the encoder's
\* size and pixel format, not squeezed to the other orientation
\* (filterVideoIfNeeded against initAvVideoFilters and computeTransDim).
FramesAreEncodable ==
  /\ phase # "aborted"
  /\ shown # "none" =>
       /\ ShownSize = encoded
       /\ shown = "Off" => exact
       /\ shown \in Plain => (shown \in Transposing <=> trans \in Transposing)

\* How the filters turn a picture: the argument of transpose depends on the
\* side of the device the sensor is on.
Clock == IF source.direction = "front" THEN 3 ELSE 1

Turned(q, mirrored) == [q |-> q % 4, mirrored |-> mirrored]

Effect(t) ==
  CASE t \in {"Off", "Scale", "Frame169Rot270"}    -> Turned(0, FALSE)
    [] t \in {"VflipHflip", "Frame169Rot90"}       -> Turned(2, FALSE)
    [] t \in {"TransClock", "Frame169"}            -> Turned(Clock, FALSE)
    [] t \in {"TransCclock", "Frame169Rot180"}     -> Turned(4 - Clock, FALSE)
    [] t \in {"Vflip", "Frame169VflipRot270"}      -> Turned(0, TRUE)
    [] t \in {"Hflip", "Frame169VflipRot90"}       -> Turned(2, TRUE)
    [] t \in {"TransClockFlip", "Frame169Vflip"}   -> Turned(4 - Clock, TRUE)
    [] t \in {"TransCclockFlip", "Frame169VflipRot180"} -> Turned(Clock, TRUE)

\* The picture a viewer sees: a bottom-up buffer is one flip more.
Picture(p, y) ==
  LET e == Effect(FrameTrans(p, y))
  IN  [e EXCEPT !.mirrored = (e.mirrored # y)]

\* The direction in which this source's picture follows a turn.
Sense(y) == IF (source.direction = "front") # y THEN 3 ELSE 1

Filtering == phase = "running" /\ source.type # "DroidCam"

\* No pose and no buffer of the compositor ever mirrors the picture.
NeverMirrored ==
  Filtering => \A p \in 0..3, y \in {yinverted} : ~Picture(p, y).mirrored

\* While the device is turned step by step, the picture of an auto-rotating
\* source is turned by a quarter at every step, always the same way round.
TurnsAreFollowed ==
  Filtering /\ HasPose /\ trans \in Framed =>
    \A p \in 0..3 :
      Picture((p + 1) % 4, yinverted).q =
        (Picture(p, yinverted).q + Sense(yinverted)) % 4

\* A source that does not rotate by itself is turned from its own orientation
\* to the one asked for, through a filter or, for the camera's compressed
\* stream, through the header of the MP4 stream.
RequestIsHonoured ==
  LET quarters == IF request = "auto" THEN 0
                  ELSE Rot[request] - Rot[source.orientation]
  IN  /\ Filtering /\ source.trans = "Off" =>
           Picture(pose, yinverted).q = (Sense(yinverted) * quarters) % 4
      /\ phase = "running" /\ source.type = "DroidCam" /\ container = "mp4"
           => rotation = quarters % 4

\* A viewer gets the picture the way the source and the request say.
PictureIsUpright == NeverMirrored /\ TurnsAreFollowed /\ RequestIsHonoured

\* A caster can only be lost for the shape of its picture if the picture is
\* longer than 16:9, or so close to it that rounding the frame's sides to even
\* numbers cuts it off; and never if a screen, upright, is 2:1 or longer (and is
\* cast with four lines or more).
FittingPictureIsFramed ==
  phase = "failed" =>
    LET long  == Max(source.dim.w, source.dim.h)
        short == source.dim.w + source.dim.h - long
    IN  /\ 2 * encoded.h * (16 * short - 9 * long) < 27 * short
        /\ source.dim.w < source.dim.h /\ encoded.h >= 4 => long < 2 * short

\* The screens of README.md are supported sources: none is refused.
ScreenIsCast == source.type = "Lipstick" => phase # "failed"
=============================================================================
