----------------------------- MODULE AvPipeline ------------------------------
(***************************************************************************)
(* The FFmpeg and PulseAudio objects of one Caster (caster.cpp): the order *)
(* in which the constructor, start() and resume() acquire them, what a     *)
(* failure in any of these calls leaves behind, what the muxing thread     *)
(* uses, and what clean() frees.                                           *)
(*                                                                         *)
(* The objects of the video sources are part of it: the GStreamer pipeline *)
(* of the camera and what the recorder of the screen and the orientation   *)
(* monitor get from the compositor.                                        *)
(*                                                                         *)
(* An object is the name of the member that points to it.  Which video     *)
(* transformation is needed is VideoGeometry's matter, how the threads are *)
(* told to stop is Session's and VideoBuffer's.                            *)
(***************************************************************************)
EXTENDS Naturals, Sequences, SequencesExt, TLC

Videos == {"none", "DroidCam", "DroidCamRaw", "Lipstick", "Test", "Demuxer"}

\* One client's wish: a video source, sound, the encoder left to the caster,
\* and whether the pictures have to be filtered.
Configs ==
  { c \in [video : Videos, audio : BOOLEAN, autoEncoder : BOOLEAN,
           filtered : BOOLEAN] : c.video # "none" \/ c.audio }

----------------------------------------------------------------------------
(***************************************************************************)
(* The calls.  Each uses what it needs without looking whether it is there,*)
(* gets its objects one after the other, and may throw when it has got as  *)
(* many of them as "fails" says.                                           *)
(***************************************************************************)

Call(needs, gets, fails) == [needs |-> needs, gets |-> gets, fails |-> fails]

Camera(c) == c.video \in {"DroidCam", "DroidCamRaw"}
Raw(c)    == c.video \in {"DroidCamRaw", "Lipstick", "Test"}

\* What encodeVideoFrame uses.
EncoderNeeds(c) ==
  {"inVideoCtx", "videoFrameIn", "outVideoCtx"}
  \cup (IF c.filtered THEN {"videoFrameAfterFilter", "videoFilterGraphs"} ELSE {})

OutStreams(c) ==
  (IF c.video # "none" THEN {"outVideoStream"} ELSE {})
  \cup (IF c.audio THEN {"outAudioStream"} ELSE {})

\* Sources that are objects, with threads, of their own.
HasSource(c) == Camera(c) \/ Raw(c)

PaCalls ==
  [initPa    |-> Call({}, <<"paLoop", "paCtx">>, {0, 1, 2}),
   connectPa |-> Call({"paLoop", "paCtx"}, <<>>, {0})]

\* What the camera's pipeline is made of.  h264parse is made for the raw camera
\* as well, but not put into the pipeline.
InBin(c) ==
  {"gstSource", "gstSink", "fakeSink", "queue", "capsfilter"}
  \cup (IF c.video = "DroidCam" THEN {"h264parse"} ELSE {})

CameraObjects == <<"gstSource", "gstSink", "gstPipeline", "fakeSink", "queue",
                   "h264parse", "capsfilter">>

\* What the compositor announces to the recorder.
RecorderGlobals == {"shm", "output", "lrManager"}

RecorderObjects == <<"display", "registry", "shm", "output", "lrManager", "lrRec">>
MonitorObjects  == <<"monitorDisplay", "monitorRegistry", "monitorOutput">>

\* What the thread of a source uses.
SourceNeeds(c) ==
  CASE Camera(c)            -> {"gstPipeline"} \cup InBin(c)
    [] c.video = "Lipstick" -> {"display", "shm", "lrRec", "screenBuffer"}
    [] OTHER                -> {}

\* A constructor that throws is the matter of CameraThrows and WaylandThrows.
SourceCalls(c) ==
  [emplaceMonitor     |-> Call({}, MonitorObjects, {}),
   emplaceVideoSource |->
     Call({}, CASE Camera(c)            -> CameraObjects
                [] c.video = "Lipstick" -> RecorderObjects
                [] OTHER                -> <<>>, {}),
   startVideoSource   |->
     Call(SourceNeeds(c) \ {"screenBuffer"},
          IF c.video = "Lipstick" THEN <<"screenBuffer">> ELSE <<>>,
          IF c.video = "Lipstick" THEN {0} ELSE {})]

CodecCalls ==
  [initAudioDecoder |-> Call({}, <<"inAudioCtx", "audioFrameIn">>, {0, 1}),
   initAudioEncoder |-> Call({"inAudioCtx"}, <<"outAudioCtx">>, {0, 1}),
   initVideoForGst  |-> Call({}, <<"inVideoIo", "inVideoFormat">>, {0})]

FilterCalls(c) ==
  [initAudioFilters |->
     Call({"inAudioCtx", "outAudioCtx"},
          <<"audioFrameAfterFilter", "audioFilterGraph">>, {1, 2}),
   initVideoFilters |->
     IF c.filtered
     THEN Call({"inVideoCtx", "outVideoCtx"},
               <<"videoFrameAfterFilter", "videoFilterGraphs">>, {1, 2})
     ELSE Call({"inVideoCtx", "outVideoCtx"}, <<>>, {})]

EncoderCalls ==
  [initVideoRawDecoder |->
     Call({}, <<"inVideoCtx", "videoFrameIn">>, {0, 1}),
   initVideoEncoder |->
     Call({}, <<"outVideoCtx">>, {0, 1})]

FormatCalls ==
  [initVideoInputRawFormat |-> Call({}, <<"inVideoFormat">>, {0}),
   allocOutputFormat       |-> Call({}, <<"outFormat">>, {0})]

InputCalls ==
  [initVideoInputCompressedFormat |->
     Call({"inVideoFormat", "inVideoIo"}, <<>>, {0}),
   initAudioFifo |->
     Call({"inAudioCtx"}, <<"audioFifo">>, {0}),
   initVideoBsf |->
     Call({"outVideoStream"}, <<"bsfExtract", "bsfDump">>, {0, 1, 2}),
   initVideoOutStreamFromInputFormat |->
     Call({"inVideoFormat", "outFormat"}, <<"outVideoStream">>, {0, 1}),
   initVideoRawDecoderFromInputStream |->
     Call({"inVideoFormat"}, <<"inVideoCtx", "videoFrameIn">>, {0, 1})]

OutputCalls(c) ==
  [findVideoInputStreamIdx |->
     Call({"inVideoFormat"}, <<>>, {0}),
   initVideoOutStreamFromEncoder |->
     Call({"outVideoCtx", "outFormat"}, <<"outVideoStream">>, {0, 1}),
   initAudioOutStreamFromEncoder |->
     Call({"outAudioCtx", "outFormat"}, <<"outAudioStream">>, {0, 1}),
   initOutputFormat |->
     Call({"outFormat"} \cup OutStreams(c), <<"outIo", "header">>, {0, 1})]

\* The packet of a probe is allocated and emptied, but not freed.
ProbeCalls(c) ==
  [extractExtradataFromCompressedDemuxer |->
     Call({"inVideoFormat"}, <<"probePacket">>, {1}),
   extractExtradataFromRawDemuxer |->
     Call({"inVideoFormat"} \cup EncoderNeeds(c), <<"probePacket">>, {1}),
   extractExtradataFromRawBuf |->
     Call(EncoderNeeds(c), <<"probePacket">>, {1})]

Calls(c) ==
  PaCalls @@ SourceCalls(c) @@ CodecCalls @@ FilterCalls(c) @@ EncoderCalls @@
  FormatCalls @@ InputCalls @@ OutputCalls(c) @@ ProbeCalls(c)

If(condition, calls) == IF condition THEN calls ELSE <<>>

\* initAudioSource, initVideoSource and initAv, of the constructor.
ConstructPlan(c) ==
  If(c.audio, <<"initPa">>)
  \o If(c.video = "DroidCamRaw", <<"emplaceMonitor">>)
  \o If(HasSource(c), <<"emplaceVideoSource">>)
  \o If(c.audio, <<"initAudioDecoder", "initAudioEncoder", "initAudioFifo",
                   "initAudioFilters">>)
  \o If(c.video = "DroidCam", <<"initVideoForGst">>)
  \o If(c.video = "Demuxer",
         <<"initVideoEncoder", "initVideoInputRawFormat",
           "findVideoInputStreamIdx", "initVideoRawDecoderFromInputStream">>)
  \o If(Raw(c),
         <<"initVideoEncoder", "initVideoRawDecoder", "initVideoFilters">>)
  \o <<"allocOutputFormat">>

OutputPlan(c) ==
  If(c.audio, <<"initAudioOutStreamFromEncoder">>) \o <<"initOutputFormat">>

\* startVideoSource, startAv and startPa, of start.
StartPlan(c) ==
  If(HasSource(c), <<"startVideoSource">>)
  \o If(c.video = "DroidCam",
         <<"initVideoInputCompressedFormat",
           "initVideoOutStreamFromInputFormat", "initVideoBsf",
           "extractExtradataFromCompressedDemuxer">>)
  \o If(c.video = "Demuxer",
         <<"initVideoOutStreamFromEncoder", "initVideoFilters",
           "initVideoBsf", "extractExtradataFromRawDemuxer">>)
  \o If(Raw(c),
         <<"initVideoOutStreamFromEncoder", "initVideoBsf",
           "extractExtradataFromRawBuf">>)
  \o OutputPlan(c)
  \o If(c.audio, <<"connectPa">>)

\* reInitAvOutputFormat, but for the cleaning it begins with.
ResumePlan(c) ==
  <<"allocOutputFormat">>
  \o If(c.video = "DroidCam", <<"initVideoOutStreamFromInputFormat">>)
  \o If(c.video = "Demuxer" \/ Raw(c), <<"initVideoOutStreamFromEncoder">>)
  \o OutputPlan(c)

\* What goes with the output format (cleanAvOutputFormat).
OutputObjects ==
  {"outFormat", "outIo", "header", "outVideoStream", "outAudioStream"}

\* Mutation of CleanedObjects: the encoder is forgotten.
CleanedObjects_NoEncoder ==
  OutputObjects \cup
  {"paLoop", "paCtx", "inAudioCtx", "audioFrameIn", "outAudioCtx",
   "audioFifo", "audioFrameAfterFilter", "audioFilterGraph",
   "inVideoFormat", "inVideoIo", "inVideoCtx",
   "videoFrameIn", "videoFrameAfterFilter", "videoFilterGraphs"}

\* What cleanPa and cleanAv free.
CleanedObjects ==
  OutputObjects \cup
  {"paLoop", "paCtx", "inAudioCtx", "audioFrameIn", "outAudioCtx",
   "audioFifo", "audioFrameAfterFilter", "audioFilterGraph",
   "inVideoFormat", "inVideoIo", "outVideoCtx", "inVideoCtx",
   "videoFrameIn", "videoFrameAfterFilter", "videoFilterGraphs"}

\* What is left when cleanGst() was called.  The pipeline frees what is in it.
CleanGst(c, objects) ==
  IF "gstPipeline" \in objects THEN objects \ ({"gstPipeline"} \cup InBin(c))
  ELSE objects \ {"gstSource", "gstSink"}

\* What is left when clean() of the recorder and of the monitor was called.
CleanWayland(objects) ==
  objects \ {"lrRec", "registry", "display", "monitorRegistry", "monitorDisplay"}

CleanSources(c, objects) == CleanWayland(CleanGst(c, objects))

\* What muxVideo uses for every frame.
VideoNeeds(c) ==
  {"outFormat", "outIo", "header", "outVideoStream"}
  \cup (IF Raw(c) THEN {} ELSE {"inVideoFormat"})
  \cup (IF c.video = "DroidCam" THEN {} ELSE EncoderNeeds(c))

\* What muxAudio uses for every frame.
AudioNeeds ==
  {"outFormat", "outIo", "header", "outAudioStream", "inAudioCtx",
   "audioFrameIn", "audioFifo", "outAudioCtx", "audioFilterGraph",
   "audioFrameAfterFilter"}

MuxerNeeds(c) ==
  (IF c.video # "none" THEN VideoNeeds(c) ELSE {})
  \cup (IF c.audio THEN AudioNeeds ELSE {})

PaNeeds == {"paLoop", "paCtx"}

----------------------------------------------------------------------------
VARIABLES
  config,   \* what the client wished for
  step,     \* what the thread that owns the caster is doing
  state,    \* m_state
  plan,     \* the calls that are left of it
  tries,    \* encoders that were tried in vain
  held,     \* members that point to an object
  lost,     \* objects of which the pointer was lost before they were freed
  over,     \* objects that were freed once too often
  running   \* threads: "muxer", "pa", "source" and "monitor"

vars == <<config, step, state, plan, tries, held, lost, over, running>>

Encoders == 3   \* h264_v4l2m2m, h264_nvenc, libx264

Init ==
  /\ config \in Configs
  /\ step = "constructing" /\ state = "Initing"
  /\ plan = ConstructPlan(config)
  /\ tries = 0 /\ held = {} /\ lost = {} /\ over = {} /\ running = {}

ToDo     == plan # <<>>
NextCall == Calls(config)[Head(plan)]
First(n) == ToSet(SubSeq(NextCall.gets, 1, n))

\* A pointer that is set again loses what it pointed to.
Get(objects) ==
  /\ held' = held \cup objects
  /\ lost' = lost \cup (held \cap objects)

\* The threads that a call starts.
Threads ==
  IF Head(plan) # "startVideoSource" THEN {}
  ELSE {"source"} \cup (IF config.video = "DroidCamRaw" THEN {"monitor"} ELSE {})

CallReturns ==
  /\ ToDo
  /\ Get(ToSet(NextCall.gets))
  /\ running' = running \cup Threads
  /\ plan' = Tail(plan)
  /\ UNCHANGED <<config, step, state, tries, over>>

\* The pipeline does not play: the camera reports it and has no thread.
CameraRefuses ==
  /\ ToDo /\ Head(plan) = "startVideoSource" /\ Camera(config)
  /\ running' = running \cup (Threads \ {"source"})
  /\ state' = "Terminating"
  /\ plan' = Tail(plan)
  /\ UNCHANGED <<config, step, tries, held, lost, over>>

\* initAvVideoEncoder: the next encoder is tried, except after the last.
EncoderFallsBack ==
  /\ ToDo /\ Head(plan) = "initVideoEncoder"
  /\ config.autoEncoder /\ tries + 1 < Encoders
  /\ \E n \in NextCall.fails : Get(First(n))
  /\ tries' = tries + 1
  /\ UNCHANGED <<config, step, state, plan, over, running>>

\* Where an exception takes the owner: the constructor cleans up, start
\* reports an error, and resume lets it out.
Thrown ==
  /\ plan' = <<>>
  /\ \/ step = "constructing" /\ step' = "cleaning" /\ state' = state
     \/ step = "starting" /\ step' = "idle" /\ state' = "Terminating"
     \/ step = "resuming" /\ step' = "idle" /\ state' = state

CallThrows ==
  /\ ToDo
  /\ Head(plan) = "initVideoEncoder" /\ config.autoEncoder
        => tries + 1 = Encoders
  /\ \E n \in NextCall.fails : Get(First(n))
  /\ Thrown
  /\ UNCHANGED <<config, tries, over, running>>

\* avformat_open_input frees the context it was given, not its custom I/O.
OpenThrows ==
  /\ ToDo /\ Head(plan) = "initVideoInputCompressedFormat"
  /\ held' = held \ {"inVideoFormat", "inVideoIo"}
  /\ lost' = lost \cup {"inVideoIo"}
  /\ Thrown
  /\ UNCHANGED <<config, tries, over, running>>

\* init() of the camera fails: nothing is made; or it has the source, or the
\* source and the sink, and frees factories that are free already; or all is
\* made but cannot be linked, and what is in the pipeline is freed by itself.
CameraThrows ==
  /\ ToDo /\ Head(plan) = "emplaceVideoSource" /\ Camera(config)
  /\ \/ held' = CleanGst(config, held) /\ UNCHANGED over
     \/ /\ held' = CleanGst(config, held \cup {"gstSource"})
        /\ over' = over \cup {"sourceFactory"}
     \/ /\ held' = CleanGst(config, held \cup {"gstSource", "gstSink"})
        /\ over' = over \cup {"sourceFactory", "sinkFactory"}
     \/ /\ held' = CleanGst(config, held \cup (ToSet(CameraObjects) \ {"h264parse"}))
        /\ over' = over \cup (InBin(config) \ {"gstSource", "gstSink"})
  /\ Thrown
  /\ UNCHANGED <<config, tries, lost, running>>

\* The constructor of the recorder or of the monitor fails: there is no
\* display, or not all is announced that it needs.
WaylandThrows ==
  /\ ToDo
  /\ \/ /\ Head(plan) = "emplaceVideoSource" /\ config.video = "Lipstick"
        /\ \E bound \in SUBSET RecorderGlobals :
             held' = CleanWayland(held \cup {"display", "registry"} \cup bound)
     \/ /\ Head(plan) = "emplaceMonitor"
        /\ held' = CleanWayland(held \cup {"monitorDisplay", "monitorRegistry"})
  /\ Thrown
  /\ UNCHANGED <<config, tries, lost, over, running>>

\* The file for the recorder's pictures cannot be given its size: it stays.
ScreenFileThrows ==
  /\ ToDo /\ Head(plan) = "startVideoSource" /\ config.video = "Lipstick"
  /\ lost' = lost \cup {"screenFile"}
  /\ Thrown
  /\ UNCHANGED <<config, tries, held, over, running>>

----------------------------------------------------------------------------
Constructed ==
  /\ step = "constructing" /\ ~ToDo
  /\ step' = "idle" /\ state' = "Inited"
  /\ UNCHANGED <<config, plan, tries, held, lost, over, running>>

Start ==
  /\ step = "idle" /\ state = "Inited"
  /\ step' = "starting" /\ state' = "Starting"
  /\ plan' = StartPlan(config)
  /\ UNCHANGED <<config, tries, held, lost, over, running>>

\* The end of startPa.
PaThread == IF config.audio THEN {"pa"} ELSE {}

\* The end of start, of which the state overwrites a failure of a source.
Started ==
  /\ step = "starting" /\ ~ToDo
  /\ \/ state' = "Started" /\ running' = running \cup {"muxer"} \cup PaThread
     \/ state' = "Paused" /\ running' = running \cup PaThread
  /\ step' = "idle"
  /\ UNCHANGED <<config, plan, tries, held, lost, over>>

\* pause: what it tests may be outdated when it writes the state.
PauseTests ==
  /\ step = "idle" /\ state = "Started"
  /\ step' = "pausing"
  /\ UNCHANGED <<config, state, plan, tries, held, lost, over, running>>

PauseSets ==
  /\ step = "pausing"
  /\ state' = "Paused" /\ step' = "joining"
  /\ UNCHANGED <<config, plan, tries, held, lost, over, running>>

\* Mutation of PauseJoins: the muxer is left to end by itself.
PauseJoins_Detached ==
  /\ step = "joining"
  /\ step' = "idle"
  /\ UNCHANGED <<config, state, plan, tries, held, lost, over, running>>

PauseJoins ==
  /\ step = "joining" /\ "muxer" \notin running
  /\ step' = "idle"
  /\ UNCHANGED <<config, state, plan, tries, held, lost, over, running>>

\* resume, also after a resume that failed: a new container is begun.
Resume ==
  /\ step = "idle" /\ state = "Paused"
  /\ step' = "resuming"
  /\ held' = held \ OutputObjects
  /\ plan' = ResumePlan(config)
  /\ UNCHANGED <<config, state, tries, lost, over, running>>

Resumed ==
  /\ step = "resuming" /\ ~ToDo
  /\ state' = "Started" /\ running' = running \cup {"muxer"}
  /\ step' = "idle"
  /\ UNCHANGED <<config, plan, tries, held, lost, over>>

\* ~Caster: the camera, the monitor and the recorder are told to end, joined
\* and destroyed, then clean().
Destroy ==
  /\ step = "idle"
  /\ step' = "resetting" /\ state' = "Terminating"
  /\ UNCHANGED <<config, plan, tries, held, lost, over, running>>

Reset ==
  /\ step = "resetting"
  /\ config.video # "Test" => running \cap {"source", "monitor"} = {}
  /\ held' = CleanSources(config, held)
  /\ step' = "cleaning"
  /\ UNCHANGED <<config, state, plan, tries, lost, over, running>>

\* clean, when both threads are joined.
Clean ==
  /\ step = "cleaning" /\ running \cap {"muxer", "pa"} = {}
  /\ held' = held \ CleanedObjects
  /\ step' = "cleaned"
  /\ UNCHANGED <<config, state, plan, tries, lost, over, running>>

\* The members are destroyed: the test source, which is joined, and what a
\* constructor that failed had of the other sources.
DestroyMembers ==
  /\ step = "cleaned" /\ running = {}
  /\ held' = CleanSources(config, held)
  /\ step' = "gone"
  /\ UNCHANGED <<config, state, plan, tries, lost, over, running>>

----------------------------------------------------------------------------
(***************************************************************************)
(* The other threads.                                                      *)
(***************************************************************************)

\* Each look at the bus of the camera's pipeline takes a reference to it.
BusIsRead ==
  /\ Camera(config) /\ "source" \in running
  /\ lost' = lost \cup {"bus"}
  /\ UNCHANGED <<config, step, state, plan, tries, held, over, running>>

\* The camera fails or is told to end: its thread frees the pipeline.
CameraEnds ==
  /\ Camera(config) /\ "source" \in running
  /\ held' = CleanGst(config, held)
  /\ running' = running \ {"source"}
  /\ state' = "Terminating"
  /\ UNCHANGED <<config, step, plan, tries, lost, over>>

\* The recorder loses its display or is told to end.
RecorderEnds ==
  /\ config.video = "Lipstick" /\ "source" \in running
  /\ running' = running \ {"source"}
  /\ state' = "Terminating"
  /\ UNCHANGED <<config, step, plan, tries, held, lost, over>>

\* The test source ends when it is told to.
TestEnds ==
  /\ config.video = "Test" /\ step = "cleaned"
  /\ "source" \in running
  /\ running' = running \ {"source"}
  /\ UNCHANGED <<config, step, state, plan, tries, held, lost, over>>

\* The monitor loses its display, without a word, or is told to end.
MonitorEnds ==
  /\ "monitor" \in running
  /\ running' = running \ {"monitor"}
  /\ UNCHANGED <<config, step, state, plan, tries, held, lost, over>>

\* The muxer's loop ends, or what it calls throws.
MuxerEnds ==
  /\ "muxer" \in running
  /\ \/ state # "Started" /\ state' = state
     \/ state' = "Terminating"
  /\ running' = running \ {"muxer"}
  /\ UNCHANGED <<config, step, plan, tries, held, lost, over>>

\* doPaTask ends, without a word when the loop fails, or a callback throws.
PaEnds ==
  /\ "pa" \in running
  /\ state' \in {state, "Terminating"}
  /\ running' = running \ {"pa"}
  /\ UNCHANGED <<config, step, plan, tries, held, lost, over>>

Next ==
  \/ CallReturns \/ CameraRefuses \/ EncoderFallsBack
  \/ CallThrows \/ OpenThrows \/ CameraThrows \/ WaylandThrows \/ ScreenFileThrows
  \/ Constructed \/ Start \/ Started \/ PauseTests \/ PauseSets \/ PauseJoins
  \/ Resume \/ Resumed \/ Destroy \/ Reset \/ Clean \/ DestroyMembers
  \/ BusIsRead \/ CameraEnds \/ RecorderEnds \/ TestEnds \/ MonitorEnds
  \/ MuxerEnds \/ PaEnds

Spec == Init /\ [][Next]_vars

----------------------------------------------------------------------------
(***************************************************************************)
(* Properties                                                              *)
(***************************************************************************)

\* Whatever failed, was paused or resumed before: no call of the owner and no
\* thread, of the caster or of a source, finds a pointer null or freed that it
\* uses without a look (initAv, startAv, reInitAvOutputFormat, the muxing
\* threads, clean, the threads of camera, recorder and monitor).
NothingMissing ==
  /\ ToDo => NextCall.needs \subseteq held
  /\ "muxer" \in running => MuxerNeeds(config) \subseteq held
  /\ "pa" \in running => PaNeeds \subseteq held
  /\ "source" \in running => SourceNeeds(config) \subseteq held
  /\ "monitor" \in running => "monitorDisplay" \in held
  /\ step = "cleaning" /\ "paCtx" \in held => "paLoop" \in held

\* What the code never frees, with the sort of cast that has it: the bitstream
\* filters and the packet of the probe, the globals of the compositor and the
\* recorder's shared pictures, and the parser of the raw camera.
NeverFreed ==
  {"bsfExtract", "bsfDump", "probePacket"}
  \cup (IF config.video = "Lipstick" THEN {"shm", "output", "lrManager", "screenBuffer"} ELSE {})
  \cup (IF config.video = "DroidCamRaw" THEN {"monitorOutput", "h264parse"} ELSE {})

\* A caster that is gone, even one whose constructor failed half way, has
\* freed all it got, once, but for what the code never frees and contexts of
\* encoders that did not open, the I/O of an input that could not be opened,
\* the file of a recorder that did not start and the bus of the camera.
\* Only a camera that cannot be set up frees more than it has.
EverythingIsFreed ==
  step = "gone" =>
    /\ held \subseteq NeverFreed
    /\ lost \subseteq {"outVideoCtx", "inVideoIo", "screenFile", "bus"}
    /\ "outVideoCtx" \in lost => tries > 0
    /\ "inVideoIo" \in lost => config.video = "DroidCam"
    /\ "screenFile" \in lost => config.video = "Lipstick"
    /\ "bus" \in lost => Camera(config)
    /\ over # {} => Camera(config) /\ state = "Initing"
=============================================================================
