------------------------------- MODULE RawCast -------------------------------
(***************************************************************************)
(* A cast of raw frames from its construction to its end: the thread of    *)
(* the source and the muxing thread of MediaClock, between them the buffer *)
(* with the frame, and the event loop, which makes the caster, starts it   *)
(* and destroys it.  The sources are:                                      *)
(*   - the screen of a Sailfish phone (LipstickRecorderSource): a thread   *)
(*     that talks to the compositor and delivers what was drawn;           *)
(*   - the raw camera (DroidCamSource), whose frames are turned by the     *)
(*     pose that the thread of an OrientationMonitor hears of from the     *)
(*     compositor; the camera's own thread is not part of this module;     *)
(*   - a test picture (TestSource).                                        *)
(* The compositor can go away at any time.                                 *)
(***************************************************************************)
EXTENDS MediaClock

CONSTANTS
  Offers  \* the sets of Wayland globals that a compositor may announce

VARIABLES
  kind,      \* the source: "lipstick", "droidcam", "test" or "none"
  wl,        \* the connection to the compositor: "up" or "lost"
  unheard,   \* the globals that the compositor has yet to announce
  bound,     \* the globals that are bound
  props,     \* the recorder said what its pictures look like
  src,       \* where the source's thread is
  stopping,  \* the source's m_terminating
  owner,     \* where the event loop is with this caster
  asked      \* a StopCaster event is on its way

castingVars == <<kind, wl, unheard, bound, props, src, stopping, owner, asked>>
rawVars     == <<clockVars, castingVars>>

Globals == {"wl_shm", "wl_output", "lipstick_recorder_manager"}

OnWayland == kind \in {"lipstick", "droidcam"}

RawInit ==
  /\ ClockInit
  /\ kind \in IF "video" \in media THEN {"lipstick", "droidcam", "test"} ELSE {"none"}
  /\ wl = "up"
  /\ unheard \in IF OnWayland THEN Offers ELSE {{}}
  /\ bound = {}
  /\ props = FALSE
  /\ src = "none"
  /\ stopping = FALSE
  /\ owner = IF OnWayland THEN "register" ELSE "start"
  /\ asked = FALSE

-----------------------------------------------------------------------------
(* The constructor of a source.  Binding the output or making the recorder *)
(* calls wl_display_roundtrip() from within a callback, which announces    *)
(* further globals before it returns.                                      *)

HasRecorder == {"wl_output", "lipstick_recorder_manager"} \subseteq bound

\* globals->ok()
GlobalsOk == IF kind = "lipstick" THEN bound = Globals /\ props
             ELSE "wl_output" \in bound

\* wlGlobalCallback()
WlGlobal(global) ==
  /\ owner = "register"
  /\ wl = "up"
  /\ global \in unheard
  /\ unheard' = unheard \ {global}
  /\ bound' = IF ~GlobalsOk /\ (kind = "lipstick" \/ global = "wl_output")
              THEN bound \cup {global} ELSE bound
  /\ UNCHANGED <<clockVars, kind, wl, props, src, stopping, owner, asked>>

\* wlLrSetupCallback()
WlLrSetup ==
  /\ owner = "register"
  /\ wl = "up"
  /\ kind = "lipstick"
  /\ HasRecorder
  /\ ~props
  /\ props' = TRUE
  /\ UNCHANGED <<clockVars, kind, wl, unheard, bound, src, stopping, owner, asked>>

\* wlRegister() returns: everything was announced and the recorder, if there
\* is one, has answered; or the compositor is gone.
Registered ==
  /\ owner = "register"
  /\ wl = "lost" \/ (unheard = {} /\ (kind = "lipstick" /\ HasRecorder => props))
  /\ owner' = IF GlobalsOk THEN "start" ELSE "gone"
  /\ UNCHANGED <<clockVars, kind, wl, unheard, bound, props, src, stopping, asked>>

-----------------------------------------------------------------------------
(* The event loop: start() and the destructor.                             *)

StartVideoSource ==
  /\ owner = "start"
  /\ src' = IF kind = "none" THEN "none" ELSE "loop"
  /\ owner' = "startAv"
  /\ UNCHANGED <<clockVars, kind, wl, unheard, bound, props, stopping, asked>>

\* The rest of start().  A state that was terminating already is overwritten,
\* but its event is on its way.
Started ==
  /\ owner = "startAv"
  /\ StartMuxing
  /\ owner' = "running"
  /\ UNCHANGED <<kind, wl, unheard, bound, props, src, stopping, asked>>

\* reportError(); the state handler of the session asks for the end.
ReportError == Terminate /\ asked' = (asked \/ state # "terminating")

StartFails ==
  /\ owner = "startAv"
  /\ ReportError
  /\ owner' = "running"
  /\ UNCHANGED <<kind, wl, unheard, bound, props, src, stopping>>

UserStops ==
  /\ owner = "running"
  /\ ~asked
  /\ asked' = TRUE
  /\ UNCHANGED <<clockVars, kind, wl, unheard, bound, props, src, stopping, owner>>

\* The destructor.  The test source is a member that outlives clean().
Destroy ==
  /\ owner = "running"
  /\ asked
  /\ Terminate
  /\ owner' = IF OnWayland THEN "stopSource" ELSE "joinMux"
  /\ UNCHANGED <<kind, wl, unheard, bound, props, src, stopping, asked>>

StopSource ==
  /\ owner = "stopSource"
  /\ stopping' = TRUE
  /\ owner' = "joinSource"
  /\ UNCHANGED <<clockVars, kind, wl, unheard, bound, props, src, asked>>

JoinSource ==
  /\ owner = "joinSource"
  /\ src \in {"none", "ended"}
  /\ src' = "joined"
  /\ owner' = IF OnWayland THEN "joinMux" ELSE "gone"
  /\ UNCHANGED <<clockVars, kind, wl, unheard, bound, props, stopping, asked>>

JoinMux ==
  /\ owner = "joinMux"
  /\ pc \in {"none", "done"}
  /\ owner' = IF OnWayland THEN "gone" ELSE "stopSource"
  /\ UNCHANGED <<clockVars, kind, wl, unheard, bound, props, src, stopping, asked>>

-----------------------------------------------------------------------------
(* The thread of the source.                                               *)

DisplayIsLost ==
  /\ OnWayland
  /\ wl = "up"
  /\ wl' = "lost"
  /\ UNCHANGED <<clockVars, kind, unheard, bound, props, src, stopping, owner, asked>>

\* The head of the loop, and the roundtrip to the compositor.
SourceGoesOn ==
  /\ src = "loop"
  /\ ~stopping
  /\ OnWayland => wl = "up"
  /\ src' = IF kind = "droidcam" THEN "loop" ELSE "deliver"
  /\ UNCHANGED <<clockVars, kind, wl, unheard, bound, props, stopping, owner, asked>>

SourceIsStopped ==
  /\ src = "loop"
  /\ stopping
  /\ src' = "ended"
  /\ UNCHANGED <<clockVars, kind, wl, unheard, bound, props, stopping, owner, asked>>

\* Mutation of SourceLosesDisplay: nobody is told.
SourceLosesDisplay_Silent ==
  /\ src = "loop"
  /\ ~stopping
  /\ OnWayland
  /\ wl = "lost"
  /\ stopping' = TRUE
  /\ src' = "ended"
  /\ UNCHANGED <<clockVars, kind, wl, unheard, bound, props, owner, asked>>

\* Only the recorder has an error handler: the monitor ends and the pose stays
\* what it was.
SourceLosesDisplay ==
  /\ src = "loop"
  /\ ~stopping
  /\ OnWayland
  /\ wl = "lost"
  /\ stopping' = TRUE
  /\ src' = IF kind = "lipstick" THEN "report" ELSE "ended"
  /\ UNCHANGED <<clockVars, kind, wl, unheard, bound, props, owner, asked>>

SourceReports ==
  /\ src = "report"
  /\ ReportError
  /\ src' = "ended"
  /\ UNCHANGED <<kind, wl, unheard, bound, props, stopping, owner>>

\* The frame goes to the caster; the last one of the bound goes nowhere.
Deliver ==
  /\ src = "deliver"
  /\ src' = "loop"
  /\ RawVideoDataReady \/ (pushed = MaxFrames /\ UNCHANGED clockVars)
  /\ UNCHANGED <<kind, wl, unheard, bound, props, stopping, owner, asked>>

\* The camera of a phone delivers until it is destroyed.
CameraFrame ==
  /\ kind = "droidcam"
  /\ owner \in {"startAv", "running"}
  /\ RawVideoDataReady
  /\ UNCHANGED castingVars

\* wlLrFailedCallback() throws through the Wayland library in a thread that
\* catches nothing: the program is aborted.
RecorderFails ==
  /\ kind = "lipstick"
  /\ src = "loop"
  /\ wl = "up"
  /\ owner' = "aborted"
  /\ UNCHANGED <<clockVars, kind, wl, unheard, bound, props, src, stopping, asked>>

-----------------------------------------------------------------------------
(* The muxing thread, and what happens around it.                          *)

Mux == MuxStep /\ UNCHANGED castingVars

MuxReports ==
  /\ MuxFails
  /\ asked' = (asked \/ state # "terminating")
  /\ UNCHANGED <<kind, wl, unheard, bound, props, src, stopping, owner>>

Around ==
  /\ Tick \/ (\E n \in Fragments : PaStreamRequest(n)) \/ PaStreamChanges
  /\ UNCHANGED castingVars

OwnerStep ==
  \/ Registered
  \/ StartVideoSource
  \/ Started
  \/ StartFails
  \/ Destroy
  \/ StopSource
  \/ JoinSource
  \/ JoinMux

WaylandEvent == (\E global \in Globals : WlGlobal(global)) \/ WlLrSetup

SourceStep ==
  \/ SourceGoesOn
  \/ SourceIsStopped
  \/ SourceLosesDisplay
  \/ SourceReports
  \/ Deliver

Running(step) == owner # "aborted" /\ step

RawNext ==
  \/ Running(OwnerStep)
  \/ Running(WaylandEvent)
  \/ Running(UserStops)
  \/ Running(DisplayIsLost)
  \/ Running(SourceStep)
  \/ Running(CameraFrame)
  \/ Running(RecorderFails)
  \/ Running(Mux)
  \/ Running(MuxReports)
  \/ Running(Around)

\* Each thread goes on, the compositor answers or its connection breaks, and
\* the event loop takes its events.
RawFairness ==
  /\ WF_rawVars(Running(OwnerStep))
  /\ WF_rawVars(Running(WaylandEvent))
  /\ WF_rawVars(Running(SourceStep))
  /\ WF_rawVars(Running(Mux))

RawSpec == RawInit /\ [][RawNext]_rawVars /\ RawFairness

-----------------------------------------------------------------------------
\* Who asks for the end of a cast gets it: both threads end and are joined,
\* whatever they were doing.  The loss of the compositor asks for it by itself
\* where the pictures come from there; only a recording that fails takes the
\* whole program along.
CastEnds ==
  (asked \/ (kind = "lipstick" /\ wl = "lost")) ~> owner \in {"gone", "aborted"}
=============================================================================
