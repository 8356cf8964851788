----------------------------- MODULE VideoBuffer -----------------------------
(***************************************************************************)
(* How compressed video gets from the camera to the muxer of a caster:     *)
(* m_videoBuf under m_videoMtx, with one condition variable, m_videoCv, on *)
(* which both sides wait.                                                  *)
(*   - "source" is the streaming thread of the camera's pipeline, inside   *)
(*     compressedVideoDataReadyHandler();                                  *)
(*   - "reader" is the thread inside avReadPacketCallback(): the loop      *)
(*     thread while start() probes the stream, later the muxer's thread;   *)
(*   - the control thread starts, pauses, resumes and destroys the caster; *)
(*   - the bus thread watches over the pipeline.                           *)
(*                                                                         *)
(* m_state is written by all of them without the mutex, and so are the     *)
(* notifications that follow.  The buffer is the queue of ByteQueue; what  *)
(* counts is which part of which chunk a byte belongs to.                  *)
(***************************************************************************)
EXTENDS Naturals, Sequences, Functions

CONSTANTS
  Capacity,   \* m_videoBufSize
  Sizes,      \* sizes of the chunks of the pipeline
  MaxChunks,  \* bound: chunks
  MaxResumes  \* bound: calls of resume()

\* A chunk that is larger than the buffer would wait for ever.
ASSUME VideoBufferAssumption ==
  /\ Capacity \in Nat
  /\ Sizes \subseteq 1 .. Capacity
  /\ MaxChunks \in Nat
  /\ MaxResumes \in Nat

Sides == {"source", "reader"}

VARIABLES
  state,     \* Caster::m_state: "starting", "started", "paused", "terminating"
  buffer,    \* m_videoBuf
  mutex,     \* the side that holds m_videoMtx, or "none"
  pc,        \* where the two sides are
  control,   \* where the control thread is
  bus,       \* where the bus thread is
  size,      \* the size of the chunk the source offers
  offered,   \* how many chunks were offered
  resumes,   \* how often resume() was called
  accepted,  \* history: all that was pushed
  received,  \* history: all that was pulled
  cleared,   \* history: what was thrown away
  unheard    \* history: sides that had tested their predicate, and did not
             \* sleep yet, when all were notified

data    == <<buffer, accepted, received, cleared>>
counts  == <<size, offered, resumes>>
vars == <<state, mutex, pc, control, bus, unheard, data, counts>>

Chunk(n, s) == [i \in 1 .. s |-> [chunk |-> n, at |-> i]]

Stopped == state \in {"paused", "terminating"}

\* hasFreeSpace(size)
HasRoom == Len(buffer) + size <= Capacity

\* Mutation of Ready: one predicate for both sides.
Ready_Shared(side) == Stopped \/ buffer # <<>> \/ HasRoom

\* The predicates of the two waits.
Ready(side) ==
  \/ Stopped
  \/ side = "reader" /\ buffer # <<>>
  \/ side = "source" /\ HasRoom

\* m_terminating of the source
SourceTold == control \in {"joinSource", "joinReader", "done"}

Init ==
  /\ state = "starting"
  /\ buffer = <<>>
  /\ mutex = "none"
  /\ pc = [source |-> "idle", reader |-> "test"]
  /\ control = "probing"
  /\ bus = "running"
  /\ size = 0
  /\ offered = 0
  /\ resumes = 0
  /\ accepted = <<>>
  /\ received = <<>>
  /\ cleared = {}
  /\ unheard = {}

-----------------------------------------------------------------------------
(* The condition variable.                                                 *)

Asleep == {t \in Sides : pc[t] = "asleep"}

\* The side goes on to next; those in woken wake up.
Goes(side, next, woken) ==
  pc' = [t \in Sides |-> IF t = side THEN next
                         ELSE IF t \in woken THEN "woken" ELSE pc[t]]

\* m_videoCv.notify_one(), by a side that goes on to next
NotifyOne(side, next) ==
  /\ IF Asleep = {} THEN Goes(side, next, {})
     ELSE \E t \in Asleep : Goes(side, next, {t})
  /\ unheard' = unheard \ Asleep

\* Mutation of NotifyAll: a single thread is woken, and not the source.
NotifyAll_Reader(leaving) ==
  /\ pc' = [t \in Sides |-> IF t \in leaving THEN "off"
                            ELSE IF t \in Asleep \cap {"reader"} THEN "woken"
                            ELSE pc[t]]
  /\ unheard' = (unheard \ {"reader"}) \cup {t \in Sides : pc[t] = "block"}

\* m_videoCv.notify_all(); the thread that notifies may be the reader, leaving
NotifyAll(leaving) ==
  /\ pc' = [t \in Sides |-> IF t \in leaving THEN "off"
                            ELSE IF t \in Asleep THEN "woken" ELSE pc[t]]
  /\ unheard' = (unheard \ Asleep) \cup {t \in Sides : pc[t] = "block"}

\* The mutex is taken, for the first time or on waking up, and the predicate
\* of the wait is evaluated.
Acquire(side) ==
  /\ pc[side] \in {"lock", "woken"}
  /\ mutex = "none"
  /\ mutex' = side
  /\ Goes(side, IF Ready(side) THEN "check" ELSE "block", {})
  /\ UNCHANGED <<state, control, bus, unheard, data, counts>>

\* It was false: the mutex is released and the thread sleeps.
Block(side) ==
  /\ pc[side] = "block"
  /\ mutex' = "none"
  /\ Goes(side, "asleep", {})
  /\ UNCHANGED <<state, control, bus, unheard, data, counts>>

SpuriousWakeup(side) ==
  /\ pc[side] = "asleep"
  /\ Goes(side, "woken", {})
  /\ unheard' = unheard \ {side}
  /\ UNCHANGED <<state, mutex, control, bus, data, counts>>

-----------------------------------------------------------------------------
(* The source: compressedVideoDataReadyHandler().                          *)

\* if (terminating()) return; the pipeline still runs and was not told to end.
SourceOffers(s) ==
  /\ pc["source"] = "idle"
  /\ bus \in {"running", "closing"}
  /\ ~SourceTold
  /\ state # "terminating"
  /\ offered < MaxChunks
  /\ size' = s
  /\ offered' = offered + 1
  /\ Goes("source", "lock", {})
  /\ UNCHANGED <<state, mutex, control, bus, unheard, data, resumes>>

\* m_videoBuf.clear()
Clear ==
  /\ buffer' = <<>>
  /\ cleared' = cleared \cup Range(buffer)
  /\ UNCHANGED <<accepted, received>>

SourceClears ==
  /\ pc["source"] = "check"
  /\ Stopped
  /\ Clear
  /\ mutex' = "none"
  /\ Goes("source", "notify", {})
  /\ UNCHANGED <<state, control, bus, unheard, counts>>

\* Mutation of SourcePushes: the newest data overwrite the tail, as raw frames do.
SourcePushes_Overwrites ==
  /\ pc["source"] = "check"
  /\ ~Stopped
  /\ LET kept == IF Len(buffer) >= size
                 THEN SubSeq(buffer, 1, Len(buffer) - size) ELSE buffer
     IN  buffer' = kept \o Chunk(offered, size)
  /\ accepted' = accepted \o Chunk(offered, size)
  /\ mutex' = "none"
  /\ Goes("source", "notify", {})
  /\ UNCHANGED <<state, control, bus, unheard, received, cleared, counts>>

\* m_videoBuf.pushExact(): all of the chunk or, if the state has changed since
\* the predicate, none of it.
SourcePushes ==
  /\ pc["source"] = "check"
  /\ ~Stopped
  /\ IF HasRoom
     THEN /\ buffer' = buffer \o Chunk(offered, size)
          /\ accepted' = accepted \o Chunk(offered, size)
     ELSE UNCHANGED <<buffer, accepted>>
  /\ mutex' = "none"
  /\ Goes("source", "notify", {})
  /\ UNCHANGED <<state, control, bus, unheard, received, cleared, counts>>

SourceNotifies ==
  /\ pc["source"] = "notify"
  /\ NotifyOne("source", "idle")
  /\ UNCHANGED <<state, mutex, control, bus, data, counts>>

-----------------------------------------------------------------------------
(* The reader: the demuxer, inside start() or a muxer's thread.            *)

\* start() reads as much as it takes to know the stream.
ProbeReads ==
  /\ pc["reader"] = "test"
  /\ control = "probing"
  /\ Goes("reader", "lock", {})
  /\ UNCHANGED <<state, mutex, control, bus, unheard, data, counts>>

\* while (!terminating()) { if (m_state != State::Started) break; ...
MuxerTests ==
  /\ pc["reader"] = "test"
  /\ control # "probing"
  /\ Goes("reader", IF state = "started" THEN "lock" ELSE "off", {})
  /\ UNCHANGED <<state, mutex, control, bus, unheard, data, counts>>

\* The end of the stream.
ReaderClears ==
  /\ pc["reader"] = "check"
  /\ Stopped
  /\ Clear
  /\ mutex' = "none"
  /\ Goes("reader", "notifyEof", {})
  /\ UNCHANGED <<state, control, bus, unheard, counts>>

\* m_videoBuf.pull(): as much as the demuxer has asked for.
ReaderPulls ==
  /\ pc["reader"] = "check"
  /\ ~Stopped
  /\ \E n \in 0 .. Len(buffer) :
       /\ n = 0 => buffer = <<>>
       /\ received' = received \o SubSeq(buffer, 1, n)
       /\ buffer' = SubSeq(buffer, n + 1, Len(buffer))
  /\ mutex' = "none"
  /\ Goes("reader", "notify", {})
  /\ UNCHANGED <<state, control, bus, unheard, accepted, cleared, counts>>

\* Mutation of ReaderNotifies: the source is not told that there is room.
ReaderNotifies_Silent ==
  /\ \/ pc["reader"] = "notify" /\ Goes("reader", "use", {})
     \/ pc["reader"] = "notifyEof" /\ Goes("reader", "failing", {})
  /\ UNCHANGED <<state, mutex, control, bus, unheard, data, counts>>

\* After the end of the stream av_read_frame() fails, which is an error.
ReaderNotifies ==
  /\ \/ pc["reader"] = "notify" /\ NotifyOne("reader", "use")
     \/ pc["reader"] = "notifyEof" /\ NotifyOne("reader", "failing")
  /\ UNCHANGED <<state, mutex, control, bus, data, counts>>

\* What was read is muxed and pushed to the client, or that fails.
ReaderUses ==
  /\ pc["reader"] = "use"
  /\ \E next \in {"test", "failing"} : Goes("reader", next, {})
  /\ UNCHANGED <<state, mutex, control, bus, unheard, data, counts>>

\* reportError()
ReaderReports ==
  /\ pc["reader"] = "failing"
  /\ state' = "terminating"
  /\ Goes("reader", "wake", {})
  /\ UNCHANGED <<mutex, control, bus, unheard, data, counts>>

\* ... and its notification; the thread, or start(), ends.
ReaderWakes ==
  /\ pc["reader"] = "wake"
  /\ NotifyAll({"reader"})
  /\ control' = IF control = "probing" THEN "running" ELSE control
  /\ UNCHANGED <<state, mutex, bus, data, counts>>

-----------------------------------------------------------------------------
(* The bus thread of the source.                                           *)

\* An error of the pipeline, or m_terminating.
BusLeaves ==
  /\ bus = "running"
  /\ bus' = "closing"
  /\ UNCHANGED <<state, mutex, pc, control, unheard, data, counts>>

\* cleanGst() waits for the streaming thread; an error is then reported.
BusCloses ==
  /\ bus = "closing"
  /\ pc["source"] = "idle"
  /\ bus' = IF SourceTold THEN "ended" ELSE "report"
  /\ UNCHANGED <<state, mutex, pc, control, unheard, data, counts>>

\* reportError()
BusReports ==
  /\ bus = "report"
  /\ state' = "terminating"
  /\ bus' = "wake"
  /\ UNCHANGED <<mutex, pc, control, unheard, data, counts>>

BusWakes ==
  /\ bus = "wake"
  /\ NotifyAll({})
  /\ bus' = "ended"
  /\ UNCHANGED <<state, mutex, control, data, counts>>

-----------------------------------------------------------------------------
(* The control thread.                                                     *)

\* start(): setState(Started), whatever the bus thread has set; startMuxing()
StartDone ==
  /\ control = "probing"
  /\ pc["reader"] = "test"
  /\ state' = "started"
  /\ control' = "running"
  /\ UNCHANGED <<mutex, pc, bus, unheard, data, counts>>

\* pause(): the state is tested and set ...
PauseTests ==
  /\ control = "running"
  /\ state = "started"
  /\ control' = "pausing"
  /\ UNCHANGED <<state, mutex, pc, bus, unheard, data, counts>>

PauseSets ==
  /\ control = "pausing"
  /\ state' = "paused"
  /\ control' = "pauseWake"
  /\ UNCHANGED <<mutex, pc, bus, unheard, data, counts>>

PauseWakes ==
  /\ control = "pauseWake"
  /\ NotifyAll({})
  /\ control' = "pauseJoin"
  /\ UNCHANGED <<state, mutex, bus, data, counts>>

\* ... and the muxer's thread is joined.
PauseJoins ==
  /\ control = "pauseJoin"
  /\ pc["reader"] = "off"
  /\ control' = "running"
  /\ UNCHANGED <<state, mutex, pc, bus, unheard, data, counts>>

ResumeTests ==
  /\ control = "running"
  /\ state = "paused"
  /\ resumes < MaxResumes
  /\ control' = "resuming"
  /\ resumes' = resumes + 1
  /\ UNCHANGED <<state, mutex, pc, bus, unheard, data, size, offered>>

ResumeSets ==
  /\ control = "resuming"
  /\ state' = "started"
  /\ control' = "running"
  /\ Goes("reader", "test", {})
  /\ UNCHANGED <<mutex, bus, unheard, data, counts>>

\* ~Caster
Destroy ==
  /\ control = "running"
  /\ state' = "terminating"
  /\ control' = "endWake"
  /\ UNCHANGED <<mutex, pc, bus, unheard, data, counts>>

EndWakes ==
  /\ control = "endWake"
  /\ NotifyAll({})
  /\ control' = "joinSource"
  /\ UNCHANGED <<state, mutex, bus, data, counts>>

\* ~DroidCamSource joins the bus thread.
JoinSource ==
  /\ control = "joinSource"
  /\ bus = "ended"
  /\ control' = "joinReader"
  /\ UNCHANGED <<state, mutex, pc, bus, unheard, data, counts>>

\* clean()
JoinReader ==
  /\ control = "joinReader"
  /\ pc["reader"] = "off"
  /\ control' = "done"
  /\ UNCHANGED <<state, mutex, pc, bus, unheard, data, counts>>

SourceStep == SourceClears \/ SourcePushes \/ SourceNotifies \/ Block("source")

ReaderStep ==
  \/ ProbeReads
  \/ MuxerTests
  \/ ReaderClears
  \/ ReaderPulls
  \/ ReaderNotifies
  \/ ReaderUses
  \/ ReaderReports
  \/ ReaderWakes
  \/ Block("reader")

\* What the control thread has begun.
ControlStep ==
  \/ PauseSets
  \/ PauseWakes
  \/ PauseJoins
  \/ ResumeSets
  \/ EndWakes
  \/ JoinSource
  \/ JoinReader

BusStep == BusCloses \/ BusReports \/ BusWakes

Next ==
  \/ \E s \in Sizes : SourceOffers(s)
  \/ \E side \in Sides : Acquire(side) \/ SpuriousWakeup(side)
  \/ SourceStep
  \/ ReaderStep
  \/ BusLeaves
  \/ BusStep
  \/ StartDone
  \/ PauseTests
  \/ ResumeTests
  \/ Destroy
  \/ ControlStep

(***************************************************************************)
(* Every thread runs on, and one that waits for the mutex, which is held   *)
(* for a copy of bytes only, gets it in the end.  The camera does not have *)
(* to deliver, nobody has to pause or to destroy the caster.               *)
(***************************************************************************)
Fairness ==
  /\ WF_vars(SourceStep)
  /\ WF_vars(ReaderStep)
  /\ WF_vars(ControlStep)
  /\ WF_vars(BusStep)
  /\ WF_vars(SourceTold /\ BusLeaves)
  /\ \A side \in Sides : SF_vars(Acquire(side))

SafeSpec == Init /\ [][Next]_vars

Spec == SafeSpec /\ Fairness
-----------------------------------------------------------------------------
(* Properties.                                                             *)

TypeOK ==
  /\ state \in {"starting", "started", "paused", "terminating"}
  /\ mutex \in Sides \cup {"none"}
  /\ pc["source"] \in {"idle", "lock", "block", "asleep", "woken", "check", "notify"}
  /\ pc["reader"] \in {"off", "test", "lock", "block", "asleep", "woken", "check",
                       "notify", "notifyEof", "use", "failing", "wake"}
  /\ \A side \in Sides : (mutex = side) <=> pc[side] \in {"check", "block"}
  /\ control \in {"probing", "running", "pausing", "pauseWake", "pauseJoin",
                  "resuming", "endWake", "joinSource", "joinReader", "done"}
  /\ bus \in {"running", "closing", "report", "wake", "ended"}
  /\ Len(buffer) <= Capacity
  /\ size \in Sizes \cup {0}
  /\ offered \in 0 .. MaxChunks
  /\ resumes \in 0 .. MaxResumes
  /\ unheard \subseteq Sides

\* The camera sent byte x before byte y.
Before(x, y) == x.chunk < y.chunk \/ (x.chunk = y.chunk /\ x.at < y.at)

(***************************************************************************)
(* What the demuxer reads is what the camera sent: whole chunks in their   *)
(* order, except for what is in the buffer when the caster is paused or    *)
(* ends; nothing is lost while the cast goes on, nothing is read twice.    *)
(***************************************************************************)
ChunksInOrder ==
  LET read == received \o buffer
  IN  /\ Range(read) = Range(accepted) \ cleared
      /\ \A i, j \in DOMAIN read : i < j => Before(read[i], read[j])

(***************************************************************************)
(* Neither side sleeps on what it waits for without a notification on its  *)
(* way, though both wait on one condition variable and notify_one() wakes  *)
(* either of them (caster.cpp l. 3975, 3986, 4153).                        *)
(***************************************************************************)
NoLostHandoff ==
  /\ pc["reader"] = "asleep" /\ buffer # <<>> => pc["source"] = "notify"
  /\ pc["source"] = "asleep" /\ HasRoom => pc["reader"] \in {"notify", "notifyEof"}

(***************************************************************************)
(* Neither side sleeps through a stop, unless the notification of it found *)
(* the side between its predicate and its sleep (the state is set without  *)
(* the mutex: caster.cpp l. 653, 734, 1061).                               *)
(***************************************************************************)
NotifyAllComes ==
  \/ control \in {"pauseWake", "endWake"}
  \/ bus = "wake"
  \/ pc["reader"] = "wake"

StopIsHeard == \A side \in Asleep : Stopped => side \in unheard \/ NotifyAllComes

(***************************************************************************)
(* When a wait is over its reason still holds: the reader never pulls from *)
(* an empty buffer, which the demuxer takes for the end of the stream, and *)
(* the source never drops a chunk (pushExact's result is ignored), except  *)
(* that a resume may come between its two looks at the state.              *)
(***************************************************************************)
WaitHolds ==
  /\ pc["reader"] = "check" => Stopped \/ buffer # <<>>
  /\ pc["source"] = "check" => Stopped \/ HasRoom \/ resumes > 0

\* Nobody is inside the caster's buffer, or about to report, when it is gone.
NobodyInsideAfterEnd ==
  control = "done" => /\ pc["source"] = "idle"
                      /\ pc["reader"] = "off"
                      /\ bus = "ended"

(***************************************************************************)
(* The camera's thread leaves the handler, whatever happens to the caster, *)
(* unless it missed the notification of a stop.                            *)
(***************************************************************************)
SourceIsLetGo == (pc["source"] # "idle") ~> (pc["source"] = "idle" \/ unheard # {})

(***************************************************************************)
(* ~Caster comes to its end: the source's thread leaves the handler, the   *)
(* bus thread and the muxer's thread end and both joins return, unless a   *)
(* side missed the notification.                                           *)
(***************************************************************************)
EndCompletes == (control = "endWake") ~> (control = "done" \/ unheard # {})
=============================================================================
