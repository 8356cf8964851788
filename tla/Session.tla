------------------------------- MODULE Session -------------------------------
(***************************************************************************)
(* The casting session of Kamkast: which client gets which caster, and how *)
(* the session ends.  Four kinds of threads meet here:                     *)
(*   - the event loop, which runs Kamkast::handleEvent one event at a time *)
(*     and is the only one to create and destroy the caster;               *)
(*   - the thread of the HTTP daemon, which turns a stream request into    *)
(*     two events and reports closed connections;                          *)
(*   - the threads of a caster (its source and its muxer), which report    *)
(*     their failure through the state handler and are joined when the     *)
(*     caster is destroyed;                                                *)
(*   - the user: GUI cancel and the signal that shuts the program down.    *)
(*                                                                         *)
(* The event queue is the FIFO channel of EventChannel.  A connection asks *)
(* for at most one stream (its response has no end), so a caster is named  *)
(* by the connection it was created for.                                   *)
(***************************************************************************)
EXTENDS Naturals, Sequences, FiniteSets

CONSTANTS
  Conns,      \* connection identifiers
  NoConn,     \* an empty optional<ConnectionId>, an empty optional<Caster>
  Workers,    \* the threads of a caster that call its handlers: "source"
              \* (or none, if the source calls back from the muxer), "muxer"
  MaxCancels, \* bound: uses of the cancel button of the GUI
  MaxSignals  \* bound: SIGINTs

ASSUME SessionAssumption ==
  /\ NoConn \notin Conns
  /\ "muxer" \in Workers
  /\ MaxCancels \in Nat
  /\ MaxSignals \in Nat

EventTypes == {"StartServer", "StartCaster", "StopCaster", "CasterStarted",
               "CasterEnded"}

Event(type, conn) == [type |-> type, conn |-> conn]
Events == [type : EventTypes, conn : Conns \cup {NoConn}]

VARIABLES
  events,         \* the queue of the event loop
  shuttingDown,   \* the loop's m_shuttingDown
  loopPc,         \* where the loop thread is in handleEvent
  toStart,        \* the connection of the StartCaster event in progress
  dying,          \* the caster being destroyed
  server,         \* m_server: "none", "up" or "gone"
  caster,         \* m_caster: the connection it was made for, or NoConn
  castingConnId,  \* m_castingConnId
  state,          \* Caster::m_state of the caster of each connection
  worker,         \* where each thread of each caster is
  client,         \* each connection: "absent", "open" or "closed"
  requested,      \* the connections that asked for the stream
  removed,        \* the connections with ConnectionCtx::removed set
  mhdPc,          \* where the HTTP thread is
  mhdConn,        \* the connection it is serving
  casting,        \* the GUI shows a cast in progress (m_castingProps)
  cancels,        \* how often the user cancelled
  missedClose     \* history: connections whose closing was reported while
                  \* m_castingConnId did not name them

loopVars   == <<loopPc, toStart, dying>>
serverVars == <<server, client, requested, removed>>
casterVars == <<caster, castingConnId, state, worker>>
mhdVars    == <<mhdPc, mhdConn>>
vars == <<events, shuttingDown, loopVars, serverVars, casterVars, mhdVars,
          casting, cancels, missedClose>>

LoopPcs == {"idle", "drop", "reset", "join", "stopped", "emplace", "start",
            "sources", "mux", "reportEnded", "reportStop", "assign", "ended",
            "teardown", "lastJoin", "done"}

States == {"none", "inited", "starting", "started", "terminating", "destroyed"}

\* loop.enqueue(): a loop that shuts down drops the event.
Queue(es) == events' = IF shuttingDown THEN events ELSE events \o es

Init ==
  /\ events = <<Event("StartServer", NoConn)>>
  /\ shuttingDown = FALSE
  /\ loopPc = "idle"
  /\ toStart = NoConn
  /\ dying = NoConn
  /\ server = "none"
  /\ caster = NoConn
  /\ castingConnId = NoConn
  /\ state = [c \in Conns |-> "none"]
  /\ worker = [c \in Conns |-> [w \in Workers |-> "none"]]
  /\ client = [c \in Conns |-> "absent"]
  /\ requested = {}
  /\ removed = {}
  /\ mhdPc = "idle"
  /\ mhdConn = NoConn
  /\ casting = FALSE
  /\ cancels = 0
  /\ missedClose = {}

-----------------------------------------------------------------------------
(* The event loop: taking an event.                                        *)

Take(type) ==
  /\ loopPc = "idle"
  /\ ~shuttingDown
  /\ events # <<>>
  /\ Head(events).type = type
  /\ events' = Tail(events)

\* startServer(), notifyServerStarted(); a failure ends start() and main.
HandleStartServer ==
  /\ Take("StartServer")
  /\ \/ server' = "up" /\ UNCHANGED loopPc
     \/ loopPc' = "ended" /\ UNCHANGED server
  /\ UNCHANGED <<shuttingDown, toStart, dying, client, requested, removed,
                 casterVars, mhdVars, casting, cancels, missedClose>>

\* stopCaster() has something to do only if there is a caster.
HandleStartCaster ==
  /\ Take("StartCaster")
  /\ toStart' = Head(events).conn
  /\ loopPc' = IF caster # NoConn THEN "drop" ELSE "emplace"
  /\ UNCHANGED <<shuttingDown, dying, serverVars, casterVars, mhdVars, casting,
                 cancels, missedClose>>

HandleStopCaster ==
  /\ Take("StopCaster")
  /\ toStart' = NoConn
  /\ loopPc' = IF caster # NoConn THEN "drop" ELSE "idle"
  /\ UNCHANGED <<shuttingDown, dying, serverVars, casterVars, mhdVars, casting,
                 cancels, missedClose>>

\* notifyCastingStarted() does nothing without a caster.
HandleCasterStarted ==
  /\ Take("CasterStarted")
  /\ casting' = (casting \/ (server = "up" /\ caster # NoConn))
  /\ UNCHANGED <<shuttingDown, loopVars, serverVars, casterVars, mhdVars,
                 cancels, missedClose>>

HandleCasterEnded ==
  /\ Take("CasterEnded")
  /\ casting' = (casting /\ server # "up")
  /\ UNCHANGED <<shuttingDown, loopVars, serverVars, casterVars, mhdVars,
                 cancels, missedClose>>

-----------------------------------------------------------------------------
(* stopCaster().                                                           *)

\* The HTTP thread holds m_connMtx while it reports a closed connection.
ConnMtxFree == mhdPc \notin {"closeCheck", "closeRemove"}

\* HttpServer::dropConnection: nothing happens to a connection that is gone.
Dropped(c) == IF c \in Conns /\ client[c] = "open" THEN removed \cup {c} ELSE removed

\* Mutation of StopDrop: the client is not dropped.
StopDrop_Keeps ==
  /\ loopPc = "drop"
  /\ loopPc' = "reset"
  /\ UNCHANGED <<events, shuttingDown, toStart, dying, serverVars, casterVars,
                 mhdVars, casting, cancels, missedClose>>

\* if (m_castingConnId) m_server->dropConnection(*m_castingConnId);
StopDrop ==
  /\ loopPc = "drop"
  /\ ConnMtxFree
  /\ removed' = Dropped(castingConnId)
  /\ loopPc' = "reset"
  /\ UNCHANGED <<events, shuttingDown, toStart, dying, server, client, requested,
                 casterVars, mhdVars, casting, cancels, missedClose>>

\* m_caster.reset(): ~Caster first sets the state, without notification.
StopReset ==
  /\ loopPc = "reset"
  /\ dying' = caster
  /\ caster' = NoConn
  /\ state' = [state EXCEPT ![caster] = "terminating"]
  /\ loopPc' = "join"
  /\ UNCHANGED <<events, shuttingDown, toStart, serverVars, castingConnId, worker,
                 mhdVars, casting, cancels, missedClose>>

\* The sources are stopped and clean() joins the threads.
Joined(c) == \A w \in Workers : worker[c][w] \in {"none", "gone"}

\* Mutation of StopJoin: the threads are left to end by themselves.
StopJoin_Detached ==
  /\ loopPc = "join"
  /\ state' = [state EXCEPT ![dying] = "destroyed"]
  /\ dying' = NoConn
  /\ loopPc' = "stopped"
  /\ UNCHANGED <<events, shuttingDown, toStart, serverVars, caster, castingConnId,
                 worker, mhdVars, casting, cancels, missedClose>>

StopJoin ==
  /\ loopPc = "join"
  /\ Joined(dying)
  /\ state' = [state EXCEPT ![dying] = "destroyed"]
  /\ dying' = NoConn
  /\ loopPc' = "stopped"
  /\ UNCHANGED <<events, shuttingDown, toStart, serverVars, caster, castingConnId,
                 worker, mhdVars, casting, cancels, missedClose>>

\* Mutation of StopEnded: the end is not announced.
StopEnded_Silent ==
  /\ loopPc = "stopped"
  /\ loopPc' = IF toStart = NoConn THEN "idle" ELSE "emplace"
  /\ UNCHANGED <<events, shuttingDown, toStart, dying, serverVars, casterVars,
                 mhdVars, casting, cancels, missedClose>>

StopEnded ==
  /\ loopPc = "stopped"
  /\ Queue(<<Event("CasterEnded", NoConn)>>)
  /\ loopPc' = IF toStart = NoConn THEN "idle" ELSE "emplace"
  /\ UNCHANGED <<shuttingDown, toStart, dying, serverVars, casterVars, mhdVars,
                 casting, cancels, missedClose>>

-----------------------------------------------------------------------------
(* startCaster(connId), with connId = toStart, and Caster::start().        *)

\* m_caster.emplace(...)
Emplace ==
  /\ loopPc = "emplace"
  /\ caster' = toStart
  /\ state' = [state EXCEPT ![toStart] = "inited"]
  /\ loopPc' = "start"
  /\ UNCHANGED <<events, shuttingDown, toStart, dying, serverVars, castingConnId,
                 worker, mhdVars, casting, cancels, missedClose>>

\* The constructor throws: the client is dropped.
EmplaceFails ==
  /\ loopPc = "emplace"
  /\ ConnMtxFree
  /\ removed' = Dropped(toStart)
  /\ state' = [state EXCEPT ![toStart] = "destroyed"]
  /\ loopPc' = "idle"
  /\ UNCHANGED <<events, shuttingDown, toStart, dying, server, client, requested,
                 caster, castingConnId, worker, mhdVars, casting, cancels,
                 missedClose>>

\* setState(Starting); startVideoSource() may have started its thread.
StartSources ==
  /\ loopPc = "start"
  /\ state' = [state EXCEPT ![toStart] = "starting"]
  /\ IF "source" \in Workers
     THEN worker' = [worker EXCEPT ![toStart]["source"] = "running"]
     ELSE UNCHANGED worker
  /\ loopPc' = "sources"
  /\ UNCHANGED <<events, shuttingDown, toStart, dying, serverVars, caster,
                 castingConnId, mhdVars, casting, cancels, missedClose>>

\* setState(Started), whatever the source thread has set meanwhile.
StartDone ==
  /\ loopPc = "sources"
  /\ state' = [state EXCEPT ![toStart] = "started"]
  /\ Queue(<<Event("CasterStarted", toStart)>>)
  /\ loopPc' = "mux"
  /\ UNCHANGED <<shuttingDown, toStart, dying, serverVars, caster, castingConnId,
                 worker, mhdVars, casting, cancels, missedClose>>

\* startMuxing()
StartMuxing ==
  /\ loopPc = "mux"
  /\ worker' = [worker EXCEPT ![toStart]["muxer"] = "running"]
  /\ loopPc' = "assign"
  /\ UNCHANGED <<events, shuttingDown, toStart, dying, serverVars, caster,
                 castingConnId, state, mhdVars, casting, cancels, missedClose>>

\* A source, startAv() or startPa() throws; start() reports it and returns.
StartFails ==
  /\ loopPc = "sources"
  /\ state' = [state EXCEPT ![toStart] = "terminating"]
  /\ loopPc' = IF state[toStart] = "terminating" THEN "assign" ELSE "reportEnded"
  /\ UNCHANGED <<events, shuttingDown, toStart, dying, serverVars, caster,
                 castingConnId, worker, mhdVars, casting, cancels, missedClose>>

\* The state handler of Kamkast, called on the loop thread: two events.
StartReportEnded ==
  /\ loopPc = "reportEnded"
  /\ Queue(<<Event("CasterEnded", toStart)>>)
  /\ loopPc' = "reportStop"
  /\ UNCHANGED <<shuttingDown, toStart, dying, serverVars, casterVars, mhdVars,
                 casting, cancels, missedClose>>

StartReportStop ==
  /\ loopPc = "reportStop"
  /\ Queue(<<Event("StopCaster", NoConn)>>)
  /\ loopPc' = "assign"
  /\ UNCHANGED <<shuttingDown, toStart, dying, serverVars, casterVars, mhdVars,
                 casting, cancels, missedClose>>

\* Mutation of Assign: an earlier connection stays recorded.
Assign_Once ==
  /\ loopPc = "assign"
  /\ castingConnId' = IF castingConnId = NoConn THEN toStart ELSE castingConnId
  /\ loopPc' = "idle"
  /\ UNCHANGED <<events, shuttingDown, toStart, dying, serverVars, caster, state,
                 worker, mhdVars, casting, cancels, missedClose>>

\* m_castingConnId = connId, only now.
Assign ==
  /\ loopPc = "assign"
  /\ castingConnId' = toStart
  /\ loopPc' = "idle"
  /\ UNCHANGED <<events, shuttingDown, toStart, dying, serverVars, caster, state,
                 worker, mhdVars, casting, cancels, missedClose>>

-----------------------------------------------------------------------------
(* The threads of caster c.                                                *)

\* A thread fails: reportError(), setState(Terminating) sees another state.
WorkerFails(c, w) ==
  /\ worker[c][w] = "running"
  /\ state[c] # "terminating"
  /\ worker' = [worker EXCEPT ![c][w] = "failing"]
  /\ UNCHANGED <<events, shuttingDown, loopVars, serverVars, caster,
                 castingConnId, state, mhdVars, casting, cancels, missedClose>>

\* ... writes the new one (m_state is not protected) ...
WorkerSetsState(c, w) ==
  /\ worker[c][w] = "failing"
  /\ state' = [state EXCEPT ![c] = "terminating"]
  /\ worker' = [worker EXCEPT ![c][w] = "reportEnded"]
  /\ UNCHANGED <<events, shuttingDown, loopVars, serverVars, caster,
                 castingConnId, mhdVars, casting, cancels, missedClose>>

\* ... and the state handler sends two events, after which the thread ends.
WorkerReportsEnded(c, w) ==
  /\ worker[c][w] = "reportEnded"
  /\ Queue(<<Event("CasterEnded", c)>>)
  /\ worker' = [worker EXCEPT ![c][w] = "reportStop"]
  /\ UNCHANGED <<shuttingDown, loopVars, serverVars, caster, castingConnId, state,
                 mhdVars, casting, cancels, missedClose>>

\* Mutation of WorkerReportsStop: only the end is announced.
WorkerReportsStop_Silent(c, w) ==
  /\ worker[c][w] = "reportStop"
  /\ worker' = [worker EXCEPT ![c][w] = "gone"]
  /\ UNCHANGED <<events, shuttingDown, loopVars, serverVars, caster,
                 castingConnId, state, mhdVars, casting, cancels, missedClose>>

WorkerReportsStop(c, w) ==
  /\ worker[c][w] = "reportStop"
  /\ Queue(<<Event("StopCaster", NoConn)>>)
  /\ worker' = [worker EXCEPT ![c][w] = "gone"]
  /\ UNCHANGED <<shuttingDown, loopVars, serverVars, caster, castingConnId, state,
                 mhdVars, casting, cancels, missedClose>>

\* while (!terminating()): the thread leaves its loop, or fails unreported.
WorkerEnds(c, w) ==
  /\ worker[c][w] = "running"
  /\ state[c] = "terminating"
  /\ worker' = [worker EXCEPT ![c][w] = "gone"]
  /\ UNCHANGED <<events, shuttingDown, loopVars, serverVars, caster,
                 castingConnId, state, mhdVars, casting, cancels, missedClose>>

-----------------------------------------------------------------------------
(* The HTTP thread.                                                        *)

Connect(c) ==
  /\ server = "up"
  /\ mhdPc = "idle"
  /\ client[c] = "absent"
  /\ client' = [client EXCEPT ![c] = "open"]
  /\ UNCHANGED <<events, shuttingDown, loopVars, server, requested, removed,
                 casterVars, mhdVars, casting, cancels, missedClose>>

\* handleStreamRequest(): StopCaster, then StartCaster for the connection.
StreamRequest(c) ==
  /\ server = "up"
  /\ mhdPc = "idle"
  /\ client[c] = "open"
  /\ c \notin requested
  /\ Queue(<<Event("StopCaster", NoConn)>>)
  /\ mhdPc' = "request"
  /\ mhdConn' = c
  /\ UNCHANGED <<shuttingDown, loopVars, serverVars, casterVars, casting, cancels,
                 missedClose>>

\* Mutation of StreamRequestStart: a running cast is taken for one that stays.
StreamRequestStart_IfFree ==
  /\ mhdPc = "request"
  /\ IF caster = NoConn THEN Queue(<<Event("StartCaster", mhdConn)>>)
                         ELSE UNCHANGED events
  /\ requested' = requested \cup {mhdConn}
  /\ mhdPc' = "idle"
  /\ mhdConn' = NoConn
  /\ UNCHANGED <<shuttingDown, loopVars, server, client, removed, casterVars,
                 casting, cancels, missedClose>>

StreamRequestStart ==
  /\ mhdPc = "request"
  /\ Queue(<<Event("StartCaster", mhdConn)>>)
  /\ requested' = requested \cup {mhdConn}
  /\ mhdPc' = "idle"
  /\ mhdConn' = NoConn
  /\ UNCHANGED <<shuttingDown, loopVars, server, client, removed, casterVars,
                 casting, cancels, missedClose>>

\* A connection without data for maxSuspendTime is marked as a ghost.
GhostRemoved(c) ==
  /\ server = "up"
  /\ ConnMtxFree
  /\ client[c] = "open"
  /\ c \in requested
  /\ removed' = removed \cup {c}
  /\ UNCHANGED <<events, shuttingDown, loopVars, server, client, requested,
                 casterVars, mhdVars, casting, cancels, missedClose>>

\* The client leaves, or the reader of a removed connection ends it:
\* if (id == m_castingConnId && m_caster ...
CloseBegins(c) ==
  /\ server = "up"
  /\ mhdPc = "idle"
  /\ client[c] = "open"
  /\ mhdConn' = c
  /\ mhdPc' = IF castingConnId = c /\ caster # NoConn
              THEN "closeCheck" ELSE "closeRemove"
  /\ missedClose' = IF castingConnId = c THEN missedClose
                    ELSE missedClose \cup {c}
  /\ UNCHANGED <<events, shuttingDown, loopVars, serverVars, casterVars, casting,
                 cancels>>

\* Mutation of CloseChecks: the caster is not stopped.
CloseChecks_Silent ==
  /\ mhdPc = "closeCheck"
  /\ mhdPc' = "closeRemove"
  /\ UNCHANGED <<events, shuttingDown, loopVars, serverVars, casterVars, mhdConn,
                 casting, cancels, missedClose>>

\* ... && !m_caster->terminating()): of a caster that may be gone by now.
CloseChecks ==
  /\ mhdPc = "closeCheck"
  /\ \E terminating \in (IF caster = NoConn THEN BOOLEAN
                         ELSE {state[caster] = "terminating"}) :
       IF terminating THEN UNCHANGED events
       ELSE Queue(<<Event("StopCaster", mhdConn)>>)
  /\ mhdPc' = "closeRemove"
  /\ UNCHANGED <<shuttingDown, loopVars, serverVars, casterVars, mhdConn, casting,
                 cancels, missedClose>>

\* removeConnection(id)
CloseRemoves ==
  /\ mhdPc = "closeRemove"
  /\ client' = [client EXCEPT ![mhdConn] = "closed"]
  /\ removed' = removed \cup {mhdConn}
  /\ mhdPc' = "idle"
  /\ mhdConn' = NoConn
  /\ UNCHANGED <<events, shuttingDown, loopVars, server, requested, casterVars,
                 casting, cancels, missedClose>>

-----------------------------------------------------------------------------
(* The user, and the end of the program.                                   *)

\* SfosGui::cancelCasting()
Cancel ==
  /\ cancels < MaxCancels
  /\ loopPc \notin {"ended", "teardown", "lastJoin", "done"}
  /\ cancels' = cancels + 1
  /\ Queue(<<Event("StopCaster", NoConn)>>)
  /\ UNCHANGED <<shuttingDown, loopVars, serverVars, casterVars, mhdVars, casting,
                 missedClose>>

\* SIGINT
Shutdown ==
  /\ MaxSignals > 0
  /\ ~shuttingDown
  /\ shuttingDown' = TRUE
  /\ UNCHANGED <<events, loopVars, serverVars, casterVars, mhdVars, casting,
                 cancels, missedClose>>

\* loop() returns, and main destroys Kamkast.
LoopEnds ==
  /\ loopPc = "idle"
  /\ shuttingDown
  /\ loopPc' = "ended"
  /\ UNCHANGED <<events, shuttingDown, toStart, dying, serverVars, casterVars,
                 mhdVars, casting, cancels, missedClose>>

\* ~Kamkast calls shutdown(); m_server is the first member to go, and the
\* daemon's thread is joined with every connection closed.
DestroyServer ==
  /\ loopPc = "ended"
  /\ mhdPc = "idle"
  /\ shuttingDown' = TRUE
  /\ server' = "gone"
  /\ client' = [c \in Conns |-> IF client[c] = "open" THEN "closed" ELSE client[c]]
  /\ loopPc' = "teardown"
  /\ UNCHANGED <<events, toStart, dying, requested, removed, casterVars, mhdVars,
                 casting, cancels, missedClose>>

\* Mutation of DestroyCaster: the threads are not told to end.
DestroyCaster_Untold ==
  /\ loopPc = "teardown"
  /\ IF caster = NoConn
     THEN /\ loopPc' = "done"
          /\ UNCHANGED <<dying, caster>>
     ELSE /\ loopPc' = "lastJoin"
          /\ dying' = caster
          /\ caster' = NoConn
  /\ UNCHANGED <<events, shuttingDown, toStart, serverVars, castingConnId, state,
                 worker, mhdVars, casting, cancels, missedClose>>

\* m_caster goes next.
DestroyCaster ==
  /\ loopPc = "teardown"
  /\ IF caster = NoConn
     THEN /\ loopPc' = "done"
          /\ UNCHANGED <<dying, caster, state>>
     ELSE /\ loopPc' = "lastJoin"
          /\ dying' = caster
          /\ caster' = NoConn
          /\ state' = [state EXCEPT ![caster] = "terminating"]
  /\ UNCHANGED <<events, shuttingDown, toStart, serverVars, castingConnId, worker,
                 mhdVars, casting, cancels, missedClose>>

LastJoin ==
  /\ loopPc = "lastJoin"
  /\ Joined(dying)
  /\ state' = [state EXCEPT ![dying] = "destroyed"]
  /\ dying' = NoConn
  /\ loopPc' = "done"
  /\ UNCHANGED <<events, shuttingDown, toStart, serverVars, caster, castingConnId,
                 worker, mhdVars, casting, cancels, missedClose>>

-----------------------------------------------------------------------------

LoopStep ==
  \/ HandleStartServer
  \/ HandleStartCaster
  \/ HandleStopCaster
  \/ HandleCasterStarted
  \/ HandleCasterEnded
  \/ StopDrop
  \/ StopReset
  \/ StopJoin
  \/ StopEnded
  \/ Emplace
  \/ EmplaceFails
  \/ StartSources
  \/ StartDone
  \/ StartMuxing
  \/ StartFails
  \/ StartReportEnded
  \/ StartReportStop
  \/ Assign
  \/ LoopEnds
  \/ DestroyServer
  \/ DestroyCaster
  \/ LastJoin

\* What a thread of a caster does once it has failed or been told to end.
WorkerFinishes(c, w) ==
  \/ WorkerSetsState(c, w)
  \/ WorkerReportsEnded(c, w)
  \/ WorkerReportsStop(c, w)
  \/ WorkerEnds(c, w)

\* What the HTTP thread does once it has entered a callback.
MhdFinishes == StreamRequestStart \/ CloseChecks \/ CloseRemoves

Next ==
  \/ LoopStep
  \/ MhdFinishes
  \/ \E c \in Conns, w \in Workers : WorkerFails(c, w) \/ WorkerFinishes(c, w)
  \/ \E c \in Conns : \/ Connect(c)
                      \/ StreamRequest(c)
                      \/ GhostRemoved(c)
                      \/ CloseBegins(c)
  \/ Cancel
  \/ Shutdown

(***************************************************************************)
(* The loop, the callbacks of the HTTP thread and the ending threads of a  *)
(* caster run on.  No client has to come or leave, nothing has to fail,    *)
(* the user has to do nothing.                                             *)
(***************************************************************************)
Fairness ==
  /\ WF_vars(LoopStep)
  /\ WF_vars(MhdFinishes)
  /\ \A c \in Conns, w \in Workers : WF_vars(WorkerFinishes(c, w))

SafeSpec == Init /\ [][Next]_vars

Spec == SafeSpec /\ Fairness
-----------------------------------------------------------------------------
(* Properties.                                                             *)

TypeOK ==
  /\ events \in Seq(Events)
  /\ shuttingDown \in BOOLEAN
  /\ loopPc \in LoopPcs
  /\ toStart \in Conns \cup {NoConn}
  /\ dying \in Conns \cup {NoConn}
  /\ server \in {"none", "up", "gone"}
  /\ caster \in Conns \cup {NoConn}
  /\ castingConnId \in Conns \cup {NoConn}
  /\ state \in [Conns -> States]
  /\ worker \in [Conns -> [Workers -> {"none", "running", "failing",
                                       "reportEnded", "reportStop", "gone"}]]
  /\ client \in [Conns -> {"absent", "open", "closed"}]
  /\ requested \subseteq Conns
  /\ removed \subseteq Conns
  /\ mhdPc \in {"idle", "request", "closeCheck", "closeRemove"}
  /\ mhdConn \in Conns \cup {NoConn}
  /\ casting \in BOOLEAN
  /\ cancels \in 0 .. MaxCancels
  /\ missedClose \subseteq Conns

Pending(type) == \E i \in DOMAIN events : events[i].type = type
PendingStart(c) ==
  \E i \in DOMAIN events : events[i].type = "StartCaster" /\ events[i].conn = c

Reporting(c) ==
  \E w \in Workers : worker[c][w] \in {"failing", "reportEnded", "reportStop"}

\* The loop thread is between creating caster c and taking the next event.
Starting(c) ==
  /\ toStart = c
  /\ loopPc \in {"drop", "reset", "join", "stopped", "emplace", "start", "sources",
                 "mux", "reportEnded", "reportStop", "assign"}

(***************************************************************************)
(* Between two events m_castingConnId names the client of m_caster, though *)
(* it is written only after start() and never cleared: stopCaster (l. 275) *)
(* and the handler of closed connections (l. 440) depend on it.            *)
(***************************************************************************)
OwnerIsRecorded == loopPc = "idle" /\ caster # NoConn => castingConnId = caster

(***************************************************************************)
(* The threads of a caster never outlive it: while one caster exists, or   *)
(* none, no thread of another can push data or report a failure.  Failures *)
(* reach the queue before the caster's end is announced (l. 276-277).      *)
(***************************************************************************)
NoSurvivingThread ==
  \A c \in Conns : c \notin {caster, dying} => Joined(c)

(***************************************************************************)
(* No client is left hanging: an open stream connection has a caster, will *)
(* get one, or has been told to end.  This is what dropConnection is for   *)
(* in stopCaster (l. 275) and after a failed construction (l. 233).        *)
(***************************************************************************)
NoOrphanClient ==
  \A c \in requested :
    client[c] = "open" /\ ~shuttingDown =>
      \/ c \in removed
      \/ PendingStart(c)
      \/ Starting(c)
      \/ caster = c

(***************************************************************************)
(* A caster streams to a connection that no longer exists only if the      *)
(* closing was reported too early for m_castingConnId: before the start of *)
(* the caster, or during it (l. 237-245, 440).                             *)
(***************************************************************************)
GhostCasterOnlyByEarlyClose ==
  \A c \in Conns :
    /\ loopPc = "idle"
    /\ caster = c
    /\ client[c] = "closed"
    /\ ~shuttingDown
    => \/ Pending("StopCaster") \/ Pending("StartCaster")
       \/ Reporting(c)
       \/ c \in missedClose

(***************************************************************************)
(* Once every event is handled the GUI is right about whether a cast is in *)
(* progress, although the ends of two casters and the start of a third may *)
(* have been announced in any order (l. 223-229, 277).                     *)
(***************************************************************************)
GuiSettles ==
  /\ loopPc = "idle"
  /\ events = <<>>
  /\ ~shuttingDown
  /\ \A c \in Conns : ~Reporting(c)
  => (casting <=> caster # NoConn)

(***************************************************************************)
(* A failure ends the caster and marks its connection for removal.         *)
(***************************************************************************)
FailedCasterEnds ==
  \A c \in Conns :
    state[c] = "terminating" ~>
      \/ state[c] = "destroyed" /\ (c \in removed \/ client[c] # "open")
      \/ shuttingDown

(***************************************************************************)
(* Every stream request that is accepted gets its caster, or its client is *)
(* let go.                                                                 *)
(***************************************************************************)
RequestIsServed ==
  \A c \in Conns :
    c \in requested ~> state[c] # "none" \/ shuttingDown

\* Once the loop has ended, the program ends: nobody waits for anybody.
TeardownCompletes == (loopPc = "ended") ~> (loopPc = "done")
=============================================================================
