--------------------------- MODULE HttpConnections ---------------------------
(***************************************************************************)
(* The connections of HttpServer: m_connections under m_connMtx, shared by *)
(*   - the daemon's thread, which calls the connection handler, the content*)
(*     reader and the connection notifications;                            *)
(*   - the thread that pushes the stream of a caster (pushData) and the    *)
(*     loop thread, which drops connections;                               *)
(*   - the ghost thread, which removes connections suspended for too long; *)
(*   - the destructor.                                                     *)
(* A critical section is one step; what is read before it is taken, or     *)
(* without it, is a step of its own.                                       *)
(*                                                                         *)
(* The daemon is libmicrohttpd: a suspended connection is not served, and  *)
(* the loss of its client goes unnoticed, until it is resumed.  Data are   *)
(* counted in chunks.                                                      *)
(***************************************************************************)
EXTENDS Naturals, FiniteSets

CONSTANTS
  Conns,     \* connection identifiers
  Nobody,    \* the daemon's thread is in no callback
  Expiring,  \* connections that may be suspended for maxSuspendTime
  BufLimit   \* chunks that fit in a connection's buffer

ASSUME HttpAssumption ==
  /\ Nobody \notin Conns
  /\ Expiring \subseteq Conns
  /\ BufLimit \in Nat \ {0}

VARIABLES
  conn,       \* "absent", "open" or "closed": the keys of m_connections
  response,   \* "none", "callback" (a stream) or "static"
  pusher,     \* the thread that pushes the stream: "none", "idle", "inside" (it
              \* has passed the test of pushData) or "ended"
  buffered,   \* chunks in ConnectionCtx::buf
  removed,    \* ConnectionCtx::removed
  suspended,  \* ConnectionCtx::suspended
  mhd,        \* the daemon's view: "active", "suspended" or "resuming"
  left,       \* clients that are gone
  callback,   \* the callback the daemon's thread is in
  serving,    \* the connection it is in for
  stopping,   \* the destructor: "no", "flagged", "joined", "resumed", "stopped"
  overtaken   \* history: connections removed, or the server stopped, after
              \* the reader found neither and before it took the lock

vars == <<conn, response, pusher, buffered, removed, suspended, mhd, left,
          callback, serving, stopping, overtaken>>

\* m_shutdownRequested
ShutdownRequested == stopping # "no"

Init ==
  /\ conn = [c \in Conns |-> "absent"]
  /\ response = [c \in Conns |-> "none"]
  /\ pusher = [c \in Conns |-> "none"]
  /\ buffered = [c \in Conns |-> 0]
  /\ removed = {}
  /\ suspended = {}
  /\ mhd = [c \in Conns |-> "active"]
  /\ left = {}
  /\ callback = "none"
  /\ serving = Nobody
  /\ stopping = "no"
  /\ overtaken = {}

\* The daemon's thread enters and leaves its callbacks.
Enter(c, cb) ==
  /\ callback = "none"
  /\ stopping # "stopped"
  /\ callback' = cb
  /\ serving' = c

Leave ==
  /\ callback' = "none"
  /\ serving' = Nobody

\* resumeConnection(): only if ctx.suspended
Resume(cs) ==
  /\ suspended' = suspended \ cs
  /\ mhd' = [c \in Conns |-> IF c \in cs \cap suspended THEN "resuming" ELSE mhd[c]]

\* A reader that has passed its test does not see what happens now.
Overtakes(cs) ==
  overtaken' = IF callback = "reader" /\ serving \in cs
               THEN overtaken \cup {serving} ELSE overtaken

-----------------------------------------------------------------------------
(* The daemon's thread.                                                    *)

\* mhdNotifyConnectionCallback(STARTED): addMhdConnection
Connect(c) ==
  /\ callback = "none"
  /\ stopping # "stopped"
  /\ conn[c] = "absent"
  /\ conn' = [conn EXCEPT ![c] = "open"]
  /\ UNCHANGED <<response, pusher, buffered, removed, suspended, mhd, left,
                 callback, serving, stopping, overtaken>>

\* A request that the daemon hands to mhdConnectionHandler.
Requested(c) ==
  /\ conn[c] = "open"
  /\ response[c] = "none"
  /\ c \notin left

\* Once the server shuts down MHD_NO is returned: the daemon closes.
RefuseRequest(c) ==
  /\ Requested(c)
  /\ ShutdownRequested
  /\ Enter(c, "close")
  /\ UNCHANGED <<conn, response, pusher, buffered, removed, suspended, mhd,
                 left, stopping, overtaken>>

\* rejectMhdConnection: an empty answer that does not come from the buffer
RejectRequest(c) ==
  /\ Requested(c)
  /\ callback = "none"
  /\ ~ShutdownRequested
  /\ response' = [response EXCEPT ![c] = "static"]
  /\ UNCHANGED <<conn, pusher, buffered, removed, suspended, mhd, left,
                 callback, serving, stopping, overtaken>>

\* A page or the control API: the handler itself pushes the answer, which is
\* ignored on a removed connection.
RequestPage(c) ==
  /\ Requested(c)
  /\ ~ShutdownRequested
  /\ Enter(c, "respond")
  /\ \/ c \in removed /\ UNCHANGED buffered
     \/ /\ c \notin removed
        /\ buffered[c] < BufLimit
        /\ buffered' = [buffered EXCEPT ![c] = @ + 1]
  /\ UNCHANGED <<conn, response, pusher, removed, suspended, mhd, left,
                 stopping, overtaken>>

\* The stream: from now on a caster may push to the connection.  One request
\* for the stream on each connection is enough here.
RequestStream(c) ==
  /\ Requested(c)
  /\ ~ShutdownRequested
  /\ pusher[c] = "none"
  /\ Enter(c, "respond")
  /\ pusher' = [pusher EXCEPT ![c] = "idle"]
  /\ UNCHANGED <<conn, response, buffered, removed, suspended, mhd, left,
                 stopping, overtaken>>

\* ctx.buf.empty(), read without the lock, decides how the response is made.
Respond ==
  /\ callback = "respond"
  /\ response' = [response EXCEPT ![serving] =
                    IF buffered[serving] = 0 THEN "callback" ELSE "static"]
  /\ Leave
  /\ UNCHANGED <<conn, pusher, buffered, removed, suspended, mhd, left,
                 stopping, overtaken>>

\* The answer was sent and the connection is kept alive: it may carry another
\* request.  Nothing was taken out of the buffer (ptrForPull).
ResponseSent(c) ==
  /\ conn[c] = "open"
  /\ response[c] = "static"
  /\ callback = "none"
  /\ stopping # "stopped"
  /\ response' = [response EXCEPT ![c] = "none"]
  /\ UNCHANGED <<conn, pusher, buffered, removed, suspended, mhd, left,
                 callback, serving, stopping, overtaken>>

\* mhdContentReaderCallback: the test made before the lock is taken.
ReaderTests(c) ==
  /\ conn[c] = "open"
  /\ response[c] = "callback"
  /\ mhd[c] = "active"
  /\ Enter(c, IF ShutdownRequested \/ c \in removed THEN "close" ELSE "reader")
  /\ UNCHANGED <<conn, response, pusher, buffered, removed, suspended, mhd,
                 left, stopping, overtaken>>

\* The lock is free (if not, the reader is called again).
ReaderSuspends ==
  /\ callback = "reader"
  /\ buffered[serving] = 0
  /\ suspended' = suspended \cup {serving}
  /\ mhd' = IF serving \in suspended THEN mhd
            ELSE [mhd EXCEPT ![serving] = "suspended"]
  /\ Leave
  /\ UNCHANGED <<conn, response, pusher, buffered, removed, left, stopping,
                 overtaken>>

ReaderPulls ==
  /\ callback = "reader"
  /\ \E n \in 1 .. buffered[serving] :
       buffered' = [buffered EXCEPT ![serving] = @ - n]
  /\ Leave
  /\ UNCHANGED <<conn, response, pusher, removed, suspended, mhd, left,
                 stopping, overtaken>>

\* The daemon takes up a resumed connection again.
DaemonResumes(c) ==
  /\ mhd[c] = "resuming"
  /\ stopping # "stopped"
  /\ mhd' = [mhd EXCEPT ![c] = "active"]
  /\ UNCHANGED <<conn, response, pusher, buffered, removed, suspended, left,
                 callback, serving, stopping, overtaken>>

\* Only a connection that is not suspended is seen to have lost its client.
DaemonNoticesLeft(c) ==
  /\ c \in left
  /\ conn[c] = "open"
  /\ mhd[c] = "active"
  /\ Enter(c, "close")
  /\ UNCHANGED <<conn, response, pusher, buffered, removed, suspended, mhd,
                 left, stopping, overtaken>>

\* mhdNotifyConnectionCallback(CLOSED): removeConnection.  The context goes with
\* its buffer, and the daemon forgets the connection.
Close ==
  /\ callback = "close"
  /\ conn' = [conn EXCEPT ![serving] = "closed"]
  /\ response' = [response EXCEPT ![serving] = "none"]
  /\ buffered' = [buffered EXCEPT ![serving] = 0]
  /\ removed' = removed \cup {serving}
  /\ suspended' = suspended \ {serving}
  /\ mhd' = [mhd EXCEPT ![serving] = "active"]
  /\ left' = left \ {serving}
  /\ Leave
  /\ UNCHANGED <<pusher, stopping, overtaken>>

ClientLeaves(c) ==
  /\ conn[c] = "open"
  /\ c \notin left
  /\ left' = left \cup {c}
  /\ UNCHANGED <<conn, response, pusher, buffered, removed, suspended, mhd,
                 callback, serving, stopping, overtaken>>

-----------------------------------------------------------------------------
(* The other threads.                                                      *)

\* pushData(), the test made before the lock is taken.
PushTest(c) ==
  /\ pusher[c] = "idle"
  /\ ~ShutdownRequested
  /\ pusher' = [pusher EXCEPT ![c] = "inside"]
  /\ UNCHANGED <<conn, response, buffered, removed, suspended, mhd, left,
                 callback, serving, stopping, overtaken>>

\* connectionCtx() finds the connection and pushDataInternal() takes the data.
TakesData(c) == conn[c] = "open" /\ c \notin removed

\* variant: the connection is not resumed
Push_NoResume(c) ==
  /\ pusher[c] = "inside"
  /\ \/ /\ TakesData(c)
        /\ buffered[c] < BufLimit
        /\ buffered' = [buffered EXCEPT ![c] = @ + 1]
     \/ ~TakesData(c) /\ UNCHANGED buffered
  /\ pusher' = [pusher EXCEPT ![c] = "idle"]
  /\ UNCHANGED <<conn, response, removed, suspended, mhd, left, callback,
                 serving, stopping, overtaken>>

\* The lock is held: the data are added and the connection is resumed, or
\* nothing is done.
Push(c) ==
  /\ pusher[c] = "inside"
  /\ \/ /\ TakesData(c)
        /\ buffered[c] < BufLimit
        /\ buffered' = [buffered EXCEPT ![c] = @ + 1]
        /\ Resume({c})
     \/ ~TakesData(c) /\ UNCHANGED <<buffered, suspended, mhd>>
  /\ pusher' = [pusher EXCEPT ![c] = "idle"]
  /\ UNCHANGED <<conn, response, removed, left, callback, serving,
                 stopping, overtaken>>

\* pushExactForce() throws: the thread that pushes ends.
PushOverflows(c) ==
  /\ pusher[c] = "inside"
  /\ TakesData(c)
  /\ buffered[c] = BufLimit
  /\ pusher' = [pusher EXCEPT ![c] = "ended"]
  /\ UNCHANGED <<conn, response, buffered, removed, suspended, mhd, left,
                 callback, serving, stopping, overtaken>>

\* variant: a suspended connection is not resumed
DropConnection_NoResume(c) ==
  /\ pusher[c] # "none"
  /\ conn[c] = "open"
  /\ stopping = "no"
  /\ removed' = removed \cup {c}
  /\ Overtakes({c})
  /\ UNCHANGED <<conn, response, pusher, buffered, suspended, mhd, left,
                 callback, serving, stopping>>

\* dropConnection(), called from the loop thread for a connection that asked
\* for the stream.  ctx.suspended is not reset.
DropConnection(c) ==
  /\ pusher[c] # "none"
  /\ conn[c] = "open"
  /\ stopping = "no"
  /\ removed' = removed \cup {c}
  /\ mhd' = IF c \in suspended /\ mhd[c] = "suspended"
            THEN [mhd EXCEPT ![c] = "resuming"] ELSE mhd
  /\ Overtakes({c})
  /\ UNCHANGED <<conn, response, pusher, buffered, suspended, left, callback,
                 serving, stopping>>

\* variant: only connections already removed are looked at
RemoveGhosts_Removed(expired) ==
  /\ stopping \in {"no", "flagged"}
  /\ expired # {}
  /\ expired \subseteq suspended \cap Expiring \cap removed
  /\ removed' = removed \cup expired
  /\ Resume(expired)
  /\ Overtakes(expired)
  /\ UNCHANGED <<conn, response, pusher, buffered, left, callback, serving,
                 stopping>>

\* variant: the connections are marked and not resumed
RemoveGhosts_NoResume(expired) ==
  /\ stopping \in {"no", "flagged"}
  /\ expired # {}
  /\ expired \subseteq (suspended \cap Expiring) \ removed
  /\ removed' = removed \cup expired
  /\ Overtakes(expired)
  /\ UNCHANGED <<conn, response, pusher, buffered, suspended, mhd, left,
                 callback, serving, stopping>>

\* removeGhostConnections(): those among the suspended ones that are so for
\* maxSuspendTime.
RemoveGhosts(expired) ==
  /\ stopping \in {"no", "flagged"}
  /\ expired # {}
  /\ expired \subseteq (suspended \cap Expiring) \ removed
  /\ removed' = removed \cup expired
  /\ Resume(expired)
  /\ Overtakes(expired)
  /\ UNCHANGED <<conn, response, pusher, buffered, left, callback, serving,
                 stopping>>

-----------------------------------------------------------------------------
(* The destructor.                                                         *)

FlagShutdown ==
  /\ stopping = "no"
  /\ stopping' = "flagged"
  /\ Overtakes(Conns)
  /\ UNCHANGED <<conn, response, pusher, buffered, removed, suspended, mhd,
                 left, callback, serving>>

JoinGhostThread ==
  /\ stopping = "flagged"
  /\ stopping' = "joined"
  /\ UNCHANGED <<conn, response, pusher, buffered, removed, suspended, mhd,
                 left, callback, serving, overtaken>>

\* The lock is not taken.
ResumeAll ==
  /\ stopping = "joined"
  /\ stopping' = "resumed"
  /\ Resume(Conns)
  /\ UNCHANGED <<conn, response, pusher, buffered, removed, left, callback,
                 serving, overtaken>>

\* variant: it is left to the clients to go first
StopDaemon_Waits ==
  /\ stopping = "resumed"
  /\ \A c \in Conns : conn[c] # "open"
  /\ stopping' = "stopped"
  /\ UNCHANGED <<conn, response, pusher, buffered, removed, suspended, mhd, left,
                 callback, serving, overtaken>>

\* MHD_stop_daemon() ends the daemon's thread and closes what is still open.
StopDaemon ==
  /\ stopping = "resumed"
  /\ callback = "none"
  /\ stopping' = "stopped"
  /\ conn' = [c \in Conns |-> IF conn[c] = "open" THEN "closed" ELSE conn[c]]
  /\ removed' = removed \cup {c \in Conns : conn[c] = "open"}
  /\ response' = [c \in Conns |-> "none"]
  /\ buffered' = [c \in Conns |-> 0]
  /\ suspended' = {}
  /\ left' = {}
  /\ UNCHANGED <<pusher, mhd, callback, serving, overtaken>>

DaemonNext ==
  \/ Respond
  \/ ReaderSuspends
  \/ ReaderPulls
  \/ Close
  \/ \E c \in Conns :
       \/ Connect(c)
       \/ RefuseRequest(c)
       \/ RejectRequest(c)
       \/ RequestPage(c)
       \/ RequestStream(c)
       \/ ResponseSent(c)
       \/ ReaderTests(c)
       \/ DaemonResumes(c)
       \/ DaemonNoticesLeft(c)

OthersNext ==
  \/ \E c \in Conns :
       \/ ClientLeaves(c)
       \/ PushTest(c)
       \/ Push(c)
       \/ PushOverflows(c)
       \/ DropConnection(c)
  \/ \E expired \in SUBSET Conns : RemoveGhosts(expired)

DestructorNext == FlagShutdown \/ JoinGhostThread \/ ResumeAll \/ StopDaemon

Next == DaemonNext \/ OthersNext \/ DestructorNext

\* The daemon's thread and the destructor run; the daemon serves its connections
\* in turn, so that a busy one does not keep it from another; the ghost thread
\* looks again and again; a failed caster is stopped by the loop thread.
\* Nothing makes a client ask, read or leave.
Fairness ==
  /\ WF_vars(Respond) /\ WF_vars(ReaderSuspends) /\ WF_vars(ReaderPulls)
  /\ WF_vars(Close)
  /\ WF_vars(JoinGhostThread) /\ WF_vars(ResumeAll) /\ WF_vars(StopDaemon)
  /\ \A c \in Conns :
       /\ SF_vars(ReaderTests(c))
       /\ WF_vars(DaemonResumes(c))
       /\ SF_vars(DaemonNoticesLeft(c))
       /\ WF_vars(ResponseSent(c))
       /\ WF_vars(Push(c))
       /\ WF_vars(pusher[c] = "ended" /\ DropConnection(c))
       /\ WF_vars(\E expired \in SUBSET Conns : c \in expired /\ RemoveGhosts(expired))

Spec == Init /\ [][Next]_vars /\ Fairness

-----------------------------------------------------------------------------

\* A connection that still takes data is never left suspended with data in its
\* buffer: the reader suspends under the lock, and every push resumes.  This is
\* what keeps a stream from stalling although the data are there.
SuspendedHasNothingToSend ==
  \A c \in suspended \ removed : conn[c] = "open" => buffered[c] = 0

\* A removed connection is not suspended, so the daemon will find out and close
\* it, except where the removal fell between the reader's unlocked test and its
\* critical section (the reader then suspends a connection that nothing will
\* resume but the destructor).
RemovedIsAwake ==
  \A c \in removed : conn[c] = "open" /\ mhd[c] = "suspended" => c \in overtaken

\* The destructor leaves no connection suspended when it stops the daemon,
\* which libmicrohttpd requires, again but for a reader that was overtaken.
NoneSuspendedAtStop ==
  stopping \in {"resumed", "stopped"} =>
    \A c \in Conns : mhd[c] = "suspended" => c \in overtaken

\* No connection is forgotten while it is suspended: the three together.
NoForgottenSuspension ==
  /\ SuspendedHasNothingToSend
  /\ RemovedIsAwake
  /\ NoneSuspendedAtStop

\* A buffer with room for one chunk is emptied: what was pushed for a stream goes
\* to the client, unless the connection is removed, its client leaves or the
\* server stops.  This is about connections that never expire, where the ghost
\* thread does not make up for a resume that was missed.
PushedIsSent ==
  \A c \in Conns \ Expiring :
    (conn[c] = "open" /\ response[c] = "callback" /\ buffered[c] > 0)
      ~> (buffered[c] = 0 \/ c \in removed \/ c \in left \/ ShutdownRequested)

\* A stream whose connection is removed, by the loop thread or as a ghost, is
\* closed: the client is told that the cast is over.
RemovedIsClosed ==
  \A c \in Conns :
    (c \in removed /\ response[c] = "callback")
      ~> (conn[c] = "closed" \/ c \in overtaken)

\* A stream whose client is gone is closed although the daemon does not notice
\* while it is suspended: the ghost thread wakes it up when it has expired.
GoneClientIsClosed ==
  \A c \in Expiring :
    (c \in left /\ response[c] = "callback")
      ~> (conn[c] = "closed" \/ c \in overtaken)

\* The destructor comes to its end.
DestructorEnds == (stopping = "flagged") ~> (stopping = "stopped")

=============================================================================
