------------------------ MODULE HttpConnectionsProofs ------------------------
(***************************************************************************)
(* No connection is forgotten while it is suspended, and no buffer         *)
(* outgrows its maximum, for any number of connections and any size of     *)
(* their buffers.                                                          *)
(***************************************************************************)
EXTENDS HttpConnections, TLAPS

\* Every variable that matters here has its type.
HttpTypes ==
  /\ conn \in [Conns -> {"absent", "open", "closed"}]
  /\ response \in [Conns -> {"none", "callback", "static"}]
  /\ buffered \in [Conns -> Nat]
  /\ removed \subseteq Conns
  /\ suspended \subseteq Conns
  /\ mhd \in [Conns -> {"active", "suspended", "resuming"}]
  /\ callback \in {"none", "respond", "reader", "close"}
  /\ callback # "none" => serving \in Conns
  /\ stopping \in {"no", "flagged", "joined", "resumed", "stopped"}
  /\ overtaken \subseteq Conns

\* A buffer holds no more than fits.
BuffersFit == \A c \in Conns : buffered[c] <= BufLimit

\* The daemon is in a callback for an open connection that is not suspended.  If
\* it is in the reader, neither the connection was removed nor the server
\* stopped, unless that overtook the reader.
CallbackInv ==
  callback # "none" =>
    /\ conn[serving] = "open"
    /\ mhd[serving] # "suspended"
    /\ stopping # "stopped"
    /\ callback = "respond" => response[serving] = "none"
    /\ callback = "reader" =>
         /\ response[serving] = "callback"
         /\ serving \in removed \/ stopping # "no" => serving \in overtaken

\* HttpServer knows which connections are suspended: they are open streams, and
\* the daemon suspends none besides them until it is stopped.
SuspendedInv ==
  /\ \A c \in suspended : conn[c] = "open" /\ response[c] = "callback"
  /\ stopping # "stopped" => \A c \in Conns : mhd[c] = "suspended" => c \in suspended
  /\ stopping = "stopped" => \A c \in Conns : conn[c] # "open"

HttpInv ==
  HttpTypes /\ BuffersFit /\ CallbackInv /\ SuspendedInv /\ NoForgottenSuspension

-----------------------------------------------------------------------------
\* All connections are absent at first.
LEMMA HttpInit == Init => HttpInv
  BY HttpAssumption
     DEF Init, HttpInv, HttpTypes, BuffersFit, CallbackInv, SuspendedInv,
         NoForgottenSuspension, SuspendedHasNothingToSend, RemovedIsAwake,
         NoneSuspendedAtStop

\* The daemon opens a connection, takes its requests or answers them: nothing is
\* suspended, and only a page that is asked for fills a buffer.
LEMMA RequestsInv ==
  ASSUME HttpInv, NEW c \in Conns,
         \/ Connect(c) \/ RefuseRequest(c) \/ RejectRequest(c) \/ RequestPage(c)
         \/ RequestStream(c) \/ Respond \/ ResponseSent(c)
  PROVE  HttpInv'
<1> USE HttpAssumption DEF HttpInv, HttpTypes
<1>1. CASE Connect(c)
  BY <1>1 DEF Connect, BuffersFit, CallbackInv, SuspendedInv, NoForgottenSuspension,
              SuspendedHasNothingToSend, RemovedIsAwake, NoneSuspendedAtStop
<1>2. CASE RefuseRequest(c) \/ RequestStream(c)
  BY <1>2 DEF RefuseRequest, RequestStream, Requested, Enter, BuffersFit, CallbackInv,
              SuspendedInv, NoForgottenSuspension, SuspendedHasNothingToSend,
              RemovedIsAwake, NoneSuspendedAtStop
<1>3. CASE RequestPage(c)
  <2>1. c \notin suspended /\ mhd[c] # "suspended"
    BY <1>3 DEF RequestPage, Requested, Enter, SuspendedInv
  <2> QED BY <1>3, <2>1
          DEF RequestPage, Requested, Enter, BuffersFit, CallbackInv, SuspendedInv,
              NoForgottenSuspension, SuspendedHasNothingToSend, RemovedIsAwake,
              NoneSuspendedAtStop
<1>4. CASE RejectRequest(c) \/ ResponseSent(c)
  BY <1>4 DEF RejectRequest, ResponseSent, Requested, BuffersFit, CallbackInv,
              SuspendedInv, NoForgottenSuspension, SuspendedHasNothingToSend,
              RemovedIsAwake, NoneSuspendedAtStop
<1>5. CASE Respond
  BY <1>5 DEF Respond, Leave, BuffersFit, CallbackInv, SuspendedInv,
              NoForgottenSuspension, SuspendedHasNothingToSend, RemovedIsAwake,
              NoneSuspendedAtStop
<1> QED BY <1>1, <1>2, <1>3, <1>4, <1>5

\* The reader, the resumption and the end of a connection.
LEMMA ReaderInv ==
  ASSUME HttpInv, NEW c \in Conns,
         \/ ReaderTests(c) \/ ReaderSuspends \/ ReaderPulls \/ DaemonResumes(c)
         \/ DaemonNoticesLeft(c) \/ Close
  PROVE  HttpInv'
<1> USE HttpAssumption DEF HttpInv, HttpTypes
<1>1. CASE ReaderTests(c)
  BY <1>1 DEF ReaderTests, Enter, ShutdownRequested, BuffersFit, CallbackInv,
              SuspendedInv, NoForgottenSuspension, SuspendedHasNothingToSend,
              RemovedIsAwake, NoneSuspendedAtStop
<1>2. CASE ReaderSuspends
  BY <1>2 DEF ReaderSuspends, Leave, BuffersFit, CallbackInv,
              SuspendedInv, NoForgottenSuspension, SuspendedHasNothingToSend,
              RemovedIsAwake, NoneSuspendedAtStop
<1>3. CASE ReaderPulls
  BY <1>3 DEF ReaderPulls, Leave, BuffersFit, CallbackInv,
              SuspendedInv, NoForgottenSuspension, SuspendedHasNothingToSend,
              RemovedIsAwake, NoneSuspendedAtStop
<1>4. CASE DaemonResumes(c)
  BY <1>4 DEF DaemonResumes, BuffersFit, CallbackInv,
              SuspendedInv, NoForgottenSuspension, SuspendedHasNothingToSend,
              RemovedIsAwake, NoneSuspendedAtStop
<1>5. CASE DaemonNoticesLeft(c)
  BY <1>5 DEF DaemonNoticesLeft, Enter, BuffersFit, CallbackInv,
              SuspendedInv, NoForgottenSuspension, SuspendedHasNothingToSend,
              RemovedIsAwake, NoneSuspendedAtStop
<1>6. CASE Close
  BY <1>6 DEF Close, Leave, BuffersFit, CallbackInv,
              SuspendedInv, NoForgottenSuspension, SuspendedHasNothingToSend,
              RemovedIsAwake, NoneSuspendedAtStop
<1> QED BY <1>1, <1>2, <1>3, <1>4, <1>5, <1>6

\* The threads that push, drop and remove connections.
LEMMA OthersInv ==
  ASSUME HttpInv, NEW c \in Conns, NEW expired \in SUBSET Conns,
         \/ ClientLeaves(c) \/ PushTest(c) \/ Push(c) \/ PushOverflows(c)
         \/ DropConnection(c) \/ RemoveGhosts(expired)
  PROVE  HttpInv'
<1> USE HttpAssumption DEF HttpInv, HttpTypes
<1>1. CASE ClientLeaves(c) \/ PushTest(c) \/ PushOverflows(c)
  BY <1>1 DEF ClientLeaves, PushTest, PushOverflows, BuffersFit, CallbackInv,
              SuspendedInv, NoForgottenSuspension, SuspendedHasNothingToSend,
              RemovedIsAwake, NoneSuspendedAtStop
<1>2. CASE Push(c)
  BY <1>2 DEF Push, TakesData, Resume, BuffersFit, CallbackInv,
              SuspendedInv, NoForgottenSuspension, SuspendedHasNothingToSend,
              RemovedIsAwake, NoneSuspendedAtStop
<1>3. CASE DropConnection(c)
  BY <1>3 DEF DropConnection, Overtakes, BuffersFit, CallbackInv,
              SuspendedInv, NoForgottenSuspension, SuspendedHasNothingToSend,
              RemovedIsAwake, NoneSuspendedAtStop
<1>4. CASE RemoveGhosts(expired)
  BY <1>4 DEF RemoveGhosts, Resume, Overtakes, BuffersFit, CallbackInv,
              SuspendedInv, NoForgottenSuspension, SuspendedHasNothingToSend,
              RemovedIsAwake, NoneSuspendedAtStop
<1> QED BY <1>1, <1>2, <1>3, <1>4

\* The destructor.
LEMMA DestructorInv ==
  ASSUME HttpInv, DestructorNext
  PROVE  HttpInv'
<1> USE HttpAssumption DEF HttpInv, HttpTypes
<1>1. CASE FlagShutdown
  BY <1>1 DEF FlagShutdown, Overtakes, BuffersFit, CallbackInv,
              SuspendedInv, NoForgottenSuspension, SuspendedHasNothingToSend,
              RemovedIsAwake, NoneSuspendedAtStop
<1>2. CASE JoinGhostThread
  BY <1>2 DEF JoinGhostThread, BuffersFit, CallbackInv,
              SuspendedInv, NoForgottenSuspension, SuspendedHasNothingToSend,
              RemovedIsAwake, NoneSuspendedAtStop
<1>3. CASE ResumeAll
  BY <1>3 DEF ResumeAll, Resume, BuffersFit, CallbackInv,
              SuspendedInv, NoForgottenSuspension, SuspendedHasNothingToSend,
              RemovedIsAwake, NoneSuspendedAtStop
<1>4. CASE StopDaemon
  BY <1>4 DEF StopDaemon, BuffersFit, CallbackInv,
              SuspendedInv, NoForgottenSuspension, SuspendedHasNothingToSend,
              RemovedIsAwake, NoneSuspendedAtStop
<1> QED BY <1>1, <1>2, <1>3, <1>4 DEF DestructorNext

\* Every step keeps the invariant.
LEMMA HttpStep == HttpInv /\ [Next]_vars => HttpInv'
<1> SUFFICES ASSUME HttpInv, [Next]_vars PROVE HttpInv'
  OBVIOUS
<1>1. CASE DaemonNext
  <2>1. CASE Respond \/ ReaderSuspends \/ ReaderPulls \/ Close
    <3>1. serving \in Conns
      BY <2>1 DEF Respond, ReaderSuspends, ReaderPulls, Close, HttpInv, HttpTypes
    <3> QED BY <2>1, <3>1, RequestsInv, ReaderInv
  <2>2. CASE \E c \in Conns :
               \/ Connect(c) \/ RefuseRequest(c) \/ RejectRequest(c) \/ RequestPage(c)
               \/ RequestStream(c) \/ ResponseSent(c)
    BY <2>2, RequestsInv
  <2>3. CASE \E c \in Conns :
               ReaderTests(c) \/ DaemonResumes(c) \/ DaemonNoticesLeft(c)
    BY <2>3, ReaderInv
  <2> QED BY <1>1, <2>1, <2>2, <2>3 DEF DaemonNext
<1>2. CASE OthersNext
  <2>1. CASE \E c \in Conns :
               ClientLeaves(c) \/ PushTest(c) \/ Push(c) \/ PushOverflows(c)
                 \/ DropConnection(c)
    <3>1. PICK c \in Conns :
            ClientLeaves(c) \/ PushTest(c) \/ Push(c) \/ PushOverflows(c)
              \/ DropConnection(c)
      BY <2>1
    <3> QED BY <3>1, OthersInv
  <2>2. CASE \E expired \in SUBSET Conns : RemoveGhosts(expired)
    <3>1. PICK expired \in SUBSET Conns : RemoveGhosts(expired)
      BY <2>2
    <3>2. PICK c \in Conns : c \in expired
      BY <3>1 DEF RemoveGhosts
    <3> QED BY <3>1, <3>2, OthersInv
  <2> QED BY <1>2, <2>1, <2>2 DEF OthersNext
<1>3. CASE DestructorNext
  BY <1>3, DestructorInv
<1>4. CASE UNCHANGED vars
  BY <1>4 DEF vars, HttpInv, HttpTypes, BuffersFit, CallbackInv, SuspendedInv,
              NoForgottenSuspension, SuspendedHasNothingToSend, RemovedIsAwake,
              NoneSuspendedAtStop
<1> QED BY <1>1, <1>2, <1>3, <1>4 DEF Next

-----------------------------------------------------------------------------
\* No connection is left suspended with data to send, removed and suspended, or
\* suspended when the daemon is stopped, but for the one whose reader was
\* overtaken: for any number of connections, expiring or not.
THEOREM HttpSuspension == Spec => []NoForgottenSuspension
<1>1. HttpInv => NoForgottenSuspension
  BY DEF HttpInv
<1> QED BY <1>1, HttpInit, HttpStep, PTL DEF Spec

\* No buffer holds more than its maximum, although pages and casters push
\* without knowing of each other.
THEOREM HttpBuffers == Spec => []BuffersFit
<1>1. HttpInv => BuffersFit
  BY DEF HttpInv
<1> QED BY <1>1, HttpInit, HttpStep, PTL DEF Spec
=============================================================================
