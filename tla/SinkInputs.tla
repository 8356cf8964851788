----------------------------- MODULE SinkInputs -----------------------------
(***************************************************************************)
(* How a caster captures the sound of other programs: its client of        *)
(* PulseAudio keeps a list of sink inputs (m_paSinkInputs), records one    *)
(* that plays and, on Sailfish with the option MuteAudioSource, moves that *)
(* one to a null sink, so that it is not heard, and back when it is done.  *)
(*                                                                         *)
(* The server and its protocol are external: requests are executed in the  *)
(* order in which they were sent, and answers and events come in the order *)
(* in which they were made.  What the client knows is therefore late, and  *)
(* its requests cross with answers.  Callbacks run one at a time in the PA *)
(* thread, at the end in cleanPa().                                        *)
(*                                                                         *)
(* Inputs are those of clients that paClientShouldBeIgnored() lets pass.   *)
(***************************************************************************)
EXTENDS Naturals, Sequences, FiniteSets, SequencesExt

CONSTANTS
  Inputs,      \* sink inputs; the server does not use an index twice
  None,        \* PA_INVALID_INDEX
  MuteSource,  \* the option MuteAudioSource
  MaxChanges   \* bound: how often programs pause and go on

ASSUME SinkInputsAssumption ==
  /\ IsFiniteSet(Inputs)
  /\ None \notin Inputs
  /\ MuteSource \in BOOLEAN
  /\ MaxChanges \in Nat

VARIABLES
  \* the server
  born,        \* inputs that were created
  alive,       \* inputs that exist
  playing,     \* inputs that are not corked
  silenced,    \* inputs that are on the null sink
  subscribed,  \* the client is told of events
  changes,     \* how often programs paused or went on
  requests,    \* requests on their way to the server
  replies,     \* answers and events on their way to the client
  \* m_paSinkInputs
  known,       \* its keys
  corked,      \* entries with corked
  removed,     \* entries with removed
  muted,       \* entries with muted
  homeNull,    \* entries whose sinkIdx is the null sink
  \* the caster
  connected,   \* m_connectedPaSinkInput
  stream,      \* m_paStream is there
  announced,   \* what the GUI was told
  thread,      \* the PA thread, then cleanPa()
  terminating, \* m_state
  skipped,     \* history: the last reconnect came too early
  mistaken     \* history: entries whose sinkIdx ever was the null sink

server  == <<born, alive, playing, silenced, subscribed, changes>>
entries == <<known, corked, removed, muted, homeNull>>
caster  == <<connected, stream, announced>>
history == <<skipped, mistaken>>
vars == <<server, requests, replies, entries, caster, thread, terminating, history>>

Init ==
  /\ born = {}
  /\ alive = {}
  /\ playing = {}
  /\ silenced = {}
  /\ subscribed = FALSE
  /\ changes = 0
  /\ requests = <<[type |-> "subscribe"]>>
  /\ replies = <<>>
  /\ known = {}
  /\ corked = {}
  /\ removed = {}
  /\ muted = {}
  /\ homeNull = {}
  /\ connected = None
  /\ stream = FALSE
  /\ announced = None
  /\ thread = "starting"
  /\ terminating = FALSE
  /\ skipped = FALSE
  /\ mistaken = {}

Requests ==
  [type : {"subscribe", "list"}] \cup
  [type : {"info"}, input : Inputs] \cup
  [type : {"move"}, input : Inputs, null : BOOLEAN]

Replies ==
  [type : {"subscribed"}] \cup
  [type : {"new", "change", "remove"}, input : Inputs] \cup
  [type : {"info"}, input : Inputs, corked : BOOLEAN, null : BOOLEAN]

-----------------------------------------------------------------------------
(* The server.                                                             *)

Event(type, i) == [type |-> type, input |-> i]

\* What is sent to the client is lost when it has gone.
Send(messages) ==
  replies' = IF thread = "gone" THEN <<>> ELSE replies \o messages

Notify(type, i) == Send(IF subscribed THEN <<Event(type, i)>> ELSE <<>>)

Client == <<requests, entries, caster, thread, terminating, history>>

\* A program begins to play, or is about to.
InputCreated(i) ==
  /\ i \notin born
  /\ born' = born \cup {i}
  /\ alive' = alive \cup {i}
  /\ playing' \in {playing, playing \cup {i}}
  /\ Notify("new", i)
  /\ UNCHANGED <<silenced, subscribed, changes, Client>>

\* It pauses or goes on.
InputChanged(i) ==
  /\ i \in alive
  /\ changes < MaxChanges
  /\ changes' = changes + 1
  /\ playing' = IF i \in playing THEN playing \ {i} ELSE playing \cup {i}
  /\ Notify("change", i)
  /\ UNCHANGED <<born, alive, silenced, subscribed, Client>>

InputEnded(i) ==
  /\ i \in alive
  /\ alive' = alive \ {i}
  /\ playing' = playing \ {i}
  /\ silenced' = silenced \ {i}
  /\ Notify("remove", i)
  /\ UNCHANGED <<born, subscribed, changes, Client>>

Info(i) ==
  [type |-> "info", input |-> i, corked |-> i \notin playing,
   null |-> i \in silenced]

Serves(type) ==
  /\ requests # <<>>
  /\ Head(requests).type = type
  /\ requests' = Tail(requests)
  /\ UNCHANGED <<born, alive, playing, changes, entries, caster, thread,
                 terminating, history>>

ServeSubscribe ==
  /\ Serves("subscribe")
  /\ subscribed' = TRUE
  /\ Send(<<[type |-> "subscribed"]>>)
  /\ UNCHANGED silenced

\* The inputs come in any order.
ServeList ==
  /\ Serves("list")
  /\ \E order \in SetToSeqs(alive) :
       Send([n \in DOMAIN order |-> Info(order[n])])
  /\ UNCHANGED <<silenced, subscribed>>

\* For an input that is gone the answer is an error, which is ignored.
ServeInfo ==
  /\ Serves("info")
  /\ LET i == Head(requests).input
     IN  Send(IF i \in alive THEN <<Info(i)>> ELSE <<>>)
  /\ UNCHANGED <<silenced, subscribed>>

ServeMove ==
  /\ Serves("move")
  /\ LET i == Head(requests).input
         null == Head(requests).null
     IN  IF i \in alive /\ null # (i \in silenced)
         THEN /\ silenced' = IF null THEN silenced \cup {i} ELSE silenced \ {i}
              /\ Notify("change", i)
         ELSE UNCHANGED <<silenced, replies>>
  /\ UNCHANGED subscribed

-----------------------------------------------------------------------------
(* Connecting.  k, c, r and h are known, corked, removed and homeNull with  *)
(* the change that the callback has made.                                  *)

Move(i, null) == [type |-> "move", input |-> i, null |-> null]

\* mutePaSinkInput() and unmutePaSinkInput()
Mute(i)      == IF MuteSource THEN <<Move(i, TRUE)>> ELSE <<>>
Unmute(i, h) == IF MuteSource THEN <<Move(i, i \in h)>> ELSE <<>>

\* Mutation of Best: the current one is kept even if it has paused.
Best_Corked(k, c, r) ==
  IF connected \in k \ r THEN {connected} ELSE k \ (c \cup r)

\* bestPaSinkInput(): the current one, else any that plays.
Best(k, c, r) ==
  LET active == k \ (c \cup r)
  IN  IF connected \in active THEN {connected} ELSE active

\* Mutation of Parting: only the captured input is remembered, none is unmuted.
Parting_Nothing(k, h) == <<>>

\* What disconnectPaSinkInput() sends
Parting(k, h) == IF stream /\ connected \in k THEN Unmute(connected, h) ELSE <<>>

\* disconnectPaSinkInput(): with the stream go the entries of removed inputs.
Disconnects(k, c, r, h) ==
  /\ known' = IF stream THEN k \ r ELSE k
  /\ corked' = c \cap known'
  /\ removed' = r \cap known'
  /\ homeNull' = h \cap known'

\* No input plays.
ConnectNone(k, c, r, h) ==
  /\ Best(k, c, r) = {}
  /\ Disconnects(k, c, r, h)
  /\ muted' = muted \ {connected}
  /\ requests' = requests \o Parting(k, h)
  /\ stream' = FALSE
  /\ connected' = None
  /\ announced' = IF stream THEN None ELSE announced
  /\ UNCHANGED <<thread, terminating>>

\* The best input is connected already.
StayConnected(k, c, r, h) ==
  /\ connected \in Best(k, c, r)
  /\ known' = k
  /\ corked' = c
  /\ removed' = r
  /\ homeNull' = h
  /\ UNCHANGED <<requests, muted, caster, thread, terminating>>

Switch(k, c, r, h, i) ==
  /\ i \in Best(k, c, r) \ {connected}
  /\ Disconnects(k, c, r, h)
  /\ muted' = (muted \ {connected}) \cup (IF MuteSource THEN {i} ELSE {})
  /\ requests' = requests \o Parting(k, h) \o Mute(i)
  /\ stream' = TRUE
  /\ connected' = i
  /\ announced' = i
  /\ UNCHANGED <<thread, terminating>>

\* The stream cannot be created: the input is unmuted, and the exception ends
\* the thread and the cast.
SwitchFails(k, c, r, h, i) ==
  /\ i \in Best(k, c, r) \ {connected}
  /\ Disconnects(k, c, r, h)
  /\ muted' = muted \ {connected}
  /\ requests' = requests \o Parting(k, h) \o Mute(i) \o Unmute(i, h)
  /\ stream' = TRUE
  /\ connected' \in {None, i}
  /\ announced' = IF stream THEN None ELSE announced
  /\ thread' = "ended"
  /\ terminating' = TRUE

\* m_audioPaThread is not there yet, or no more.
NotJoinable(k, c, r, h) ==
  /\ known' = k
  /\ corked' = c
  /\ removed' = r
  /\ homeNull' = h
  /\ skipped' = TRUE
  /\ UNCHANGED <<requests, muted, caster, thread, terminating>>

\* reconnectPaSinkInput()
Reconnect(k, c, r, h) ==
  /\ mistaken' = mistaken \cup h
  /\ \/ thread # "running" /\ NotJoinable(k, c, r, h)
     \/ /\ thread = "running"
        /\ skipped' = FALSE
        /\ \/ ConnectNone(k, c, r, h)
           \/ StayConnected(k, c, r, h)
           \/ \E i \in Inputs : Switch(k, c, r, h, i) \/ SwitchFails(k, c, r, h, i)

-----------------------------------------------------------------------------
(* The callbacks.                                                          *)

Receives(type) ==
  /\ thread \in {"starting", "running", "flushing"}
  /\ replies # <<>>
  /\ Head(replies).type = type
  /\ replies' = Tail(replies)
  /\ UNCHANGED server

Ask(request) ==
  /\ requests' = Append(requests, request)
  /\ UNCHANGED <<entries, caster, thread, terminating, history>>

Ignore == UNCHANGED <<requests, entries, caster, thread, terminating, history>>

\* The lists of clients and of inputs are asked for.
SubscribeDone ==
  /\ Receives("subscribed")
  /\ Ask([type |-> "list"])

\* paSubscriptionCallback(): new and changed inputs are asked for.
InputEvent(type) ==
  /\ Receives(type)
  /\ IF terminating THEN Ignore
     ELSE Ask([type |-> "info", input |-> Head(replies).input])

\* Mutation of InputRemoved: the list is brought up to date, no more.
InputRemoved_NoReconnect ==
  /\ Receives("remove")
  /\ removed' = removed \cup ({Head(replies).input} \cap known)
  /\ UNCHANGED <<requests, known, corked, muted, homeNull, caster, thread,
                 terminating, history>>

InputRemoved ==
  /\ Receives("remove")
  /\ LET i == Head(replies).input
     IN  IF terminating \/ i \notin known THEN Ignore
         ELSE Reconnect(known, corked, removed \cup {i}, homeNull)

\* paSinkInputInfoCallback(): the sink is taken over unless the input is muted.
InputInfo ==
  /\ Receives("info")
  /\ LET info == Head(replies)
         i == info.input
     IN  Reconnect(known \cup {i},
                   IF info.corked THEN corked \cup {i} ELSE corked \ {i},
                   removed,
                   IF i \in muted THEN homeNull
                   ELSE IF info.null THEN homeNull \cup {i}
                   ELSE homeNull \ {i})

-----------------------------------------------------------------------------
(* The thread and its end.                                                 *)

\* startPa(): m_audioPaThread is assigned after the thread has begun.
ThreadAssigned ==
  /\ thread = "starting"
  /\ thread' = "running"
  /\ UNCHANGED <<server, requests, replies, entries, caster, terminating, history>>

\* ~Caster, or an error elsewhere
Terminate ==
  /\ thread = "running"
  /\ ~terminating
  /\ terminating' = TRUE
  /\ UNCHANGED <<server, requests, replies, entries, caster, thread, history>>

ThreadEnds ==
  /\ thread = "running"
  /\ terminating
  /\ thread' = "ended"
  /\ UNCHANGED <<server, requests, replies, entries, caster, terminating, history>>

\* clean(): the thread is joined; cleanPa() closes the stream and unmutes.
CleanPa ==
  /\ thread = "ended"
  /\ thread' = "flushing"
  /\ stream' = FALSE
  /\ \E order \in SetToSeqs(muted) :
       requests' = requests \o [n \in DOMAIN order |->
                                  Move(order[n], order[n] \in homeNull)]
  /\ muted' = {}
  /\ UNCHANGED <<server, replies, known, corked, removed, homeNull, connected,
                 announced, terminating, history>>

\* pa_mainloop_iterate() has sent what was to be sent, and nothing is there to
\* be received at the moment.
ContextGone ==
  /\ thread = "flushing"
  /\ thread' = "gone"
  /\ replies' = <<>>
  /\ UNCHANGED <<server, requests, entries, caster, terminating, history>>

Serve == ServeSubscribe \/ ServeList \/ ServeInfo \/ ServeMove

Callback ==
  \/ SubscribeDone
  \/ InputEvent("new")
  \/ InputEvent("change")
  \/ InputRemoved
  \/ InputInfo

Program == \E i \in Inputs : InputCreated(i) \/ InputChanged(i) \/ InputEnded(i)

Next ==
  \/ Program
  \/ Serve
  \/ Callback
  \/ ThreadAssigned
  \/ Terminate
  \/ ThreadEnds
  \/ CleanPa
  \/ ContextGone

SafeSpec == Init /\ [][Next]_vars

(***************************************************************************)
(* The server executes what it was sent; the PA thread iterates its loop.  *)
(***************************************************************************)
Spec ==
  /\ SafeSpec
  /\ WF_vars(Serve)
  /\ WF_vars(Callback)
  /\ WF_vars(ThreadAssigned)
-----------------------------------------------------------------------------
(* Properties.                                                             *)

TypeOK ==
  /\ born \subseteq Inputs
  /\ alive \subseteq born
  /\ playing \subseteq alive
  /\ silenced \subseteq alive
  /\ subscribed \in BOOLEAN
  /\ changes \in 0 .. MaxChanges
  /\ requests \in Seq(Requests)
  /\ replies \in Seq(Replies)
  /\ known \subseteq Inputs
  /\ corked \subseteq known
  /\ removed \subseteq known
  /\ muted \subseteq known
  /\ homeNull \subseteq known
  /\ connected \in Inputs \cup {None}
  /\ stream \in BOOLEAN
  /\ announced \in Inputs \cup {None}
  /\ thread \in {"starting", "running", "ended", "flushing", "gone"}
  /\ terminating \in BOOLEAN
  /\ skipped \in BOOLEAN
  /\ mistaken \subseteq Inputs

(***************************************************************************)
(* While the thread runs, the stream belongs to an input that is in the    *)
(* list and not removed (caster.cpp l. 2905-2952 work on a reference into  *)
(* the map while removed entries are erased), it alone is muted, and the   *)
(* GUI shows its name.                                                     *)
(***************************************************************************)
CapturedIsSound ==
  thread \in {"starting", "running"} =>
    /\ stream <=> connected # None
    /\ announced = connected
    /\ connected # None => connected \in known \ (removed \cup corked)
    /\ muted = IF MuteSource THEN {connected} \ {None} ELSE {}

(***************************************************************************)
(* An input that is not captured is heard again: when all requests are     *)
(* executed, an input on the null sink is the muted one, or the client     *)
(* once took the null sink for the home of the input (l. 1340): an answer  *)
(* made before the input was moved back came after it was unmuted.         *)
(***************************************************************************)
UnmutedIsHeard ==
  requests = <<>> => silenced \subseteq muted \cup mistaken

(***************************************************************************)
(* While some program plays, sooner or later one that plays is captured,   *)
(* unless its description came before m_audioPaThread was assigned         *)
(* (caster.cpp l. 1348) and nothing has changed since.                     *)
(***************************************************************************)
PlayingIsCaptured ==
  \A i \in Inputs :
    (i \in playing) ~> (i \notin playing \/ connected \in playing
                          \/ terminating \/ skipped)
=============================================================================
