-------------------------- MODULE SinkInputsProofs --------------------------
(***************************************************************************)
(* Proofs about SinkInputs, for any finite set of sink inputs and any      *)
(* number of changes: the types, that the captured input is the right one  *)
(* while the PA thread runs, and that what is not captured is heard.       *)
(***************************************************************************)
EXTENDS SinkInputs, FiniteSetTheorems, TLAPS

\* Nothing is captured before m_audioPaThread is assigned.
NothingEarly == thread = "starting" => connected = None

SinkInputsInv == TypeOK /\ CapturedIsSound /\ NothingEarly

Threads == {"starting", "running", "ended", "flushing", "gone"}
-----------------------------------------------------------------------------
(* Messages.                                                               *)

\* What is taken off a sequence leaves one, and what is put on is one of it.
LEMMA SeqSteps ==
  ASSUME NEW S, NEW s \in Seq(S)
  PROVE  /\ \A t \in Seq(S) : s \o t \in Seq(S)
         /\ \A e \in S : Append(s, e) \in Seq(S) /\ <<e>> \in Seq(S)
         /\ <<>> \in Seq(S)
         /\ s # <<>> => Head(s) \in S /\ Tail(s) \in Seq(S)
OBVIOUS

\* The requests of a disconnect and of a connect.
LEMMA MovesAreRequests ==
  ASSUME NEW i \in Inputs, NEW h
  PROVE  Mute(i) \in Seq(Requests) /\ Unmute(i, h) \in Seq(Requests)
<1>1. Move(i, TRUE) \in Requests /\ Move(i, i \in h) \in Requests
  BY DEF Move, Requests
<1>2. <<>> \in Seq(Requests)
  OBVIOUS
<1>3. <<Move(i, TRUE)>> \in Seq(Requests) /\ <<Move(i, i \in h)>> \in Seq(Requests)
  BY <1>1, <1>2, SeqSteps
<1> QED
  BY <1>2, <1>3 DEF Mute, Unmute

LEMMA PartingIsRequests ==
  ASSUME NEW k \in SUBSET Inputs, NEW h
  PROVE  Parting(k, h) \in Seq(Requests)
<1>1. CASE stream /\ connected \in k
  BY <1>1, MovesAreRequests DEF Parting
<1>2. CASE ~(stream /\ connected \in k)
  BY <1>2 DEF Parting
<1> QED
  BY <1>1, <1>2

\* Any order of a set of inputs is a sequence of them.
LEMMA OrdersAreSeqs ==
  ASSUME NEW S \in SUBSET Inputs, NEW order \in SetToSeqs(S)
  PROVE  order \in Seq(S)
<1>1. Cardinality(S) \in Nat
  BY SinkInputsAssumption, FS_Subset, FS_CardinalityType
<1>2. order \in [1 .. Cardinality(S) -> S]
  BY DEF SetToSeqs
<1> QED
  BY <1>1, <1>2

\* Answers to the client.
LEMMA SendKeepsType ==
  ASSUME replies \in Seq(Replies), NEW messages \in Seq(Replies), Send(messages)
  PROVE  replies' \in Seq(Replies)
BY SeqSteps DEF Send

\* Events are answers of that type.
LEMMA NotifyKeepsType ==
  ASSUME replies \in Seq(Replies), NEW i \in Inputs,
         NEW type \in {"new", "change", "remove"}, Notify(type, i)
  PROVE  replies' \in Seq(Replies)
<1>1. Event(type, i) \in Replies
  BY DEF Event, Replies
<1>2. <<Event(type, i)>> \in Seq(Replies) /\ <<>> \in Seq(Replies)
  BY <1>1
<1> QED
  BY <1>2, SendKeepsType DEF Notify
-----------------------------------------------------------------------------
(* reconnectPaSinkInput() with the change of the callback.                 *)

LEMMA ReconnectKeepsInv ==
  ASSUME SinkInputsInv, UNCHANGED server, replies' \in Seq(Replies),
         thread \in {"starting", "running", "flushing"},
         NEW k \in SUBSET Inputs, known \subseteq k,
         NEW c \in SUBSET k, NEW r \in SUBSET k, NEW h \in SUBSET k,
         Reconnect(k, c, r, h)
  PROVE  SinkInputsInv'
<1> USE SinkInputsAssumption DEF SinkInputsInv, TypeOK, CapturedIsSound, NothingEarly, server
<1>1. mistaken' \subseteq Inputs
  BY DEF Reconnect
<1>2. CASE NotJoinable(k, c, r, h) /\ thread # "running"
  BY <1>1, <1>2 DEF NotJoinable, caster
<1>3. CASE thread = "running" /\ skipped' = FALSE /\ ConnectNone(k, c, r, h)
  <2>1. requests' \in Seq(Requests)
    BY <1>3, PartingIsRequests, SeqSteps DEF ConnectNone
  <2>2. /\ known' = IF stream THEN k \ r ELSE k
        /\ corked' \subseteq known' /\ removed' \subseteq known'
        /\ homeNull' \subseteq known'
        /\ muted' = {}
    BY <1>3 DEF ConnectNone, Disconnects
  <2> QED
    BY <1>1, <1>3, <2>1, <2>2 DEF ConnectNone
<1>4. CASE thread = "running" /\ skipped' = FALSE /\ StayConnected(k, c, r, h)
  BY <1>1, <1>4 DEF StayConnected, Best, caster
<1>5. ASSUME NEW i \in Inputs, thread = "running", skipped' = FALSE,
             Switch(k, c, r, h, i)
      PROVE  SinkInputsInv'
  <2>1. requests' \in Seq(Requests)
    <3>1. requests \o Parting(k, h) \in Seq(Requests)
      BY PartingIsRequests, SeqSteps
    <3> QED
      BY <1>5, <3>1, MovesAreRequests, SeqSteps DEF Switch
  <2>2. i \in k \ (c \cup r)
    BY <1>5 DEF Switch, Best
  <2>3. /\ known' = IF stream THEN k \ r ELSE k
        /\ corked' = c \cap known' /\ removed' = r \cap known'
        /\ homeNull' \subseteq known'
    BY <1>5 DEF Switch, Disconnects
  <2>4. i \in known' \ (removed' \cup corked')
    BY <2>2, <2>3
  <2>5. muted' = IF MuteSource THEN {i} ELSE {}
    BY <1>5 DEF Switch
  <2>6. /\ stream' = TRUE /\ connected' = i /\ announced' = i
        /\ UNCHANGED <<thread, terminating>>
    BY <1>5 DEF Switch
  <2> QED
    BY <1>1, <1>5, <2>1, <2>3, <2>4, <2>5, <2>6
<1>6. ASSUME NEW i \in Inputs, thread = "running", skipped' = FALSE,
             SwitchFails(k, c, r, h, i)
      PROVE  SinkInputsInv'
  <2>1. requests' \in Seq(Requests)
    <3>1. requests \o Parting(k, h) \in Seq(Requests)
      BY PartingIsRequests, SeqSteps
    <3>2. requests \o Parting(k, h) \o Mute(i) \in Seq(Requests)
      BY <3>1, MovesAreRequests, SeqSteps
    <3> QED
      BY <1>6, <3>2, MovesAreRequests, SeqSteps DEF SwitchFails
  <2>2. /\ known' = IF stream THEN k \ r ELSE k
        /\ corked' \subseteq known' /\ removed' \subseteq known'
        /\ homeNull' \subseteq known'
        /\ muted' = {}
    BY <1>6 DEF SwitchFails, Disconnects
  <2>3. /\ stream' = TRUE /\ connected' \in {None, i}
        /\ announced' \in Inputs \cup {None}
        /\ thread' = "ended" /\ terminating' = TRUE
    BY <1>6 DEF SwitchFails
  <2> QED
    BY <1>1, <1>6, <2>1, <2>2, <2>3
<1>7. skipped' \in BOOLEAN
  BY DEF Reconnect, NotJoinable
<1> QED
  BY <1>2, <1>3, <1>4, <1>5, <1>6 DEF Reconnect
-----------------------------------------------------------------------------

\* The server's part keeps the invariant: it does not touch the client.
LEMMA ServerKeepsInv ==
  ASSUME SinkInputsInv, Program \/ Serve
  PROVE  SinkInputsInv'
<1> USE DEF SinkInputsInv, TypeOK, CapturedIsSound, NothingEarly, entries, caster, history
<1>1. ASSUME NEW i \in Inputs, InputCreated(i)
      PROVE  SinkInputsInv'
  <2>1. replies' \in Seq(Replies)
    BY <1>1, NotifyKeepsType DEF InputCreated
  <2> QED
    BY <1>1, <2>1 DEF InputCreated, Client
<1>2. ASSUME NEW i \in Inputs, InputChanged(i)
      PROVE  SinkInputsInv'
  <2>1. replies' \in Seq(Replies)
    BY <1>2, NotifyKeepsType DEF InputChanged
  <2> QED
    BY <1>2, <2>1, SinkInputsAssumption DEF InputChanged, Client
<1>3. ASSUME NEW i \in Inputs, InputEnded(i)
      PROVE  SinkInputsInv'
  <2>1. replies' \in Seq(Replies)
    BY <1>3, NotifyKeepsType DEF InputEnded
  <2> QED
    BY <1>3, <2>1 DEF InputEnded, Client
<1>4. ASSUME NEW type, Serves(type)
      PROVE  requests' \in Seq(Requests) /\ Head(requests) \in Requests
  BY <1>4, SeqSteps DEF Serves
<1>5. \A i \in Inputs : Info(i) \in Replies
  BY DEF Info, Replies
<1>6. CASE ServeSubscribe
  <2>1. <<[type |-> "subscribed"]>> \in Seq(Replies)
    BY DEF Replies
  <2>2. replies' \in Seq(Replies)
    BY <1>6, <2>1, SendKeepsType DEF ServeSubscribe
  <2> QED
    BY <1>6, <1>4, <2>2 DEF ServeSubscribe, Serves
<1>7. CASE ServeList
  <2>1. PICK order \in SetToSeqs(alive) : Send([n \in DOMAIN order |-> Info(order[n])])
    BY <1>7 DEF ServeList
  <2>2. order \in Seq(alive)
    BY OrdersAreSeqs
  <2>3. [n \in DOMAIN order |-> Info(order[n])] \in Seq(Replies)
    BY <1>5, <2>2
  <2>4. replies' \in Seq(Replies)
    BY <2>1, <2>3, SendKeepsType
  <2> QED
    BY <1>7, <1>4, <2>4 DEF ServeList, Serves
<1>8. CASE ServeInfo
  <2>1. PICK i : i = Head(requests).input
    OBVIOUS
  <2>2. i \in alive => <<Info(i)>> \in Seq(Replies)
    BY <1>5
  <2>3. <<>> \in Seq(Replies)
    OBVIOUS
  <2>4. replies' \in Seq(Replies)
    BY <1>8, <2>1, <2>2, <2>3, SendKeepsType DEF ServeInfo
  <2> QED
    BY <1>8, <1>4, <2>4 DEF ServeInfo, Serves
<1>9. CASE ServeMove
  <2>1. PICK i : i = Head(requests).input
    OBVIOUS
  <2>2. CASE silenced' \in {silenced \cup {i}, silenced \ {i}} /\ i \in alive /\ Notify("change", i)
    <3>1. replies' \in Seq(Replies)
      BY <2>2, NotifyKeepsType
    <3> QED
      BY <1>9, <1>4, <2>2, <3>1 DEF ServeMove, Serves
  <2>3. CASE UNCHANGED <<silenced, replies>>
    BY <1>9, <1>4, <2>3 DEF ServeMove, Serves
  <2> QED
    BY <1>9, <2>1, <2>2, <2>3 DEF ServeMove
<1> QED
  BY <1>1, <1>2, <1>3, <1>6, <1>7, <1>8, <1>9 DEF Program, Serve

\* The callbacks keep it.
LEMMA CallbackKeepsInv ==
  ASSUME SinkInputsInv, Callback
  PROVE  SinkInputsInv'
<1>1. ASSUME NEW type, Receives(type)
      PROVE  /\ replies' \in Seq(Replies)
             /\ Head(replies) \in Replies
             /\ UNCHANGED server
             /\ thread \in {"starting", "running", "flushing"}
             /\ Head(replies).type = type
  BY <1>1, SeqSteps DEF Receives, SinkInputsInv, TypeOK
<1>2. ASSUME NEW request \in Requests, Ask(request),
             replies' \in Seq(Replies), UNCHANGED server
      PROVE  SinkInputsInv'
  BY <1>2, SeqSteps
     DEF Ask, SinkInputsInv, TypeOK, CapturedIsSound, NothingEarly, entries, caster,
         history, server
<1>3. ASSUME Ignore, replies' \in Seq(Replies), UNCHANGED server
      PROVE  SinkInputsInv'
  BY <1>3 DEF Ignore, SinkInputsInv, TypeOK, CapturedIsSound, NothingEarly, entries,
              caster, history, server
<1>4. CASE SubscribeDone
  <2>1. [type |-> "list"] \in Requests
    BY DEF Requests
  <2> QED
    BY <1>4, <1>1, <1>2, <2>1 DEF SubscribeDone
<1>5. ASSUME NEW type \in {"new", "change"}, InputEvent(type)
      PROVE  SinkInputsInv'
  <2>1. Receives(type)
    BY <1>5 DEF InputEvent
  <2>2. Head(replies).input \in Inputs
    BY <1>1, <2>1 DEF Replies
  <2>3. [type |-> "info", input |-> Head(replies).input] \in Requests
    BY <2>2 DEF Requests
  <2> QED
    BY <1>5, <1>1, <1>2, <1>3, <2>1, <2>3 DEF InputEvent
<1>6. CASE InputRemoved
  <2>1. Receives("remove")
    BY <1>6 DEF InputRemoved
  <2>2. PICK i : i = Head(replies).input
    OBVIOUS
  <2>3. CASE Ignore
    BY <1>1, <1>3, <2>1, <2>3
  <2>4. CASE i \in known /\ Reconnect(known, corked, removed \cup {i}, homeNull)
    <3>1. /\ known \in SUBSET Inputs /\ corked \in SUBSET known
          /\ removed \cup {i} \in SUBSET known /\ homeNull \in SUBSET known
      BY <2>4 DEF SinkInputsInv, TypeOK
    <3> QED
      BY <1>1, <2>1, <2>4, <3>1, ReconnectKeepsInv
  <2> QED
    BY <1>6, <2>2, <2>3, <2>4 DEF InputRemoved
<1>7. CASE InputInfo
  <2>1. Receives("info")
    BY <1>7 DEF InputInfo
  <2> DEFINE i == Head(replies).input
             c == IF Head(replies).corked THEN corked \cup {i} ELSE corked \ {i}
             h == IF i \in muted THEN homeNull
                  ELSE IF Head(replies).null THEN homeNull \cup {i}
                  ELSE homeNull \ {i}
  <2>2. i \in Inputs
    BY <1>1, <2>1 DEF Replies
  <2>3. /\ known \cup {i} \in SUBSET Inputs /\ known \subseteq known \cup {i}
        /\ c \in SUBSET (known \cup {i}) /\ removed \in SUBSET (known \cup {i})
        /\ h \in SUBSET (known \cup {i})
    BY <2>2 DEF SinkInputsInv, TypeOK
  <2>4. Reconnect(known \cup {i}, c, removed, h)
    BY <1>7 DEF InputInfo
  <2> HIDE DEF i, c, h
  <2> QED
    BY <1>1, <2>1, <2>3, <2>4, ReconnectKeepsInv
<1> QED
  BY <1>4, <1>5, <1>6, <1>7 DEF Callback

\* Every step keeps it.
LEMMA SinkInputsStep ==
  ASSUME SinkInputsInv, [Next]_vars
  PROVE  SinkInputsInv'
<1>1. CASE Program \/ Serve
  BY <1>1, ServerKeepsInv
<1>2. CASE Callback
  BY <1>2, CallbackKeepsInv
<1> USE DEF SinkInputsInv, TypeOK, CapturedIsSound, NothingEarly, server, entries,
            caster, history
<1>3. CASE ThreadAssigned
  BY <1>3 DEF ThreadAssigned
<1>4. CASE Terminate
  BY <1>4 DEF Terminate
<1>5. CASE ThreadEnds
  BY <1>5 DEF ThreadEnds
<1>6. CASE CleanPa
  <2>1. PICK order \in SetToSeqs(muted) :
          requests' = requests \o [n \in DOMAIN order |->
                                     Move(order[n], order[n] \in homeNull)]
    BY <1>6 DEF CleanPa
  <2>2. order \in Seq(Inputs)
    BY OrdersAreSeqs
  <2>3. \A n \in DOMAIN order : Move(order[n], order[n] \in homeNull) \in Requests
    BY <2>2 DEF Move, Requests
  <2>4. [n \in DOMAIN order |-> Move(order[n], order[n] \in homeNull)] \in Seq(Requests)
    BY <2>2, <2>3
  <2>5. requests' \in Seq(Requests)
    BY <2>1, <2>4, SeqSteps
  <2> QED
    BY <1>6, <2>5 DEF CleanPa
<1>7. CASE ContextGone
  BY <1>7 DEF ContextGone
<1>8. CASE UNCHANGED vars
  BY <1>8 DEF vars
<1> QED
  BY <1>1, <1>2, <1>3, <1>4, <1>5, <1>6, <1>7, <1>8 DEF Next

\* The strengthened invariant holds throughout.
THEOREM SinkInputsInvariant == SafeSpec => []SinkInputsInv
<1>1. Init => SinkInputsInv
  <2>1. <<[type |-> "subscribe"]>> \in Seq(Requests)
    BY DEF Requests
  <2>2. <<>> \in Seq(Replies)
    OBVIOUS
  <2>3. 0 \in 0 .. MaxChanges
    BY SinkInputsAssumption
  <2> QED
    BY <2>1, <2>2, <2>3
       DEF Init, SinkInputsInv, TypeOK, CapturedIsSound, NothingEarly
<1>2. SinkInputsInv /\ [Next]_vars => SinkInputsInv'
  BY SinkInputsStep
<1> QED
  BY <1>1, <1>2, PTL DEF SafeSpec

\* The messages and the list of sink inputs are well formed: flags are kept for
\* listed inputs only (caster.cpp l. 1249-1254, 1330-1344, 2853-2858).
THEOREM SinkInputsTypeOK == SafeSpec => []TypeOK
<1>1. SinkInputsInv => TypeOK
  BY DEF SinkInputsInv
<1> QED
  BY <1>1, SinkInputsInvariant, PTL

\* The captured input is listed, plays as far as is known, is the only one that
\* is muted and the one the GUI names (caster.cpp l. 2837-2963).
THEOREM SinkInputsCaptured == SafeSpec => []CapturedIsSound
<1>1. SinkInputsInv => CapturedIsSound
  BY DEF SinkInputsInv
<1> QED
  BY <1>1, SinkInputsInvariant, PTL
-----------------------------------------------------------------------------
(***************************************************************************)
(* What is not muted is heard.  The requests that are on their way decide: *)
(* the last one that moves an input, or else where the input is.           *)
(***************************************************************************)

Moves(r, i, null) == r.type = "move" /\ r.input = i /\ r.null = null

\* With the requests rs on their way, input i will not be on the null sink.
WillBeHeard(rs, i) ==
  \/ /\ i \notin silenced
     /\ \A n \in DOMAIN rs : ~Moves(rs[n], i, TRUE)
  \/ \E n \in DOMAIN rs :
       /\ Moves(rs[n], i, FALSE)
       /\ \A m \in DOMAIN rs : m > n => ~Moves(rs[m], i, TRUE)

\* An input is on the null sink because it is captured, or since the null sink
\* was taken for its home.
HeardInv ==
  /\ homeNull \subseteq mistaken
  /\ \A i \in Inputs \ (muted \cup mistaken) : WillBeHeard(requests, i)

\* More requests leave an input where it will be, unless one silences it; one
\* that brings it home and is not followed by such a one brings it home.
LEMMA HeardWithMore ==
  ASSUME NEW rs \in Seq(Requests), NEW more \in Seq(Requests), NEW i,
         \/ /\ WillBeHeard(rs, i)
            /\ \A n \in DOMAIN more : ~Moves(more[n], i, TRUE)
         \/ \E n \in DOMAIN more :
              /\ Moves(more[n], i, FALSE)
              /\ \A m \in DOMAIN more : m > n => ~Moves(more[m], i, TRUE)
  PROVE  WillBeHeard(rs \o more, i)
<1> DEFINE all == rs \o more
<1>1. /\ Len(rs) \in Nat /\ Len(more) \in Nat
      /\ DOMAIN rs = 1 .. Len(rs) /\ DOMAIN more = 1 .. Len(more)
      /\ DOMAIN all = 1 .. Len(rs) + Len(more)
      /\ \A n \in DOMAIN rs : n \in DOMAIN all /\ all[n] = rs[n]
      /\ \A n \in DOMAIN more :
           n + Len(rs) \in DOMAIN all /\ all[n + Len(rs)] = more[n]
      /\ \A n \in DOMAIN all : n \in DOMAIN rs
           \/ (n - Len(rs) \in DOMAIN more /\ all[n] = more[n - Len(rs)])
  OBVIOUS
<1> HIDE DEF all
<1>2. CASE /\ WillBeHeard(rs, i)
           /\ \A n \in DOMAIN more : ~Moves(more[n], i, TRUE)
  <2>1. CASE i \notin silenced /\ \A n \in DOMAIN rs : ~Moves(rs[n], i, TRUE)
    <3>1. \A n \in DOMAIN all : ~Moves(all[n], i, TRUE)
      BY <1>1, <1>2, <2>1
    <3> QED
      BY <2>1, <3>1 DEF WillBeHeard, all
  <2>2. ASSUME NEW n \in DOMAIN rs, Moves(rs[n], i, FALSE),
               \A m \in DOMAIN rs : m > n => ~Moves(rs[m], i, TRUE)
        PROVE  WillBeHeard(rs \o more, i)
    <3>1. \A m \in DOMAIN all : m > n => ~Moves(all[m], i, TRUE)
      BY <1>1, <1>2, <2>2
    <3>2. n \in DOMAIN all /\ Moves(all[n], i, FALSE)
      BY <1>1, <2>2
    <3> QED
      BY <3>1, <3>2 DEF WillBeHeard, all
  <2> QED
    BY <1>2, <2>1, <2>2 DEF WillBeHeard
<1>3. ASSUME NEW n \in DOMAIN more, Moves(more[n], i, FALSE),
             \A m \in DOMAIN more : m > n => ~Moves(more[m], i, TRUE)
      PROVE  WillBeHeard(rs \o more, i)
  <2>1. n + Len(rs) \in DOMAIN all /\ Moves(all[n + Len(rs)], i, FALSE)
    BY <1>1, <1>3
  <2>2. ASSUME NEW m \in DOMAIN all, m > n + Len(rs)
        PROVE  ~Moves(all[m], i, TRUE)
    <3>1. m - Len(rs) \in DOMAIN more /\ all[m] = more[m - Len(rs)] /\ m - Len(rs) > n
      BY <1>1, <2>2
    <3> QED
      BY <1>3, <3>1
  <2> QED
    BY <2>1, <2>2 DEF WillBeHeard, all
<1> QED
  BY <1>2, <1>3

\* A request that is executed does what it says.
LEMMA HeardWithLess ==
  ASSUME requests \in Seq(Requests), requests # <<>>, requests' = Tail(requests),
         NEW i, WillBeHeard(requests, i),
         Moves(Head(requests), i, FALSE) => i \notin silenced',
         ~Moves(Head(requests), i, TRUE) /\ i \notin silenced => i \notin silenced'
  PROVE  WillBeHeard(requests, i)'
<1> DEFINE Silences(n)  == Moves(requests[n], i, TRUE)
           Silences2(n) == Moves(requests'[n], i, TRUE)
<1>1. /\ Len(requests) \in Nat \ {0} /\ Head(requests) = requests[1]
      /\ DOMAIN requests = 1 .. Len(requests)
      /\ DOMAIN requests' = 1 .. Len(requests) - 1
      /\ \A n \in DOMAIN requests' : requests'[n] = requests[n + 1]
  OBVIOUS
<1>2. \A n \in DOMAIN requests' : n + 1 \in DOMAIN requests /\ n + 1 > 1 /\ n \in Nat
  BY <1>1
<1>3. \A n \in DOMAIN requests' : Silences2(n) <=> Silences(n + 1)
  BY <1>1
<1>4. 1 \in DOMAIN requests /\ (Silences(1) <=> Moves(Head(requests), i, TRUE))
  BY <1>1
<1>5. WillBeHeard(requests, i)' <=>
        \/ i \notin silenced' /\ \A n \in DOMAIN requests' : ~Silences2(n)
        \/ \E n \in DOMAIN requests' :
             /\ Moves(requests'[n], i, FALSE)
             /\ \A m \in DOMAIN requests' : m > n => ~Silences2(m)
  BY DEF WillBeHeard, Moves
<1>6. CASE i \notin silenced /\ \A n \in DOMAIN requests : ~Silences(n)
  <2>1. i \notin silenced'
    BY <1>4, <1>6
  <2>2. \A n \in DOMAIN requests' : ~Silences2(n)
    BY <1>2, <1>3, <1>6
  <2> QED
    BY <1>5, <2>1, <2>2
<1>7. ASSUME NEW n \in DOMAIN requests, Moves(requests[n], i, FALSE),
             \A m \in DOMAIN requests : m > n => ~Silences(m)
      PROVE  WillBeHeard(requests, i)'
  <2>1. CASE n = 1
    <3>1. i \notin silenced'
      BY <1>1, <1>7, <2>1
    <3>2. \A m \in DOMAIN requests' : ~Silences2(m)
      BY <1>2, <1>3, <1>7, <2>1
    <3> QED
      BY <1>5, <3>1, <3>2
  <2>2. CASE n # 1
    <3>1. n - 1 \in DOMAIN requests' /\ (n - 1) + 1 = n
      BY <1>1, <2>2
    <3>2. Moves(requests'[n - 1], i, FALSE)
      BY <1>1, <1>7, <3>1
    <3>3. \A m \in DOMAIN requests' : m > n - 1 => m + 1 > n
      BY <1>1
    <3>4. \A m \in DOMAIN requests' : m > n - 1 => ~Silences2(m)
      BY <1>2, <1>3, <1>7, <3>3
    <3> QED
      BY <1>5, <3>1, <3>2, <3>4
  <2> QED
    BY <2>1, <2>2
<1> QED
  BY <1>6, <1>7 DEF WillBeHeard

\* What is sent for one input does not silence another.
LEMMA OnlyOneMoves ==
  ASSUME NEW j \in Inputs, NEW h, NEW i
  PROVE  /\ i # j => /\ \A n \in DOMAIN Mute(j) : ~Moves(Mute(j)[n], i, TRUE)
                     /\ \A n \in DOMAIN Unmute(j, h) : ~Moves(Unmute(j, h)[n], i, TRUE)
         /\ ~MuteSource => Mute(j) = <<>> /\ Unmute(j, h) = <<>>
         /\ MuteSource /\ j \notin h =>
              \E n \in DOMAIN Unmute(j, h) :
                /\ Moves(Unmute(j, h)[n], j, FALSE)
                /\ \A m \in DOMAIN Unmute(j, h) : m > n => ~Moves(Unmute(j, h)[m], j, TRUE)
<1>2. CASE MuteSource
  <2>1. /\ Mute(j) = <<Move(j, TRUE)>>
        /\ Unmute(j, h) = <<Move(j, j \in h)>>
    BY <1>2 DEF Mute, Unmute
  <2>2. /\ DOMAIN Mute(j) = {1} /\ Mute(j)[1].input = j
        /\ DOMAIN Unmute(j, h) = {1} /\ Unmute(j, h)[1].input = j
        /\ Unmute(j, h)[1].type = "move"
    BY <2>1 DEF Move
  <2>3. ASSUME j \notin h PROVE Unmute(j, h)[1].null = FALSE
    <3>1. (j \in h) = FALSE
      BY <2>3
    <3>2. Unmute(j, h) = <<Move(j, FALSE)>>
      BY <2>1, <3>1
    <3> QED
      BY <3>2 DEF Move
  <2> QED
    BY <1>2, <2>2, <2>3 DEF Moves
<1>3. CASE ~MuteSource
  BY <1>3, SinkInputsAssumption DEF Mute, Unmute
<1> QED
  BY <1>2, <1>3

\* The captured input, which alone is muted, is brought home when it is left.
LEMMA PartingIsHeard ==
  ASSUME SinkInputsInv, HeardInv, thread = "running",
         NEW k \in SUBSET Inputs, known \subseteq k, NEW h,
         NEW i \in Inputs \ mistaken, i \notin h, i \notin muted \ {connected}
  PROVE  WillBeHeard(requests \o Parting(k, h), i)
<1>0. /\ requests \in Seq(Requests) /\ Parting(k, h) \in Seq(Requests)
      /\ i \notin muted => WillBeHeard(requests, i)
  BY PartingIsRequests DEF SinkInputsInv, TypeOK, HeardInv
<1>1. CASE i # connected
  <2>1. \A n \in DOMAIN Parting(k, h) : ~Moves(Parting(k, h)[n], i, TRUE)
    <3>1. CASE stream /\ connected \in k
      <4>1. Parting(k, h) = Unmute(connected, h) /\ connected \in Inputs
        BY <3>1 DEF Parting
      <4> QED
        BY <1>1, <4>1, OnlyOneMoves
    <3>2. CASE ~(stream /\ connected \in k)
      BY <3>2 DEF Parting
    <3> QED
      BY <3>1, <3>2
  <2> QED
    BY <1>0, <1>1, <2>1, HeardWithMore
<1>2. CASE i = connected /\ MuteSource
  <2>1. Parting(k, h) = Unmute(i, h)
    BY <1>2, SinkInputsAssumption DEF SinkInputsInv, CapturedIsSound, Parting
  <2>2. \E n \in DOMAIN Parting(k, h) :
          /\ Moves(Parting(k, h)[n], i, FALSE)
          /\ \A m \in DOMAIN Parting(k, h) : m > n => ~Moves(Parting(k, h)[m], i, TRUE)
    BY <1>2, <2>1, OnlyOneMoves
  <2> QED
    BY <1>0, <2>2, HeardWithMore
<1>3. CASE i = connected /\ ~MuteSource
  <2>1. Parting(k, h) = <<>> /\ muted = {}
    BY <1>3, OnlyOneMoves DEF SinkInputsInv, CapturedIsSound, Parting
  <2> QED
    BY <1>0, <2>1, HeardWithMore
<1> QED
  BY <1>1, <1>2, <1>3

\* An order of a set of inputs has each of them.
LEMMA OrdersHaveAll ==
  ASSUME NEW S \in SUBSET Inputs, NEW order \in SetToSeqs(S), NEW i \in S
  PROVE  \E n \in DOMAIN order : order[n] = i
<1> DEFINE D == 1 .. Cardinality(S)
<1>1. IsFiniteSet(S) /\ Cardinality(S) \in Nat
  BY SinkInputsAssumption, FS_Subset, FS_CardinalityType
<1>2. Cardinality(D) = Cardinality(S)
  <2>1. Cardinality(1 .. Cardinality(S)) = Cardinality(S) - 1 + 1
    BY <1>1, FS_Interval
  <2> QED
    BY <1>1, <2>1
<1>3. order \in [D -> S] /\ \A n, m \in D : n # m => order[n] # order[m]
  BY DEF SetToSeqs
<1>4. order \in Injection(D, S)
  BY <1>3 DEF Injection, IsInjective
<1>5. order \in Surjection(D, S)
  BY <1>1, <1>2, <1>4, FS_Injection
<1> QED
  BY <1>3, <1>5 DEF Surjection


\* reconnectPaSinkInput() lets nothing go unheard.
LEMMA ReconnectIsHeard ==
  ASSUME SinkInputsInv, HeardInv, UNCHANGED server,
         NEW k \in SUBSET Inputs, known \subseteq k, NEW c, NEW r, NEW h,
         Reconnect(k, c, r, h)
  PROVE  HeardInv'
<1>1. mistaken' = mistaken \cup h
  BY DEF Reconnect
<1>2. homeNull' \subseteq mistaken'
  BY <1>1 DEF Reconnect, NotJoinable, ConnectNone, StayConnected, Switch, SwitchFails,
     Disconnects
<1>3. UNCHANGED silenced /\ requests \in Seq(Requests)
  BY DEF server, SinkInputsInv, TypeOK
<1> SUFFICES ASSUME NEW i \in Inputs, i \notin muted', i \notin mistaken'
             PROVE  WillBeHeard(requests', i)
  BY <1>2, <1>3 DEF HeardInv, WillBeHeard
<1>4. i \notin mistaken /\ i \notin h
  BY <1>1
<1>5. CASE UNCHANGED <<requests, muted>>
  BY <1>4, <1>5 DEF HeardInv
<1>6. CASE thread = "running" /\ ConnectNone(k, c, r, h)
  BY <1>4, <1>6, PartingIsHeard DEF ConnectNone
<1>7. ASSUME NEW j \in Inputs, thread = "running",
             Switch(k, c, r, h, j) \/ SwitchFails(k, c, r, h, j)
      PROVE  WillBeHeard(requests', i)
  <2> DEFINE rs == requests \o Parting(k, h)
  <2>1. i \notin muted \ {connected} /\ (Switch(k, c, r, h, j) /\ MuteSource => i # j)
    BY <1>7 DEF Switch, SwitchFails
  <2>2. WillBeHeard(rs, i)
    BY <1>4, <1>7, <2>1, PartingIsHeard
  <2>3. rs \in Seq(Requests)
    BY <1>3, PartingIsRequests, SeqSteps
  <2>4. Mute(j) \in Seq(Requests) /\ Unmute(j, h) \in Seq(Requests)
    BY MovesAreRequests
  <2> HIDE DEF rs
  <2>5. rs \o Mute(j) \in Seq(Requests)
    BY <2>3, <2>4, SeqSteps
  <2>6. CASE i # j \/ ~MuteSource
    <3>1. /\ \A n \in DOMAIN Mute(j) : ~Moves(Mute(j)[n], i, TRUE)
          /\ \A n \in DOMAIN Unmute(j, h) : ~Moves(Unmute(j, h)[n], i, TRUE)
      <4>1. CASE i # j
        BY <4>1, OnlyOneMoves
      <4>2. CASE ~MuteSource
        <5>1. Mute(j) = <<>> /\ Unmute(j, h) = <<>>
          BY <4>2, OnlyOneMoves
        <5> QED
          BY <5>1
      <4> QED
        BY <2>6, <4>1, <4>2
    <3>2. WillBeHeard(rs \o Mute(j), i)
      BY <2>2, <2>3, <2>4, <3>1, HeardWithMore
    <3>3. WillBeHeard((rs \o Mute(j)) \o Unmute(j, h), i)
      BY <2>4, <2>5, <3>1, <3>2, HeardWithMore
    <3> QED
      BY <1>7, <3>2, <3>3 DEF Switch, SwitchFails, rs
  <2>7. CASE i = j /\ MuteSource
    <3>1. SwitchFails(k, c, r, h, j)
      BY <1>7, <2>1, <2>7
    <3>2. \E n \in DOMAIN Unmute(j, h) :
            /\ Moves(Unmute(j, h)[n], i, FALSE)
            /\ \A m \in DOMAIN Unmute(j, h) :
                 m > n => ~Moves(Unmute(j, h)[m], i, TRUE)
      BY <1>4, <2>7, OnlyOneMoves
    <3>3. WillBeHeard((rs \o Mute(j)) \o Unmute(j, h), i)
      BY <2>4, <2>5, <3>2, HeardWithMore
    <3> QED
      BY <3>1, <3>3 DEF SwitchFails, rs
  <2> QED
    BY <2>6, <2>7
<1> QED
  BY <1>5, <1>6, <1>7 DEF Reconnect, NotJoinable, StayConnected

\* Each step keeps it.
LEMMA HeardStep ==
  ASSUME SinkInputsInv, HeardInv, [Next]_vars
  PROVE  HeardInv'
<1>0. requests \in Seq(Requests) /\ silenced \subseteq alive
  BY DEF SinkInputsInv, TypeOK
<1>1. ASSUME silenced' \subseteq silenced, requests' = requests, muted' = muted,
             mistaken' = mistaken, homeNull' = homeNull
      PROVE  HeardInv'
  BY <1>1 DEF HeardInv, WillBeHeard
<1>2. CASE Program
  BY <1>1, <1>2 DEF Program, InputCreated, InputChanged, InputEnded, Client, entries,
     history
<1>3. CASE Serve
  <2>1. requests # <<>> /\ requests' = Tail(requests)
    BY <1>3 DEF Serve, ServeSubscribe, ServeList, ServeInfo, ServeMove, Serves
  <2>2. UNCHANGED <<muted, mistaken, homeNull>>
    BY <1>3 DEF Serve, ServeSubscribe, ServeList, ServeInfo, ServeMove, Serves, entries,
       history
  <2>3. ASSUME NEW i \in Inputs
        PROVE  /\ Moves(Head(requests), i, FALSE) => i \notin silenced'
               /\ ~Moves(Head(requests), i, TRUE) /\ i \notin silenced => i \notin silenced'
    <3>1. CASE ServeMove
      <4>1. /\ Head(requests).type = "move"
            /\ Head(requests).null \in BOOLEAN
        <5>1. Head(requests) \in Requests
          BY <1>0, <2>1, SeqSteps
        <5>2. Head(requests).type = "move"
          BY <3>1 DEF ServeMove, Serves
        <5> QED
          BY <5>1, <5>2 DEF Requests
      <4>2. CASE Head(requests).null = TRUE
        BY <3>1, <4>1, <4>2 DEF ServeMove, Moves
      <4>3. CASE Head(requests).null = FALSE
        BY <1>0, <3>1, <4>1, <4>3 DEF ServeMove, Moves
      <4> QED
        BY <4>1, <4>2, <4>3
    <3>2. CASE UNCHANGED silenced /\ Head(requests).type # "move"
      BY <3>2 DEF Moves
    <3> QED
      BY <1>3, <3>1, <3>2 DEF Serve, ServeSubscribe, ServeList, ServeInfo, Serves
  <2> QED
    BY <1>0, <2>1, <2>2, <2>3, HeardWithLess DEF HeardInv
\* A callback that only asks, or does nothing.
<1>4. ASSUME NEW request \in Requests, request.type # "move", UNCHANGED silenced,
             Ask(request)
      PROVE  HeardInv'
  <2>1. requests' = requests \o <<request>> /\ <<request>> \in Seq(Requests)
    BY <1>0, <1>4 DEF Ask
  <2>2. \A n \in DOMAIN <<request>>, i \in Inputs : ~Moves(<<request>>[n], i, TRUE)
    BY <1>4 DEF Moves
  <2>3. \A i \in Inputs : WillBeHeard(requests, i) => WillBeHeard(requests', i)
    BY <1>0, <2>1, <2>2, HeardWithMore
  <2> QED
    BY <1>4, <2>3 DEF Ask, HeardInv, WillBeHeard, entries, history
<1>5. CASE Callback
  <2>1. UNCHANGED server /\ UNCHANGED silenced
    BY <1>5 DEF Callback, SubscribeDone, InputEvent, InputRemoved, InputInfo, Receives,
       server
  <2>2. CASE Ignore
    BY <1>1, <2>1, <2>2 DEF Ignore, entries, history
  <2>3. replies \in Seq(Replies) /\ replies # <<>>
    BY <1>5 DEF Callback, SubscribeDone, InputEvent, InputRemoved, InputInfo, Receives,
       SinkInputsInv, TypeOK
  <2>4. Head(replies) \in Replies
    BY <2>3, SeqSteps
  <2>5. CASE SubscribeDone
    BY <1>4, <2>1, <2>5 DEF SubscribeDone, Requests
  <2>6. ASSUME NEW type \in {"new", "change"}, InputEvent(type)
        PROVE  HeardInv'
    <3>1. Head(replies).input \in Inputs
      BY <2>4, <2>6 DEF InputEvent, Receives, Replies
    <3>2. [type |-> "info", input |-> Head(replies).input] \in Requests
      BY <3>1 DEF Requests
    <3> QED
      BY <1>4, <2>1, <2>2, <2>6, <3>2 DEF InputEvent
  <2>7. CASE InputRemoved
    <3>1. known \in SUBSET Inputs
      BY DEF SinkInputsInv, TypeOK
    <3>2. Ignore \/ \E r : Reconnect(known, corked, r, homeNull)
      BY <2>7 DEF InputRemoved
    <3> QED
      BY <2>1, <2>2, <3>1, <3>2, ReconnectIsHeard
  <2>8. CASE InputInfo
    <3>1. Head(replies).input \in Inputs
      BY <2>4, <2>8 DEF InputInfo, Receives, Replies
    <3>2. PICK k : k = known \cup {Head(replies).input}
      OBVIOUS
    <3>3. k \in SUBSET Inputs /\ known \subseteq k
      BY <3>1, <3>2 DEF SinkInputsInv, TypeOK
    <3>4. \E c, h : Reconnect(k, c, removed, h)
      BY <2>8, <3>2 DEF InputInfo
    <3> QED
      BY <2>1, <3>3, <3>4, ReconnectIsHeard
  <2> QED
    BY <1>5, <2>5, <2>6, <2>7, <2>8 DEF Callback
<1>6. CASE ThreadAssigned \/ Terminate \/ ThreadEnds \/ ContextGone
  BY <1>1, <1>6 DEF ThreadAssigned, Terminate, ThreadEnds, ContextGone, server, entries,
     history
<1>7. CASE CleanPa
  <2>1. PICK order \in SetToSeqs(muted) :
          requests' = requests \o [n \in DOMAIN order |->
                                     Move(order[n], order[n] \in homeNull)]
    BY <1>7 DEF CleanPa
  <2> DEFINE moves == [n \in DOMAIN order |-> Move(order[n], order[n] \in homeNull)]
  <2>2. muted \in SUBSET Inputs
    BY DEF SinkInputsInv, TypeOK
  <2>3. /\ order \in Seq(Inputs)
        /\ \A i \in muted : \E n \in DOMAIN order : order[n] = i
    <3>1. order \in Seq(muted)
      BY <2>2, OrdersAreSeqs
    <3>2. \A i \in muted : \E n \in DOMAIN order : order[n] = i
      BY <2>2, OrdersHaveAll
    <3> QED
      BY <2>2, <3>1, <3>2
  <2>4. moves \in Seq(Requests)
    <3>1. \A n \in DOMAIN order : Move(order[n], order[n] \in homeNull) \in Requests
      BY <2>3 DEF Move, Requests
    <3> QED
      BY <2>3, <3>1
  <2>5. \A n \in DOMAIN moves :
          /\ moves[n].type = "move" /\ moves[n].input = order[n]
          /\ order[n] \notin homeNull => moves[n].null = FALSE
    <3> SUFFICES ASSUME NEW n \in DOMAIN order
                 PROVE  LET m == Move(order[n], order[n] \in homeNull)
                        IN  /\ m.type = "move" /\ m.input = order[n]
                            /\ order[n] \notin homeNull => m.null = FALSE
      OBVIOUS
    <3>1. order[n] \notin homeNull => (order[n] \in homeNull) = FALSE
      OBVIOUS
    <3> QED
      BY <3>1 DEF Move
  <2>6. ASSUME NEW i \in Inputs, i \notin mistaken, i \notin muted \/ i \in muted
        PROVE  WillBeHeard(requests', i)
    <3>1. \A n \in DOMAIN moves : ~Moves(moves[n], i, TRUE)
      BY <2>5, <2>6 DEF Moves, HeardInv
    <3>2. CASE i \in muted
      <4>1. PICK n \in DOMAIN moves : order[n] = i
        BY <2>3, <3>2
      <4>2. Moves(moves[n], i, FALSE)
        BY <2>5, <2>6, <4>1 DEF Moves, HeardInv
      <4> QED
        BY <1>0, <2>1, <2>4, <3>1, <4>2, HeardWithMore
    <3>3. CASE i \notin muted
      BY <1>0, <2>1, <2>4, <2>6, <3>1, <3>3, HeardWithMore DEF HeardInv
    <3> QED
      BY <3>2, <3>3
  <2> HIDE DEF moves
  <2>7. UNCHANGED <<silenced, mistaken, homeNull>>
    BY <1>7 DEF CleanPa, server, history
  <2> QED
    BY <2>6, <2>7 DEF HeardInv, WillBeHeard
<1>8. CASE UNCHANGED vars
  BY <1>1, <1>8 DEF vars, server, entries, history
<1> QED
  BY <1>2, <1>3, <1>5, <1>6, <1>7, <1>8 DEF Next

\* An input that is not captured is heard again when all requests have been
\* executed, unless the null sink was taken for its home: whichever way the
\* capture moves or ends, mutePaSinkInput() is made good (caster.cpp l. 2860-2898,
\* 2937-2952, 2975-3003).
THEOREM SinkInputsHeard == SafeSpec => []UnmutedIsHeard
<1>1. Init => HeardInv
  <2> SUFFICES ASSUME Init PROVE HeardInv
    OBVIOUS
  <2>1. DOMAIN requests = {1} /\ requests[1].type # "move"
    BY DEF Init
  <2> QED
    BY <2>1 DEF Init, HeardInv, WillBeHeard, Moves
<1>2. SinkInputsInv /\ HeardInv /\ [Next]_vars => HeardInv'
  BY HeardStep
<1>3. SinkInputsInv /\ HeardInv => UnmutedIsHeard
  <2> SUFFICES ASSUME HeardInv, SinkInputsInv, requests = <<>>,
                      NEW i \in silenced, i \notin muted \cup mistaken
               PROVE  FALSE
    BY DEF UnmutedIsHeard
  <2>1. i \in Inputs /\ DOMAIN requests = {}
    BY DEF SinkInputsInv, TypeOK
  <2> QED
    BY <2>1 DEF HeardInv, WillBeHeard
<1> QED
  BY <1>1, <1>2, <1>3, SinkInputsInvariant, PTL DEF SafeSpec
=============================================================================
