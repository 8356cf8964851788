---------------------------- MODULE SessionProofs ----------------------------
(***************************************************************************)
(* For any number of connections and any threads of a caster: between two  *)
(* events m_castingConnId names the client of m_caster, no thread of a     *)
(* caster outlives it, no client is left hanging, the GUI settles on what  *)
(* is so, and only a closing that came too early leaves a caster that      *)
(* streams to nobody.                                                      *)
(***************************************************************************)
EXTENDS Session, SequenceTheorems, TLAPS

\* A request to start a caster names its client.
StartsAreFor ==
  \A i \in 1 .. Len(events) : events[i].type = "StartCaster" => events[i].conn \in Conns

\* Inside a callback the HTTP thread serves a connection.
MhdServes == mhdPc # "idle" => mhdConn \in Conns

\* Where the loop thread is tells whether there is a caster, whose it is and
\* whether one is being destroyed.
LoopShape ==
  /\ loopPc = "emplace" => toStart \in Conns /\ caster = NoConn
  /\ loopPc \in {"start", "sources", "mux", "reportEnded", "reportStop", "assign"}
       => toStart \in Conns /\ caster = toStart
  /\ loopPc \in {"drop", "reset"} => caster # NoConn
  /\ loopPc \in {"join", "stopped", "lastJoin", "done"} => caster = NoConn
  /\ loopPc \in {"join", "lastJoin"} <=> dying # NoConn

\* OwnerIsRecorded, for as long as the caster is not replaced.
OwnerStays ==
  loopPc \in {"idle", "drop", "reset", "ended", "teardown"} /\ caster # NoConn
    => castingConnId = caster

\* The inductive invariant.
SessionInv ==
  /\ TypeOK
  /\ StartsAreFor
  /\ MhdServes
  /\ LoopShape
  /\ OwnerStays
  /\ NoSurvivingThread

\* A state in which the queue is well formed stays so when an event is added,
LEMMA QueueOne ==
  ASSUME TypeOK, StartsAreFor, NEW e \in Events,
         e.type = "StartCaster" => e.conn \in Conns, Queue(<<e>>)
  PROVE  events' \in Seq(Events) /\ StartsAreFor'
<1>1. events \in Seq(Events) /\ <<e>> \in Seq(Events)
  BY DEF TypeOK
<1>2. CASE events' = events
  BY <1>1, <1>2 DEF StartsAreFor
<1>3. CASE events' = events \o <<e>>
  <2>1. events' \in Seq(Events) /\ Len(events') = Len(events) + 1
    BY <1>1, <1>3
  <2>2. ASSUME NEW i \in 1 .. Len(events'), events'[i].type = "StartCaster"
        PROVE  events'[i].conn \in Conns
    <3>1. CASE i <= Len(events)
      BY <1>1, <1>3, <2>1, <2>2, <3>1 DEF StartsAreFor
    <3>2. CASE i > Len(events)
      <4>1. i = Len(events) + 1 /\ events'[i] = e
        BY <1>1, <1>3, <2>1, <3>2
      <4> QED
        BY <4>1, <2>2
    <3> QED
      BY <3>1, <3>2, <1>1, <2>1
  <2> QED
    BY <2>1, <2>2 DEF StartsAreFor
<1> QED
  BY <1>2, <1>3 DEF Queue

\* and when the loop takes one, whose connection is then a client's.
LEMMA TakeOne ==
  ASSUME TypeOK, StartsAreFor, NEW type, Take(type)
  PROVE  /\ events' \in Seq(Events)
         /\ StartsAreFor'
         /\ Head(events).conn \in Conns \cup {NoConn}
         /\ type = "StartCaster" => Head(events).conn \in Conns
<1>1. events \in Seq(Events) /\ events # <<>> /\ events' = Tail(events)
  BY DEF TypeOK, Take
<1>2. /\ events' \in Seq(Events)
      /\ Len(events') = Len(events) - 1
      /\ Len(events) \in Nat /\ Len(events) > 0
      /\ \A i \in 1 .. Len(events') : events'[i] = events[i + 1]
  BY <1>1
<1>3. Head(events) = events[1] /\ events[1] \in Events
  BY <1>1, <1>2
<1>4. StartsAreFor'
  <2>1. \A i \in 1 .. Len(events') : i + 1 \in 1 .. Len(events)
    BY <1>2
  <2> QED
    BY <1>2, <2>1 DEF StartsAreFor
<1> QED
  BY <1>2, <1>3, <1>4 DEF Take, StartsAreFor, Events

\* The queue is well formed after every step.
LEMMA EventsStep ==
  ASSUME SessionInv, [Next]_vars
  PROVE  events' \in Seq(Events) /\ StartsAreFor'
<1> DEFINE Good == events' \in Seq(Events) /\ StartsAreFor'
<1>0. /\ TypeOK /\ StartsAreFor /\ MhdServes /\ LoopShape
      /\ caster \in Conns \cup {NoConn} /\ toStart \in Conns \cup {NoConn}
      /\ UNCHANGED events => Good
  BY DEF SessionInv, TypeOK, StartsAreFor
<1>q. ASSUME NEW c \in Conns \cup {NoConn},
             NEW t \in {"StopCaster", "CasterStarted", "CasterEnded"},
             Queue(<<Event(t, c)>>)
      PROVE  Good
  <2>1. /\ Event(t, c) \in Events
        /\ Event(t, c).type = "StartCaster" => Event(t, c).conn \in Conns
    BY DEF Event, Events, EventTypes
  <2> QED
    BY <1>0, <1>q, <2>1, QueueOne
<1> SUFFICES Good
  OBVIOUS
<1> HIDE DEF Good
<1>1. CASE HandleStartServer
  BY <1>1, <1>0, TakeOne DEF HandleStartServer, Good
<1>2. CASE HandleStartCaster
  BY <1>2, <1>0, TakeOne DEF HandleStartCaster, Good
<1>3. CASE HandleStopCaster
  BY <1>3, <1>0, TakeOne DEF HandleStopCaster, Good
<1>4. CASE HandleCasterStarted
  BY <1>4, <1>0, TakeOne DEF HandleCasterStarted, Good
<1>5. CASE HandleCasterEnded
  BY <1>5, <1>0, TakeOne DEF HandleCasterEnded, Good
<1>6. CASE StopDrop
  BY <1>6, <1>0 DEF StopDrop
<1>7. CASE StopReset
  BY <1>7, <1>0 DEF StopReset
<1>8. CASE StopJoin
  BY <1>8, <1>0 DEF StopJoin
<1>9. CASE StopEnded
  BY <1>9, <1>0, <1>q DEF StopEnded
<1>10. CASE Emplace
  BY <1>10, <1>0 DEF Emplace
<1>11. CASE EmplaceFails
  BY <1>11, <1>0 DEF EmplaceFails
<1>12. CASE StartSources
  BY <1>12, <1>0 DEF StartSources
<1>13. CASE StartDone
  BY <1>13, <1>0, <1>q DEF StartDone, LoopShape
<1>14. CASE StartMuxing
  BY <1>14, <1>0 DEF StartMuxing
<1>15. CASE StartFails
  BY <1>15, <1>0 DEF StartFails
<1>16. CASE StartReportEnded
  BY <1>16, <1>0, <1>q DEF StartReportEnded, LoopShape
<1>17. CASE StartReportStop
  BY <1>17, <1>0, <1>q DEF StartReportStop
<1>18. CASE Assign
  BY <1>18, <1>0 DEF Assign
<1>19. CASE LoopEnds
  BY <1>19, <1>0 DEF LoopEnds
<1>20. CASE DestroyServer
  BY <1>20, <1>0 DEF DestroyServer
<1>21. CASE DestroyCaster
  BY <1>21, <1>0 DEF DestroyCaster
<1>22. CASE LastJoin
  BY <1>22, <1>0 DEF LastJoin
<1>23. CASE StreamRequestStart
  <2>1. mhdConn \in Conns
    BY <1>23, <1>0 DEF StreamRequestStart, MhdServes
  <2>2. /\ Event("StartCaster", mhdConn) \in Events
        /\ Event("StartCaster", mhdConn).conn \in Conns
    BY <2>1 DEF Event, Events, EventTypes
  <2> QED
    BY <1>23, <1>0, <2>2, QueueOne DEF StreamRequestStart, Good
<1>24. CASE CloseChecks
  <2>1. mhdConn \in Conns
    BY <1>24, <1>0 DEF CloseChecks, MhdServes
  <2>2. UNCHANGED events \/ Queue(<<Event("StopCaster", mhdConn)>>)
    BY <1>24 DEF CloseChecks
  <2> QED
    BY <2>1, <2>2, <1>0, <1>q
<1>25. CASE CloseRemoves
  BY <1>25, <1>0 DEF CloseRemoves
<1>26. CASE Cancel
  BY <1>26, <1>0, <1>q DEF Cancel
<1>27. CASE Shutdown
  BY <1>27, <1>0 DEF Shutdown
<1>28. ASSUME NEW c \in Conns, NEW w \in Workers, WorkerFails(c, w) PROVE Good
  BY <1>28, <1>0 DEF WorkerFails
<1>29. ASSUME NEW c \in Conns, NEW w \in Workers, WorkerSetsState(c, w)
       PROVE Good
  BY <1>29, <1>0 DEF WorkerSetsState
<1>30. ASSUME NEW c \in Conns, NEW w \in Workers, WorkerReportsEnded(c, w)
       PROVE Good
  BY <1>30, <1>0, <1>q DEF WorkerReportsEnded
<1>31. ASSUME NEW c \in Conns, NEW w \in Workers, WorkerReportsStop(c, w)
       PROVE Good
  BY <1>31, <1>0, <1>q DEF WorkerReportsStop
<1>32. ASSUME NEW c \in Conns, NEW w \in Workers, WorkerEnds(c, w) PROVE Good
  BY <1>32, <1>0 DEF WorkerEnds
<1>33. ASSUME NEW c \in Conns, Connect(c) PROVE Good
  BY <1>33, <1>0 DEF Connect
<1>34. ASSUME NEW c \in Conns, StreamRequest(c) PROVE Good
  BY <1>34, <1>0, <1>q DEF StreamRequest
<1>35. ASSUME NEW c \in Conns, GhostRemoved(c) PROVE Good
  BY <1>35, <1>0 DEF GhostRemoved
<1>36. ASSUME NEW c \in Conns, CloseBegins(c) PROVE Good
  BY <1>36, <1>0 DEF CloseBegins
<1>37. CASE UNCHANGED vars
  BY <1>37, <1>0 DEF vars
<1> QED
  BY <1>1, <1>2, <1>3, <1>4, <1>5, <1>6, <1>7, <1>8, <1>9, <1>10, <1>11,
     <1>12, <1>13, <1>14, <1>15, <1>16, <1>17, <1>18, <1>19, <1>20, <1>21,
     <1>22, <1>23, <1>24, <1>25, <1>26, <1>27, <1>28, <1>29, <1>30, <1>31,
     <1>32, <1>33, <1>34, <1>35, <1>36, <1>37
  DEF Good, Next, LoopStep, MhdFinishes, WorkerFinishes

\* The HTTP thread serves a connection whenever it is inside a callback.
LEMMA MhdStep ==
  ASSUME SessionInv, [Next]_vars
  PROVE  MhdServes'
<1>0. MhdServes
  BY DEF SessionInv
<1>1. CASE HandleStartServer
  BY <1>1, <1>0 DEF HandleStartServer, MhdServes, mhdVars, Take
<1>2. CASE HandleStartCaster
  BY <1>2, <1>0 DEF HandleStartCaster, MhdServes, mhdVars, Take
<1>3. CASE HandleStopCaster
  BY <1>3, <1>0 DEF HandleStopCaster, MhdServes, mhdVars, Take
<1>4. CASE HandleCasterStarted
  BY <1>4, <1>0 DEF HandleCasterStarted, MhdServes, mhdVars, Take
<1>5. CASE HandleCasterEnded
  BY <1>5, <1>0 DEF HandleCasterEnded, MhdServes, mhdVars, Take
<1>6. CASE StopDrop
  BY <1>6, <1>0 DEF StopDrop, MhdServes, mhdVars
<1>7. CASE StopReset
  BY <1>7, <1>0 DEF StopReset, MhdServes, mhdVars
<1>8. CASE StopJoin
  BY <1>8, <1>0 DEF StopJoin, MhdServes, mhdVars
<1>9. CASE StopEnded
  BY <1>9, <1>0 DEF StopEnded, MhdServes, mhdVars
<1>10. CASE Emplace
  BY <1>10, <1>0 DEF Emplace, MhdServes, mhdVars
<1>11. CASE EmplaceFails
  BY <1>11, <1>0 DEF EmplaceFails, MhdServes, mhdVars
<1>12. CASE StartSources
  BY <1>12, <1>0 DEF StartSources, MhdServes, mhdVars
<1>13. CASE StartDone
  BY <1>13, <1>0 DEF StartDone, MhdServes, mhdVars
<1>14. CASE StartMuxing
  BY <1>14, <1>0 DEF StartMuxing, MhdServes, mhdVars
<1>15. CASE StartFails
  BY <1>15, <1>0 DEF StartFails, MhdServes, mhdVars
<1>16. CASE StartReportEnded
  BY <1>16, <1>0 DEF StartReportEnded, MhdServes, mhdVars
<1>17. CASE StartReportStop
  BY <1>17, <1>0 DEF StartReportStop, MhdServes, mhdVars
<1>18. CASE Assign
  BY <1>18, <1>0 DEF Assign, MhdServes, mhdVars
<1>19. CASE LoopEnds
  BY <1>19, <1>0 DEF LoopEnds, MhdServes, mhdVars
<1>20. CASE DestroyServer
  BY <1>20, <1>0 DEF DestroyServer, MhdServes, mhdVars
<1>21. CASE DestroyCaster
  BY <1>21, <1>0 DEF DestroyCaster, MhdServes, mhdVars
<1>22. CASE LastJoin
  BY <1>22, <1>0 DEF LastJoin, MhdServes, mhdVars
<1>23. CASE StreamRequestStart
  BY <1>23, <1>0 DEF StreamRequestStart, MhdServes
<1>24. CASE CloseChecks
  BY <1>24, <1>0 DEF CloseChecks, MhdServes
<1>25. CASE CloseRemoves
  BY <1>25, <1>0 DEF CloseRemoves, MhdServes
<1>26. CASE Cancel
  BY <1>26, <1>0 DEF Cancel, MhdServes, mhdVars
<1>27. CASE Shutdown
  BY <1>27, <1>0 DEF Shutdown, MhdServes, mhdVars
<1>28. ASSUME NEW c \in Conns, NEW w \in Workers, WorkerFails(c, w)
       PROVE MhdServes'
  BY <1>28, <1>0 DEF WorkerFails, MhdServes, mhdVars
<1>29. ASSUME NEW c \in Conns, NEW w \in Workers, WorkerSetsState(c, w)
       PROVE MhdServes'
  BY <1>29, <1>0 DEF WorkerSetsState, MhdServes, mhdVars
<1>30. ASSUME NEW c \in Conns, NEW w \in Workers, WorkerReportsEnded(c, w)
       PROVE MhdServes'
  BY <1>30, <1>0 DEF WorkerReportsEnded, MhdServes, mhdVars
<1>31. ASSUME NEW c \in Conns, NEW w \in Workers, WorkerReportsStop(c, w)
       PROVE MhdServes'
  BY <1>31, <1>0 DEF WorkerReportsStop, MhdServes, mhdVars
<1>32. ASSUME NEW c \in Conns, NEW w \in Workers, WorkerEnds(c, w)
       PROVE MhdServes'
  BY <1>32, <1>0 DEF WorkerEnds, MhdServes, mhdVars
<1>33. ASSUME NEW c \in Conns, Connect(c) PROVE MhdServes'
  BY <1>33, <1>0 DEF Connect, MhdServes, mhdVars
<1>34. ASSUME NEW c \in Conns, StreamRequest(c) PROVE MhdServes'
  BY <1>34, <1>0 DEF StreamRequest, MhdServes
<1>35. ASSUME NEW c \in Conns, GhostRemoved(c) PROVE MhdServes'
  BY <1>35, <1>0 DEF GhostRemoved, MhdServes, mhdVars
<1>36. ASSUME NEW c \in Conns, CloseBegins(c) PROVE MhdServes'
  BY <1>36, <1>0 DEF CloseBegins, MhdServes
<1>37. CASE UNCHANGED vars
  BY <1>37, <1>0 DEF vars, MhdServes, mhdVars
<1> QED
  BY <1>1, <1>2, <1>3, <1>4, <1>5, <1>6, <1>7, <1>8, <1>9, <1>10, <1>11,
     <1>12, <1>13, <1>14, <1>15, <1>16, <1>17, <1>18, <1>19, <1>20, <1>21,
     <1>22, <1>23, <1>24, <1>25, <1>26, <1>27, <1>28, <1>29, <1>30, <1>31,
     <1>32, <1>33, <1>34, <1>35, <1>36, <1>37
  DEF Next, LoopStep, MhdFinishes, WorkerFinishes

\* The control of the loop thread stays consistent with the caster.
LEMMA LoopStepShape ==
  ASSUME SessionInv, [Next]_vars
  PROVE  LoopShape'
<1>0. /\ LoopShape
      /\ NoConn \notin Conns
      /\ caster \in Conns \cup {NoConn}
      /\ toStart \in Conns \cup {NoConn}
  BY SessionAssumption DEF SessionInv, TypeOK
<1>h. ASSUME NEW type, Take(type)
      PROVE  type = "StartCaster" => Head(events).conn \in Conns
  BY <1>h, TakeOne DEF SessionInv
<1>1. CASE HandleStartServer
  BY <1>1, <1>0, <1>h DEF HandleStartServer, LoopShape, casterVars, Take
<1>2. CASE HandleStartCaster
  BY <1>2, <1>0, <1>h DEF HandleStartCaster, LoopShape, casterVars, Take
<1>3. CASE HandleStopCaster
  BY <1>3, <1>0, <1>h DEF HandleStopCaster, LoopShape, casterVars, Take
<1>4. CASE HandleCasterStarted
  BY <1>4, <1>0, <1>h DEF HandleCasterStarted, LoopShape, loopVars,
     casterVars, Take
<1>5. CASE HandleCasterEnded
  BY <1>5, <1>0, <1>h DEF HandleCasterEnded, LoopShape, loopVars, casterVars,
     Take
<1>6. CASE StopDrop
  BY <1>6, <1>0, <1>h DEF StopDrop, LoopShape, casterVars
<1>7. CASE StopReset
  BY <1>7, <1>0, <1>h DEF StopReset, LoopShape
<1>8. CASE StopJoin
  BY <1>8, <1>0, <1>h DEF StopJoin, LoopShape
<1>9. CASE StopEnded
  BY <1>9, <1>0, <1>h DEF StopEnded, LoopShape, casterVars
<1>10. CASE Emplace
  BY <1>10, <1>0, <1>h DEF Emplace, LoopShape
<1>11. CASE EmplaceFails
  BY <1>11, <1>0, <1>h DEF EmplaceFails, LoopShape
<1>12. CASE StartSources
  BY <1>12, <1>0, <1>h DEF StartSources, LoopShape
<1>13. CASE StartDone
  BY <1>13, <1>0, <1>h DEF StartDone, LoopShape
<1>14. CASE StartMuxing
  BY <1>14, <1>0, <1>h DEF StartMuxing, LoopShape
<1>15. CASE StartFails
  BY <1>15, <1>0, <1>h DEF StartFails, LoopShape
<1>16. CASE StartReportEnded
  BY <1>16, <1>0, <1>h DEF StartReportEnded, LoopShape, casterVars
<1>17. CASE StartReportStop
  BY <1>17, <1>0, <1>h DEF StartReportStop, LoopShape, casterVars
<1>18. CASE Assign
  BY <1>18, <1>0, <1>h DEF Assign, LoopShape
<1>19. CASE LoopEnds
  BY <1>19, <1>0, <1>h DEF LoopEnds, LoopShape, casterVars
<1>20. CASE DestroyServer
  BY <1>20, <1>0, <1>h DEF DestroyServer, LoopShape, casterVars
<1>21. CASE DestroyCaster
  BY <1>21, <1>0, <1>h DEF DestroyCaster, LoopShape
<1>22. CASE LastJoin
  BY <1>22, <1>0, <1>h DEF LastJoin, LoopShape
<1>23. CASE StreamRequestStart
  BY <1>23, <1>0, <1>h DEF StreamRequestStart, LoopShape, loopVars, casterVars
<1>24. CASE CloseChecks
  BY <1>24, <1>0, <1>h DEF CloseChecks, LoopShape, loopVars, casterVars
<1>25. CASE CloseRemoves
  BY <1>25, <1>0, <1>h DEF CloseRemoves, LoopShape, loopVars, casterVars
<1>26. CASE Cancel
  BY <1>26, <1>0, <1>h DEF Cancel, LoopShape, loopVars, casterVars
<1>27. CASE Shutdown
  BY <1>27, <1>0, <1>h DEF Shutdown, LoopShape, loopVars, casterVars
<1>28. ASSUME NEW c \in Conns, NEW w \in Workers, WorkerFails(c, w)
       PROVE LoopShape'
  BY <1>28, <1>0, <1>h DEF WorkerFails, LoopShape, loopVars
<1>29. ASSUME NEW c \in Conns, NEW w \in Workers, WorkerSetsState(c, w)
       PROVE LoopShape'
  BY <1>29, <1>0, <1>h DEF WorkerSetsState, LoopShape, loopVars
<1>30. ASSUME NEW c \in Conns, NEW w \in Workers, WorkerReportsEnded(c, w)
       PROVE LoopShape'
  BY <1>30, <1>0, <1>h DEF WorkerReportsEnded, LoopShape, loopVars
<1>31. ASSUME NEW c \in Conns, NEW w \in Workers, WorkerReportsStop(c, w)
       PROVE LoopShape'
  BY <1>31, <1>0, <1>h DEF WorkerReportsStop, LoopShape, loopVars
<1>32. ASSUME NEW c \in Conns, NEW w \in Workers, WorkerEnds(c, w)
       PROVE LoopShape'
  BY <1>32, <1>0, <1>h DEF WorkerEnds, LoopShape, loopVars
<1>33. ASSUME NEW c \in Conns, Connect(c) PROVE LoopShape'
  BY <1>33, <1>0, <1>h DEF Connect, LoopShape, loopVars, casterVars
<1>34. ASSUME NEW c \in Conns, StreamRequest(c) PROVE LoopShape'
  BY <1>34, <1>0, <1>h DEF StreamRequest, LoopShape, loopVars, casterVars
<1>35. ASSUME NEW c \in Conns, GhostRemoved(c) PROVE LoopShape'
  BY <1>35, <1>0, <1>h DEF GhostRemoved, LoopShape, loopVars, casterVars
<1>36. ASSUME NEW c \in Conns, CloseBegins(c) PROVE LoopShape'
  BY <1>36, <1>0, <1>h DEF CloseBegins, LoopShape, loopVars, casterVars
<1>37. CASE UNCHANGED vars
  BY <1>37, <1>0, <1>h DEF vars, LoopShape, loopVars, casterVars
<1> QED
  BY <1>1, <1>2, <1>3, <1>4, <1>5, <1>6, <1>7, <1>8, <1>9, <1>10, <1>11,
     <1>12, <1>13, <1>14, <1>15, <1>16, <1>17, <1>18, <1>19, <1>20, <1>21,
     <1>22, <1>23, <1>24, <1>25, <1>26, <1>27, <1>28, <1>29, <1>30, <1>31,
     <1>32, <1>33, <1>34, <1>35, <1>36, <1>37
  DEF Next, LoopStep, MhdFinishes, WorkerFinishes

\* m_castingConnId names the client of a caster that is not being replaced.
LEMMA OwnerStep ==
  ASSUME SessionInv, [Next]_vars
  PROVE  OwnerStays'
<1>0. OwnerStays /\ LoopShape
  BY DEF SessionInv
<1>1. CASE HandleStartServer
  BY <1>1, <1>0 DEF HandleStartServer, OwnerStays, LoopShape, casterVars, Take
<1>2. CASE HandleStartCaster
  BY <1>2, <1>0 DEF HandleStartCaster, OwnerStays, LoopShape, casterVars, Take
<1>3. CASE HandleStopCaster
  BY <1>3, <1>0 DEF HandleStopCaster, OwnerStays, LoopShape, casterVars, Take
<1>4. CASE HandleCasterStarted
  BY <1>4, <1>0 DEF HandleCasterStarted, OwnerStays, LoopShape, loopVars,
     casterVars, Take
<1>5. CASE HandleCasterEnded
  BY <1>5, <1>0 DEF HandleCasterEnded, OwnerStays, LoopShape, loopVars,
     casterVars, Take
<1>6. CASE StopDrop
  BY <1>6, <1>0 DEF StopDrop, OwnerStays, LoopShape, casterVars
<1>7. CASE StopReset
  BY <1>7, <1>0 DEF StopReset, OwnerStays, LoopShape
<1>8. CASE StopJoin
  BY <1>8, <1>0 DEF StopJoin, OwnerStays, LoopShape
<1>9. CASE StopEnded
  BY <1>9, <1>0 DEF StopEnded, OwnerStays, LoopShape, casterVars
<1>10. CASE Emplace
  BY <1>10, <1>0 DEF Emplace, OwnerStays, LoopShape
<1>11. CASE EmplaceFails
  BY <1>11, <1>0 DEF EmplaceFails, OwnerStays, LoopShape
<1>12. CASE StartSources
  BY <1>12, <1>0 DEF StartSources, OwnerStays, LoopShape
<1>13. CASE StartDone
  BY <1>13, <1>0 DEF StartDone, OwnerStays, LoopShape
<1>14. CASE StartMuxing
  BY <1>14, <1>0 DEF StartMuxing, OwnerStays, LoopShape
<1>15. CASE StartFails
  BY <1>15, <1>0 DEF StartFails, OwnerStays, LoopShape
<1>16. CASE StartReportEnded
  BY <1>16, <1>0 DEF StartReportEnded, OwnerStays, LoopShape, casterVars
<1>17. CASE StartReportStop
  BY <1>17, <1>0 DEF StartReportStop, OwnerStays, LoopShape, casterVars
<1>18. CASE Assign
  BY <1>18, <1>0 DEF Assign, OwnerStays, LoopShape
<1>19. CASE LoopEnds
  BY <1>19, <1>0 DEF LoopEnds, OwnerStays, LoopShape, casterVars
<1>20. CASE DestroyServer
  BY <1>20, <1>0 DEF DestroyServer, OwnerStays, LoopShape, casterVars
<1>21. CASE DestroyCaster
  BY <1>21, <1>0 DEF DestroyCaster, OwnerStays, LoopShape
<1>22. CASE LastJoin
  BY <1>22, <1>0 DEF LastJoin, OwnerStays, LoopShape
<1>23. CASE StreamRequestStart
  BY <1>23, <1>0 DEF StreamRequestStart, OwnerStays, LoopShape, loopVars,
     casterVars
<1>24. CASE CloseChecks
  BY <1>24, <1>0 DEF CloseChecks, OwnerStays, LoopShape, loopVars, casterVars
<1>25. CASE CloseRemoves
  BY <1>25, <1>0 DEF CloseRemoves, OwnerStays, LoopShape, loopVars, casterVars
<1>26. CASE Cancel
  BY <1>26, <1>0 DEF Cancel, OwnerStays, LoopShape, loopVars, casterVars
<1>27. CASE Shutdown
  BY <1>27, <1>0 DEF Shutdown, OwnerStays, LoopShape, loopVars, casterVars
<1>28. ASSUME NEW c \in Conns, NEW w \in Workers, WorkerFails(c, w)
       PROVE OwnerStays'
  BY <1>28, <1>0 DEF WorkerFails, OwnerStays, LoopShape, loopVars
<1>29. ASSUME NEW c \in Conns, NEW w \in Workers, WorkerSetsState(c, w)
       PROVE OwnerStays'
  BY <1>29, <1>0 DEF WorkerSetsState, OwnerStays, LoopShape, loopVars
<1>30. ASSUME NEW c \in Conns, NEW w \in Workers, WorkerReportsEnded(c, w)
       PROVE OwnerStays'
  BY <1>30, <1>0 DEF WorkerReportsEnded, OwnerStays, LoopShape, loopVars
<1>31. ASSUME NEW c \in Conns, NEW w \in Workers, WorkerReportsStop(c, w)
       PROVE OwnerStays'
  BY <1>31, <1>0 DEF WorkerReportsStop, OwnerStays, LoopShape, loopVars
<1>32. ASSUME NEW c \in Conns, NEW w \in Workers, WorkerEnds(c, w)
       PROVE OwnerStays'
  BY <1>32, <1>0 DEF WorkerEnds, OwnerStays, LoopShape, loopVars
<1>33. ASSUME NEW c \in Conns, Connect(c) PROVE OwnerStays'
  BY <1>33, <1>0 DEF Connect, OwnerStays, LoopShape, loopVars, casterVars
<1>34. ASSUME NEW c \in Conns, StreamRequest(c) PROVE OwnerStays'
  BY <1>34, <1>0 DEF StreamRequest, OwnerStays, LoopShape, loopVars, casterVars
<1>35. ASSUME NEW c \in Conns, GhostRemoved(c) PROVE OwnerStays'
  BY <1>35, <1>0 DEF GhostRemoved, OwnerStays, LoopShape, loopVars, casterVars
<1>36. ASSUME NEW c \in Conns, CloseBegins(c) PROVE OwnerStays'
  BY <1>36, <1>0 DEF CloseBegins, OwnerStays, LoopShape, loopVars, casterVars
<1>37. CASE UNCHANGED vars
  BY <1>37, <1>0 DEF vars, OwnerStays, LoopShape, loopVars, casterVars
<1> QED
  BY <1>1, <1>2, <1>3, <1>4, <1>5, <1>6, <1>7, <1>8, <1>9, <1>10, <1>11,
     <1>12, <1>13, <1>14, <1>15, <1>16, <1>17, <1>18, <1>19, <1>20, <1>21,
     <1>22, <1>23, <1>24, <1>25, <1>26, <1>27, <1>28, <1>29, <1>30, <1>31,
     <1>32, <1>33, <1>34, <1>35, <1>36, <1>37
  DEF Next, LoopStep, MhdFinishes, WorkerFinishes

\* A step on which no thread of a caster moves keeps the threads where they are.
LEMMA JoinedStays ==
  ASSUME UNCHANGED worker, NEW c \in Conns, Joined(c)
  PROVE  Joined(c)'
BY DEF Joined

\* A caster one of whose threads is not joined exists or is being destroyed,
\* and when that thread moves the others are as before.
LEMMA WorkerMoves ==
  ASSUME SessionInv, NEW c \in Conns, NEW w \in Workers,
         worker[c][w] \notin {"none", "gone"},
         NEW to, worker' = [worker EXCEPT ![c][w] = to],
         UNCHANGED <<caster, dying>>
  PROVE  NoSurvivingThread'
<1>1. c \in {caster, dying}
  BY DEF SessionInv, NoSurvivingThread, Joined
<1>2. \A d \in Conns \ {c} : worker'[d] = worker[d]
  BY DEF SessionInv, TypeOK
<1> QED
  BY <1>1, <1>2 DEF SessionInv, NoSurvivingThread, Joined

\* No thread of a caster outlives it.
LEMMA ThreadStep ==
  ASSUME SessionInv, [Next]_vars
  PROVE  NoSurvivingThread'
<1>0. NoSurvivingThread /\ LoopShape /\ NoConn \notin Conns
  BY SessionAssumption DEF SessionInv
<1>1. CASE HandleStartServer
  BY <1>1, <1>0, JoinedStays DEF HandleStartServer, NoSurvivingThread,
     casterVars, Take
<1>2. CASE HandleStartCaster
  BY <1>2, <1>0, JoinedStays DEF HandleStartCaster, NoSurvivingThread,
     casterVars, Take
<1>3. CASE HandleStopCaster
  BY <1>3, <1>0, JoinedStays DEF HandleStopCaster, NoSurvivingThread,
     casterVars, Take
<1>4. CASE HandleCasterStarted
  BY <1>4, <1>0, JoinedStays DEF HandleCasterStarted, NoSurvivingThread,
     loopVars, casterVars, Take
<1>5. CASE HandleCasterEnded
  BY <1>5, <1>0, JoinedStays DEF HandleCasterEnded, NoSurvivingThread,
     loopVars, casterVars, Take
<1>6. CASE StopDrop
  BY <1>6, <1>0, JoinedStays DEF StopDrop, NoSurvivingThread, casterVars
<1>7. CASE StopReset
  BY <1>7, <1>0, JoinedStays DEF StopReset, NoSurvivingThread, LoopShape
<1>8. CASE StopJoin
  BY <1>8, <1>0, JoinedStays DEF StopJoin, NoSurvivingThread, LoopShape
<1>9. CASE StopEnded
  BY <1>9, <1>0, JoinedStays DEF StopEnded, NoSurvivingThread, casterVars
<1>10. CASE Emplace
  BY <1>10, <1>0, JoinedStays DEF Emplace, NoSurvivingThread, LoopShape
<1>11. CASE EmplaceFails
  BY <1>11, <1>0, JoinedStays DEF EmplaceFails, NoSurvivingThread
<1>12. CASE StartSources
  <2>1. toStart = caster /\ toStart \in Conns
    BY <1>12, <1>0 DEF StartSources, LoopShape
  <2>2. \A c \in Conns \ {caster} : worker'[c] = worker[c]
    BY <1>12, <2>1 DEF StartSources, SessionInv, TypeOK
  <2> QED
    BY <1>12, <2>1, <2>2, <1>0 DEF StartSources, NoSurvivingThread, Joined
<1>13. CASE StartDone
  BY <1>13, <1>0, JoinedStays DEF StartDone, NoSurvivingThread
<1>14. CASE StartMuxing
  <2>1. toStart = caster /\ toStart \in Conns
    BY <1>14, <1>0 DEF StartMuxing, LoopShape
  <2>2. \A c \in Conns \ {caster} : worker'[c] = worker[c]
    BY <1>14, <2>1 DEF StartMuxing, SessionInv, TypeOK
  <2> QED
    BY <1>14, <2>1, <2>2, <1>0 DEF StartMuxing, NoSurvivingThread, Joined
<1>15. CASE StartFails
  BY <1>15, <1>0, JoinedStays DEF StartFails, NoSurvivingThread
<1>16. CASE StartReportEnded
  BY <1>16, <1>0, JoinedStays DEF StartReportEnded, NoSurvivingThread,
     casterVars
<1>17. CASE StartReportStop
  BY <1>17, <1>0, JoinedStays DEF StartReportStop, NoSurvivingThread, casterVars
<1>18. CASE Assign
  BY <1>18, <1>0, JoinedStays DEF Assign, NoSurvivingThread
<1>19. CASE LoopEnds
  BY <1>19, <1>0, JoinedStays DEF LoopEnds, NoSurvivingThread, casterVars
<1>20. CASE DestroyServer
  BY <1>20, <1>0, JoinedStays DEF DestroyServer, NoSurvivingThread, casterVars
<1>21. CASE DestroyCaster
  BY <1>21, <1>0, JoinedStays DEF DestroyCaster, NoSurvivingThread, LoopShape
<1>22. CASE LastJoin
  BY <1>22, <1>0, JoinedStays DEF LastJoin, NoSurvivingThread, LoopShape
<1>23. CASE StreamRequestStart
  BY <1>23, <1>0, JoinedStays DEF StreamRequestStart, NoSurvivingThread,
     loopVars, casterVars
<1>24. CASE CloseChecks
  BY <1>24, <1>0, JoinedStays DEF CloseChecks, NoSurvivingThread, loopVars,
     casterVars
<1>25. CASE CloseRemoves
  BY <1>25, <1>0, JoinedStays DEF CloseRemoves, NoSurvivingThread, loopVars,
     casterVars
<1>26. CASE Cancel
  BY <1>26, <1>0, JoinedStays DEF Cancel, NoSurvivingThread, loopVars,
     casterVars
<1>27. CASE Shutdown
  BY <1>27, <1>0, JoinedStays DEF Shutdown, NoSurvivingThread, loopVars,
     casterVars
<1>28. ASSUME NEW c \in Conns, NEW w \in Workers, WorkerFails(c, w)
       PROVE NoSurvivingThread'
  BY <1>28, WorkerMoves DEF WorkerFails, loopVars
<1>29. ASSUME NEW c \in Conns, NEW w \in Workers, WorkerSetsState(c, w)
       PROVE NoSurvivingThread'
  BY <1>29, WorkerMoves DEF WorkerSetsState, loopVars
<1>30. ASSUME NEW c \in Conns, NEW w \in Workers, WorkerReportsEnded(c, w)
       PROVE NoSurvivingThread'
  BY <1>30, WorkerMoves DEF WorkerReportsEnded, loopVars
<1>31. ASSUME NEW c \in Conns, NEW w \in Workers, WorkerReportsStop(c, w)
       PROVE NoSurvivingThread'
  BY <1>31, WorkerMoves DEF WorkerReportsStop, loopVars
<1>32. ASSUME NEW c \in Conns, NEW w \in Workers, WorkerEnds(c, w)
       PROVE NoSurvivingThread'
  BY <1>32, WorkerMoves DEF WorkerEnds, loopVars
<1>33. ASSUME NEW c \in Conns, Connect(c) PROVE NoSurvivingThread'
  BY <1>33, <1>0, JoinedStays DEF Connect, NoSurvivingThread, loopVars,
     casterVars
<1>34. ASSUME NEW c \in Conns, StreamRequest(c) PROVE NoSurvivingThread'
  BY <1>34, <1>0, JoinedStays DEF StreamRequest, NoSurvivingThread, loopVars,
     casterVars
<1>35. ASSUME NEW c \in Conns, GhostRemoved(c) PROVE NoSurvivingThread'
  BY <1>35, <1>0, JoinedStays DEF GhostRemoved, NoSurvivingThread, loopVars,
     casterVars
<1>36. ASSUME NEW c \in Conns, CloseBegins(c) PROVE NoSurvivingThread'
  BY <1>36, <1>0, JoinedStays DEF CloseBegins, NoSurvivingThread, loopVars,
     casterVars
<1>37. CASE UNCHANGED vars
  BY <1>37, <1>0, JoinedStays DEF vars, NoSurvivingThread, loopVars, casterVars
<1> QED
  BY <1>1, <1>2, <1>3, <1>4, <1>5, <1>6, <1>7, <1>8, <1>9, <1>10, <1>11,
     <1>12, <1>13, <1>14, <1>15, <1>16, <1>17, <1>18, <1>19, <1>20, <1>21,
     <1>22, <1>23, <1>24, <1>25, <1>26, <1>27, <1>28, <1>29, <1>30, <1>31,
     <1>32, <1>33, <1>34, <1>35, <1>36, <1>37
  DEF Next, LoopStep, MhdFinishes, WorkerFinishes

\* Every variable keeps its type.
LEMMA TypeStep ==
  ASSUME SessionInv, [Next]_vars
  PROVE  TypeOK'
<1>0. TypeOK /\ LoopShape /\ MhdServes /\ events' \in Seq(Events)
  BY EventsStep DEF SessionInv
<1>h. ASSUME NEW type, Take(type) PROVE Head(events).conn \in Conns \cup {NoConn}
  BY <1>h, TakeOne DEF SessionInv
<1> USE SessionAssumption
<1>1. CASE HandleStartServer
  BY <1>1, <1>0, <1>h DEF HandleStartServer, Take, TypeOK, LoopPcs,
     casterVars, mhdVars
<1>2. CASE HandleStartCaster
  BY <1>2, <1>0, <1>h DEF HandleStartCaster, Take, TypeOK, LoopPcs,
     serverVars, casterVars, mhdVars
<1>3. CASE HandleStopCaster
  BY <1>3, <1>0, <1>h DEF HandleStopCaster, Take, TypeOK, LoopPcs, serverVars,
     casterVars, mhdVars
<1>4. CASE HandleCasterStarted
  BY <1>4, <1>0, <1>h DEF HandleCasterStarted, Take, TypeOK, loopVars,
     serverVars, casterVars, mhdVars
<1>5. CASE HandleCasterEnded
  BY <1>5, <1>0, <1>h DEF HandleCasterEnded, Take, TypeOK, loopVars,
     serverVars, casterVars, mhdVars
<1>6. CASE StopDrop
  <2>1. removed' \subseteq Conns
    BY <1>6, <1>0 DEF StopDrop, TypeOK, Dropped
  <2> QED
    BY <1>6, <1>0, <2>1 DEF StopDrop, TypeOK, LoopPcs, LoopShape, casterVars,
       mhdVars
<1>7. CASE StopReset
  BY <1>7, <1>0 DEF StopReset, TypeOK, LoopPcs, States, LoopShape, MhdServes,
     serverVars, mhdVars
<1>8. CASE StopJoin
  BY <1>8, <1>0 DEF StopJoin, TypeOK, LoopPcs, States, LoopShape, MhdServes,
     serverVars, mhdVars
<1>9. CASE StopEnded
  BY <1>9, <1>0 DEF StopEnded, TypeOK, LoopPcs, LoopShape, MhdServes,
     serverVars, casterVars, mhdVars
<1>10. CASE Emplace
  BY <1>10, <1>0 DEF Emplace, TypeOK, LoopPcs, States, LoopShape, MhdServes,
     serverVars, mhdVars
<1>11. CASE EmplaceFails
  <2>1. removed' \subseteq Conns
    BY <1>11, <1>0 DEF EmplaceFails, TypeOK, Dropped
  <2> QED
    BY <1>11, <1>0, <2>1 DEF EmplaceFails, TypeOK, LoopPcs, States, LoopShape,
       mhdVars
<1>12. CASE StartSources
  <2>1. toStart \in Conns
    BY <1>12, <1>0 DEF StartSources, LoopShape
  <2>2. worker' \in [Conns -> [Workers -> {"none", "running", "failing",
                                          "reportEnded", "reportStop", "gone"}]]
    <3>1. CASE "source" \in Workers
      <4>1. worker' = [worker EXCEPT ![toStart]["source"] = "running"]
        BY <1>12, <3>1 DEF StartSources
      <4>2. worker \in [Conns -> [Workers -> {"none", "running", "failing",
                                              "reportEnded", "reportStop", "gone"}]]
        BY <1>0 DEF TypeOK
      <4> QED
        BY <2>1, <3>1, <4>1, <4>2
    <3>2. CASE "source" \notin Workers
      BY <1>12, <3>2, <1>0 DEF StartSources, TypeOK
    <3> QED
      BY <3>1, <3>2
  <2>3. state' \in [Conns -> States]
    BY <1>12, <2>1, <1>0 DEF StartSources, TypeOK, States
  <2> QED
    BY <1>12, <1>0, <2>2, <2>3 DEF StartSources, TypeOK, LoopPcs, serverVars,
       mhdVars
<1>13. CASE StartDone
  BY <1>13, <1>0 DEF StartDone, TypeOK, LoopPcs, States, LoopShape, MhdServes,
     serverVars, mhdVars
<1>14. CASE StartMuxing
  <2>1. worker' \in [Conns -> [Workers -> {"none", "running", "failing",
                                          "reportEnded", "reportStop", "gone"}]]
    BY <1>14, <1>0 DEF StartMuxing, TypeOK, LoopShape
  <2> QED
    BY <1>14, <1>0, <2>1 DEF StartMuxing, TypeOK, LoopPcs, serverVars,
       mhdVars, LoopShape
<1>15. CASE StartFails
  BY <1>15, <1>0 DEF StartFails, TypeOK, LoopPcs, States, LoopShape,
     MhdServes, serverVars, mhdVars
<1>16. CASE StartReportEnded
  BY <1>16, <1>0 DEF StartReportEnded, TypeOK, LoopPcs, LoopShape, MhdServes,
     serverVars, casterVars, mhdVars
<1>17. CASE StartReportStop
  BY <1>17, <1>0 DEF StartReportStop, TypeOK, LoopPcs, LoopShape, MhdServes,
     serverVars, casterVars, mhdVars
<1>18. CASE Assign
  BY <1>18, <1>0 DEF Assign, TypeOK, LoopPcs, LoopShape, MhdServes,
     serverVars, mhdVars
<1>19. CASE LoopEnds
  BY <1>19, <1>0 DEF LoopEnds, TypeOK, LoopPcs, LoopShape, MhdServes,
     serverVars, casterVars, mhdVars
<1>20. CASE DestroyServer
  <2>1. client' \in [Conns -> {"absent", "open", "closed"}]
    BY <1>20, <1>0 DEF DestroyServer, TypeOK
  <2> QED
    BY <1>20, <1>0, <2>1 DEF DestroyServer, TypeOK, LoopPcs, casterVars, mhdVars
<1>21. CASE DestroyCaster
  BY <1>21, <1>0 DEF DestroyCaster, TypeOK, LoopPcs, States, LoopShape,
     MhdServes, serverVars, mhdVars
<1>22. CASE LastJoin
  BY <1>22, <1>0 DEF LastJoin, TypeOK, LoopPcs, States, LoopShape, MhdServes,
     serverVars, mhdVars
<1>23. CASE StreamRequestStart
  BY <1>23, <1>0 DEF StreamRequestStart, TypeOK, LoopShape, MhdServes,
     loopVars, casterVars
<1>24. CASE CloseChecks
  BY <1>24, <1>0 DEF CloseChecks, TypeOK, LoopShape, MhdServes, loopVars,
     serverVars, casterVars
<1>25. CASE CloseRemoves
  <2>1. mhdConn \in Conns
    BY <1>25, <1>0 DEF CloseRemoves, MhdServes
  <2> QED
    BY <1>25, <1>0, <2>1 DEF CloseRemoves, TypeOK, loopVars, casterVars
<1>26. CASE Cancel
  BY <1>26, <1>0 DEF Cancel, TypeOK, LoopShape, MhdServes, loopVars,
     serverVars, casterVars, mhdVars
<1>27. CASE Shutdown
  BY <1>27, <1>0 DEF Shutdown, TypeOK, LoopShape, MhdServes, loopVars,
     serverVars, casterVars, mhdVars
<1>28. ASSUME NEW c \in Conns, NEW w \in Workers, WorkerFails(c, w)
       PROVE TypeOK'
  <2>1. worker' \in [Conns -> [Workers -> {"none", "running", "failing",
                                          "reportEnded", "reportStop", "gone"}]]
    BY <1>28, <1>0 DEF WorkerFails, TypeOK
  <2> QED
    BY <1>28, <1>0, <2>1 DEF WorkerFails, TypeOK, loopVars, serverVars, mhdVars
<1>29. ASSUME NEW c \in Conns, NEW w \in Workers, WorkerSetsState(c, w)
       PROVE TypeOK'
  <2>1. worker' \in [Conns -> [Workers -> {"none", "running", "failing",
                                          "reportEnded", "reportStop", "gone"}]]
    BY <1>29, <1>0 DEF WorkerSetsState, TypeOK
  <2> QED
    BY <1>29, <1>0, <2>1 DEF WorkerSetsState, TypeOK, States, loopVars,
       serverVars, mhdVars
<1>30. ASSUME NEW c \in Conns, NEW w \in Workers, WorkerReportsEnded(c, w)
       PROVE TypeOK'
  <2>1. worker' \in [Conns -> [Workers -> {"none", "running", "failing",
                                          "reportEnded", "reportStop", "gone"}]]
    BY <1>30, <1>0 DEF WorkerReportsEnded, TypeOK
  <2> QED
    BY <1>30, <1>0, <2>1 DEF WorkerReportsEnded, TypeOK, loopVars, serverVars,
       mhdVars
<1>31. ASSUME NEW c \in Conns, NEW w \in Workers, WorkerReportsStop(c, w)
       PROVE TypeOK'
  <2>1. worker' \in [Conns -> [Workers -> {"none", "running", "failing",
                                          "reportEnded", "reportStop", "gone"}]]
    BY <1>31, <1>0 DEF WorkerReportsStop, TypeOK
  <2> QED
    BY <1>31, <1>0, <2>1 DEF WorkerReportsStop, TypeOK, loopVars, serverVars,
       mhdVars
<1>32. ASSUME NEW c \in Conns, NEW w \in Workers, WorkerEnds(c, w) PROVE TypeOK'
  <2>1. worker' \in [Conns -> [Workers -> {"none", "running", "failing",
                                          "reportEnded", "reportStop", "gone"}]]
    BY <1>32, <1>0 DEF WorkerEnds, TypeOK
  <2> QED
    BY <1>32, <1>0, <2>1 DEF WorkerEnds, TypeOK, loopVars, serverVars, mhdVars
<1>33. ASSUME NEW c \in Conns, Connect(c) PROVE TypeOK'
  BY <1>33, <1>0 DEF Connect, TypeOK, LoopShape, MhdServes, loopVars,
     casterVars, mhdVars
<1>34. ASSUME NEW c \in Conns, StreamRequest(c) PROVE TypeOK'
  BY <1>34, <1>0 DEF StreamRequest, TypeOK, LoopShape, MhdServes, loopVars,
     serverVars, casterVars
<1>35. ASSUME NEW c \in Conns, GhostRemoved(c) PROVE TypeOK'
  BY <1>35, <1>0 DEF GhostRemoved, TypeOK, LoopShape, MhdServes, loopVars,
     casterVars, mhdVars
<1>36. ASSUME NEW c \in Conns, CloseBegins(c) PROVE TypeOK'
  BY <1>36, <1>0 DEF CloseBegins, TypeOK, LoopShape, MhdServes, loopVars,
     serverVars, casterVars
<1>37. CASE UNCHANGED vars
  BY <1>37, <1>0 DEF vars, TypeOK, loopVars, serverVars, casterVars, mhdVars
<1> QED
  BY <1>1, <1>2, <1>3, <1>4, <1>5, <1>6, <1>7, <1>8, <1>9, <1>10, <1>11,
     <1>12, <1>13, <1>14, <1>15, <1>16, <1>17, <1>18, <1>19, <1>20, <1>21,
     <1>22, <1>23, <1>24, <1>25, <1>26, <1>27, <1>28, <1>29, <1>30, <1>31,
     <1>32, <1>33, <1>34, <1>35, <1>36, <1>37
  DEF Next, LoopStep, MhdFinishes, WorkerFinishes

\* At first there is neither a caster nor a client.
LEMMA InitInv == Init => SessionInv
<1> SUFFICES ASSUME Init PROVE SessionInv
  OBVIOUS
<1> USE SessionAssumption
<1>1. /\ Event("StartServer", NoConn) \in Events
      /\ Event("StartServer", NoConn).type = "StartServer"
  BY DEF Event, Events, EventTypes
<1>2. /\ events \in Seq(Events)
      /\ \A i \in 1 .. Len(events) : events[i].type = "StartServer"
  BY <1>1 DEF Init
<1>3. TypeOK
  <2>1. /\ state \in [Conns -> States]
        /\ client \in [Conns -> {"absent", "open", "closed"}]
        /\ worker \in [Conns -> [Workers -> {"none", "running", "failing",
                                             "reportEnded", "reportStop", "gone"}]]
    BY DEF Init, States
  <2>2. 0 \in 0 .. MaxCancels
    OBVIOUS
  <2> QED
    BY <1>2, <2>1, <2>2 DEF Init, TypeOK, LoopPcs
<1>4. StartsAreFor /\ MhdServes /\ LoopShape /\ OwnerStays
  BY <1>2 DEF Init, StartsAreFor, MhdServes, LoopShape, OwnerStays
<1>5. NoSurvivingThread
  BY DEF Init, NoSurvivingThread, Joined
<1> QED
  BY <1>3, <1>4, <1>5 DEF SessionInv

\* The invariant holds throughout.
THEOREM SessionInvariant == SafeSpec => []SessionInv
<1>1. SessionInv /\ [Next]_vars => SessionInv'
  BY EventsStep, TypeStep, MhdStep, LoopStepShape, OwnerStep, ThreadStep
     DEF SessionInv
<1> QED
  BY <1>1, InitInv, PTL DEF SafeSpec

\* Every variable keeps its type, for any connections, threads and users.
THEOREM SessionTypeOK == Spec => []TypeOK
<1>1. SessionInv => TypeOK
  BY DEF SessionInv
<1> QED
  BY <1>1, SessionInvariant, PTL DEF Spec

\* stopCaster() and the handler of closed connections may rely on
\* m_castingConnId between two events although it is written only after
\* start() and never cleared (kamkast.cpp l. 245, 275, 440).
THEOREM SessionOwner == Spec => []OwnerIsRecorded
<1>1. SessionInv => OwnerIsRecorded
  BY DEF SessionInv, OwnerStays, OwnerIsRecorded
<1> QED
  BY <1>1, SessionInvariant, PTL DEF Spec

\* No thread of a destroyed caster runs: not while the next client is served,
\* nor after the program's teardown (caster.cpp l. 651-664).
THEOREM SessionThreads == Spec => []NoSurvivingThread
<1>1. SessionInv => NoSurvivingThread
  BY DEF SessionInv
<1> QED
  BY <1>1, SessionInvariant, PTL DEF Spec

-----------------------------------------------------------------------------
(***************************************************************************)
(* The clients and the queue.  NoOrphanClient, GhostCasterOnlyByEarlyClose *)
(* and GuiSettles speak of events that are on their way: what each event   *)
(* announces must already be so, or become so, when its turn comes.        *)
(***************************************************************************)

\* Who asks for the stream is connected, and so is who is being served.
ClientsCame ==
  /\ \A c \in requested : client[c] # "absent"
  /\ mhdPc # "idle" => mhdConn \in Conns /\ client[mhdConn] = "open"
  /\ mhdPc = "request" => mhdConn \notin requested

\* Nothing is asked for, nor shown, before the server is up; it goes when the
\* loop has been told to end.
ServerShape ==
  /\ server = "none" =>
       /\ caster = NoConn /\ ~casting
       /\ mhdPc = "idle" /\ loopPc \in {"idle", "ended"}
       /\ ~Pending("StartCaster")
       /\ \A c \in Conns : client[c] = "absent"
  /\ server = "gone" => shuttingDown
  /\ loopPc \in {"teardown", "lastJoin", "done"} => shuttingDown

\* No two requests to start are for the same connection.
StartsDiffer ==
  \A i, j \in 1 .. Len(events) :
    /\ events[i].type = "StartCaster"
    /\ events[j].type = "StartCaster"
    /\ events[i].conn = events[j].conn
    => i = j

\* A connection gets one caster in its life: once it is to be started, no
\* request of it is left, and once it is recorded, it was started.
StartedOnce ==
  /\ StartsDiffer
  /\ \A c \in Conns : PendingStart(c) =>
       c \in requested /\ ~Starting(c) /\ caster # c /\ castingConnId # c
  /\ \A c \in Conns : Starting(c) =>
       /\ c \in requested
       /\ castingConnId # c
       /\ loopPc \in {"drop", "reset"} => caster # c
  /\ caster # NoConn => caster \in requested
  /\ castingConnId # NoConn => castingConnId \in requested

\* The threads of a new caster have not run before they are started.
ThreadsAreFresh ==
  /\ loopPc = "start" => Joined(toStart)
  /\ loopPc \in {"sources", "mux"} => worker[toStart]["muxer"] \in {"none", "gone"}

\* The end of the caster is on its way: an event that ends it, or a thread or
\* the loop that is about to send one.
Stopping ==
  \/ Pending("StopCaster") \/ Pending("StartCaster")
  \/ caster \in Conns /\ Reporting(caster)
  \/ loopPc \in {"drop", "reset", "reportEnded", "reportStop"}

\* A caster that has failed is going to be stopped.
FailureIsReported ==
  caster # NoConn /\ ~shuttingDown /\ state[caster] = "terminating" => Stopping

\* The client of a caster is dropped before the caster is.
DroppedFirst ==
  loopPc = "reset" /\ client[caster] = "open" => caster \in removed

\* A cast that is shown without a caster is going to be taken back.
EndIsShown ==
  casting /\ caster = NoConn /\ ~shuttingDown
    => Pending("CasterEnded") \/ loopPc \in {"join", "stopped"}

\* After all that is queued the GUI will show a cast, as the last word on it
\* is a start.
StartIsLast ==
  \E i \in 1 .. Len(events) :
    /\ events[i].type = "CasterStarted"
    /\ \A j \in 1 .. Len(events) : j > i => events[j].type # "CasterEnded"

WillBeShown == StartIsLast \/ (casting /\ ~Pending("CasterEnded"))

\* A caster that runs, and is not going to be stopped, will be shown.
StartIsShown ==
  caster # NoConn /\ ~shuttingDown /\ loopPc \notin {"start", "sources"}
    => Stopping \/ WillBeShown

\* A connection that had its caster, or will not get one.
Served(c) ==
  c \in requested /\ ~PendingStart(c) /\ ~Starting(c) /\ caster # c

Closing(c) == mhdPc \in {"closeCheck", "closeRemove"} /\ mhdConn = c

\* The caster of a client that goes is going to be stopped, once the HTTP
\* thread has looked at it.
CloseIsHeard ==
  \A c \in Conns : (client[c] = "closed" \/ Closing(c)) /\ ~shuttingDown =>
    \/ c \in missedClose
    \/ Served(c)
    \/ caster = c /\ (Stopping \/ (mhdPc = "closeCheck" /\ mhdConn = c))

\* The second inductive invariant.
QueueInv ==
  /\ ClientsCame
  /\ ServerShape
  /\ StartedOnce
  /\ ThreadsAreFresh
  /\ FailureIsReported
  /\ DroppedFirst
  /\ NoOrphanClient
  /\ EndIsShown
  /\ StartIsShown
  /\ CloseIsHeard

\* Each event takes its place at the end,
LEMMA QueueAdds ==
  ASSUME TypeOK, NEW e \in Events, Queue(<<e>>), ~shuttingDown
  PROVE  /\ \A t : Pending(t)' <=> Pending(t) \/ e.type = t
         /\ \A c : PendingStart(c)' <=>
              PendingStart(c) \/ (e.type = "StartCaster" /\ e.conn = c)
         /\ /\ StartsDiffer
            /\ e.type = "StartCaster" => ~PendingStart(e.conn)
            => StartsDiffer'
         /\ e.type # "CasterEnded" /\ StartIsLast => StartIsLast'
         /\ e.type = "CasterStarted" => StartIsLast'
<1>1. /\ events \in Seq(Events)
      /\ events' = events \o <<e>>
  BY DEF TypeOK, Queue
<1>2. /\ Len(events) \in Nat
      /\ Len(events') = Len(events) + 1
      /\ events'[Len(events')] = e
      /\ \A i \in 1 .. Len(events) : events'[i] = events[i]
      /\ DOMAIN events = 1 .. Len(events)
      /\ DOMAIN events' = 1 .. Len(events')
  BY <1>1
<1>3. /\ 1 .. Len(events') = (1 .. Len(events)) \cup {Len(events')}
      /\ \A i \in 1 .. Len(events) : i < Len(events')
  BY <1>2
<1>4. \A t : Pending(t)' <=> Pending(t) \/ e.type = t
  BY <1>2, <1>3 DEF Pending
<1>5. \A c : PendingStart(c)' <=>
              PendingStart(c) \/ (e.type = "StartCaster" /\ e.conn = c)
  BY <1>2, <1>3 DEF PendingStart
<1>6. ASSUME StartsDiffer, e.type = "StartCaster" => ~PendingStart(e.conn)
      PROVE  StartsDiffer'
  BY <1>2, <1>3, <1>6 DEF StartsDiffer, PendingStart
<1>7. ASSUME StartIsLast, e.type # "CasterEnded"
      PROVE  StartIsLast'
  BY <1>2, <1>3, <1>7 DEF StartIsLast
<1>8. ASSUME e.type = "CasterStarted"
      PROVE  StartIsLast'
  BY <1>2, <1>3, <1>8 DEF StartIsLast
<1> QED
  BY <1>4, <1>5, <1>6, <1>7, <1>8

\* and leaves the queue at its front.
LEMMA QueueTakes ==
  ASSUME TypeOK, NEW type, Take(type)
  PROVE  /\ \A t : Pending(t)' => Pending(t)
         /\ \A t : Pending(t) => Pending(t)' \/ t = type
         /\ \A c : PendingStart(c)' => PendingStart(c)
         /\ \A c : PendingStart(c) =>
              PendingStart(c)' \/ (type = "StartCaster" /\ Head(events).conn = c)
         /\ type = "StartCaster" => PendingStart(Head(events).conn)
         /\ StartsDiffer =>
              /\ StartsDiffer'
              /\ type = "StartCaster" =>
                   \A c : PendingStart(c)' => Head(events).conn # c
         /\ StartIsLast =>
              StartIsLast' \/ (type = "CasterStarted" /\ ~Pending("CasterEnded")')
<1>1. events \in Seq(Events) /\ events # <<>> /\ events' = Tail(events)
  BY DEF TypeOK, Take
<1>2. /\ Len(events) \in Nat \ {0}
      /\ Len(events') = Len(events) - 1
      /\ \A i \in 1 .. Len(events') : events'[i] = events[i + 1]
      /\ Head(events) = events[1] /\ events[1].type = type
      /\ DOMAIN events = 1 .. Len(events)
      /\ DOMAIN events' = 1 .. Len(events')
  BY <1>1 DEF Take
<1>3. /\ \A i \in 1 .. Len(events') : i + 1 \in 1 .. Len(events)
      /\ \A i \in 1 .. Len(events) :
           i = 1 \/ (i - 1 \in 1 .. Len(events') /\ events[i] = events'[i - 1])
      /\ 1 \in 1 .. Len(events)
  BY <1>2
<1>4. \A t : /\ Pending(t)' => Pending(t)
             /\ Pending(t) => Pending(t)' \/ t = type
  BY <1>2, <1>3 DEF Pending
<1>5. ASSUME NEW c
      PROVE  /\ PendingStart(c)' => PendingStart(c)
             /\ PendingStart(c) =>
                  PendingStart(c)' \/ (type = "StartCaster" /\ Head(events).conn = c)
  <2>1. PendingStart(c)' => PendingStart(c)
    BY <1>2, <1>3 DEF PendingStart
  <2>2. ASSUME PendingStart(c)
        PROVE  PendingStart(c)' \/ (type = "StartCaster" /\ Head(events).conn = c)
    <3>1. PICK i \in 1 .. Len(events) :
            events[i].type = "StartCaster" /\ events[i].conn = c
      BY <1>2, <2>2 DEF PendingStart
    <3> QED
      BY <1>2, <1>3, <3>1 DEF PendingStart
  <2> QED
    BY <2>1, <2>2
<1>6. type = "StartCaster" => PendingStart(Head(events).conn)
  BY <1>2, <1>3 DEF PendingStart
<1>7. ASSUME StartsDiffer PROVE StartsDiffer'
  <2> SUFFICES ASSUME NEW i \in 1 .. Len(events'), NEW j \in 1 .. Len(events'),
                      events'[i].type = "StartCaster",
                      events'[j].type = "StartCaster",
                      events'[i].conn = events'[j].conn
               PROVE  i = j
    BY DEF StartsDiffer
  <2>1. i + 1 = j + 1
    BY <1>2, <1>3, <1>7 DEF StartsDiffer
  <2> QED
    BY <2>1
<1>8. ASSUME StartsDiffer, type = "StartCaster", NEW c, PendingStart(c)'
      PROVE  Head(events).conn # c
  <2>1. PICK i \in 1 .. Len(events') :
          events'[i].type = "StartCaster" /\ events'[i].conn = c
    BY <1>2, <1>8 DEF PendingStart
  <2>2. /\ i + 1 \in 1 .. Len(events) /\ i + 1 # 1
        /\ events[i + 1].type = "StartCaster" /\ events[i + 1].conn = c
    BY <1>2, <1>3, <2>1
  <2> QED
    BY <1>2, <1>3, <1>8, <2>2 DEF StartsDiffer
<1>9. ASSUME StartIsLast
      PROVE  StartIsLast' \/ (type = "CasterStarted" /\ ~Pending("CasterEnded")')
  <2>1. PICK i \in 1 .. Len(events) :
          /\ events[i].type = "CasterStarted"
          /\ \A j \in 1 .. Len(events) : j > i => events[j].type # "CasterEnded"
    BY <1>9 DEF StartIsLast
  <2>2. CASE i = 1
    <3>1. \A j \in 1 .. Len(events') : j + 1 > 1 /\ events'[j].type # "CasterEnded"
      BY <1>2, <1>3, <2>1, <2>2
    <3> QED
      BY <1>2, <2>1, <2>2, <3>1 DEF Pending
  <2>3. CASE i # 1
    <3>1. /\ i - 1 \in 1 .. Len(events') /\ events'[i - 1].type = "CasterStarted"
          /\ \A j \in 1 .. Len(events') : j > i - 1 => j + 1 > i
      BY <1>2, <1>3, <2>1, <2>3
    <3> QED
      BY <1>2, <1>3, <2>1, <3>1 DEF StartIsLast
  <2> QED
    BY <2>2, <2>3
<1> QED
  BY <1>4, <1>5, <1>6, <1>7, <1>8, <1>9

\* A queue that is left alone announces what it did before.
LEMMA QueueStays ==
  ASSUME UNCHANGED events
  PROVE  /\ \A t : Pending(t)' <=> Pending(t)
         /\ \A c : PendingStart(c)' <=> PendingStart(c)
         /\ StartsDiffer' <=> StartsDiffer
         /\ StartIsLast' <=> StartIsLast
BY DEF Pending, PendingStart, StartsDiffer, StartIsLast

\* Which steps touch what.
LEMMA WhoChangesClients ==
  ASSUME [Next]_vars
  PROVE  \/ UNCHANGED <<client, requested, mhdPc, mhdConn>>
         \/ DestroyServer \/ StreamRequestStart \/ CloseChecks \/ CloseRemoves
         \/ \E c \in Conns : Connect(c) \/ StreamRequest(c) \/ CloseBegins(c)
BY DEF Next, vars, loopVars, serverVars, casterVars, mhdVars, LoopStep, MhdFinishes,
   WorkerFinishes, HandleStartServer, HandleStartCaster, HandleStopCaster,
   HandleCasterStarted, HandleCasterEnded, StopDrop, StopReset, StopJoin, StopEnded,
   Emplace, EmplaceFails, StartSources, StartDone, StartMuxing, StartFails,
   StartReportEnded, StartReportStop, Assign, LoopEnds, DestroyCaster, LastJoin,
   WorkerFails, WorkerSetsState, WorkerReportsEnded, WorkerReportsStop, WorkerEnds,
   GhostRemoved, Cancel, Shutdown

\* Only the loop thread moves itself, the caster and what the GUI shows.
LEMMA WhoMovesTheLoop ==
  ASSUME [Next]_vars
  PROVE  \/ UNCHANGED <<loopPc, toStart, dying, server, caster, castingConnId, casting>>
         \/ LoopStep
BY DEF Next, vars, loopVars, serverVars, casterVars, mhdVars, MhdFinishes,
   WorkerFinishes, WorkerFails, WorkerSetsState, WorkerReportsEnded,
   WorkerReportsStop, WorkerEnds, StreamRequestStart, CloseChecks, CloseRemoves,
   Connect, StreamRequest, GhostRemoved, CloseBegins, Cancel, Shutdown

\* Who takes an event from the queue, and who adds one.
LEMMA WhoSends ==
  ASSUME [Next]_vars
  PROVE  \/ UNCHANGED events
         \/ HandleStartServer \/ HandleStartCaster \/ HandleStopCaster
         \/ HandleCasterStarted \/ HandleCasterEnded
         \/ StopEnded \/ StartDone \/ StartReportEnded \/ StartReportStop
         \/ StreamRequestStart \/ CloseChecks \/ Cancel
         \/ \E c \in Conns, w \in Workers : \/ WorkerReportsEnded(c, w)
                                            \/ WorkerReportsStop(c, w)
         \/ \E c \in Conns : StreamRequest(c)
BY DEF Next, vars, LoopStep, MhdFinishes, WorkerFinishes, StopDrop, StopReset, StopJoin,
   Emplace, EmplaceFails, StartSources, StartMuxing, StartFails, Assign, LoopEnds,
   DestroyServer, DestroyCaster, LastJoin, WorkerFails, WorkerSetsState, WorkerEnds,
   CloseRemoves, Connect, GhostRemoved, CloseBegins, Shutdown

\* The threads of a caster are started by the loop and end by themselves.
LEMMA WhoStartsThreads ==
  ASSUME [Next]_vars
  PROVE  \/ UNCHANGED worker
         \/ StartSources \/ StartMuxing
         \/ \E c \in Conns, w \in Workers : WorkerFails(c, w) \/ WorkerFinishes(c, w)
BY DEF Next, vars, loopVars, serverVars, casterVars, mhdVars, LoopStep, MhdFinishes,
   HandleStartServer, HandleStartCaster, HandleStopCaster,
   HandleCasterStarted, HandleCasterEnded, StopDrop, StopReset, StopJoin, StopEnded,
   Emplace, EmplaceFails, StartDone, StartFails,
   StartReportEnded, StartReportStop, Assign, LoopEnds, DestroyServer, DestroyCaster,
   LastJoin, StreamRequestStart, CloseChecks, CloseRemoves, Connect, StreamRequest,
   GhostRemoved, CloseBegins, Cancel, Shutdown

\* A loop that shuts down does so for good.
LEMMA WhoShutsDown ==
  ASSUME [Next]_vars
  PROVE  \/ UNCHANGED shuttingDown
         \/ shuttingDown' /\ (Shutdown \/ DestroyServer)
BY DEF Next, vars, loopVars, serverVars, casterVars, mhdVars, LoopStep, MhdFinishes,
   WorkerFinishes, HandleStartServer, HandleStartCaster, HandleStopCaster,
   HandleCasterStarted, HandleCasterEnded, StopDrop, StopReset, StopJoin, StopEnded,
   Emplace, EmplaceFails, StartSources, StartDone, StartMuxing, StartFails,
   StartReportEnded, StartReportStop, Assign, LoopEnds, DestroyServer, DestroyCaster, LastJoin,
   WorkerFails, WorkerSetsState, WorkerReportsEnded, WorkerReportsStop, WorkerEnds,
   StreamRequestStart, CloseChecks, CloseRemoves, Connect, StreamRequest,
   GhostRemoved, CloseBegins, Cancel, Shutdown, Take

\* The steps that announce an end.
EndsAnnounced ==
  \/ StopEnded \/ StartReportEnded
  \/ \E c \in Conns, w \in Workers : WorkerReportsEnded(c, w)

\* A step takes the first event, or adds one, or leaves the queue alone; each
\* kind of event has its senders.
LEMMA QueueMoves ==
  ASSUME TypeOK, MhdServes, [Next]_vars
  PROVE  \/ UNCHANGED events
         \/ ~shuttingDown /\ \E e \in Events :
              /\ Queue(<<e>>)
              /\ e.type = "StartCaster" => StreamRequestStart /\ mhdConn = e.conn
              /\ e.type = "CasterEnded" => EndsAnnounced
         \/ \E t \in EventTypes :
              /\ Take(t)
              /\ t = "StartCaster" => HandleStartCaster
              /\ t = "StopCaster" => HandleStopCaster
              /\ t = "CasterStarted" => HandleCasterStarted
              /\ t = "CasterEnded" => HandleCasterEnded
<1> SUFFICES ASSUME events' # events
             PROVE  \/ ~shuttingDown /\ \E e \in Events :
                         /\ Queue(<<e>>)
                         /\ e.type = "StartCaster" =>
                              StreamRequestStart /\ mhdConn = e.conn
                         /\ e.type = "CasterEnded" => EndsAnnounced
                    \/ \E t \in EventTypes :
                         /\ Take(t)
                         /\ t = "StartCaster" => HandleStartCaster
                         /\ t = "StopCaster" => HandleStopCaster
                         /\ t = "CasterStarted" => HandleCasterStarted
                         /\ t = "CasterEnded" => HandleCasterEnded
  OBVIOUS
<1>1. \A t \in EventTypes, c \in Conns \cup {NoConn} :
        /\ Event(t, c) \in Events /\ Event(t, c).type = t /\ Event(t, c).conn = c
  BY DEF Event, Events
<1>2. /\ toStart \in Conns \cup {NoConn} /\ NoConn \in Conns \cup {NoConn}
      /\ mhdConn \in Conns \cup {NoConn}
      /\ {"StartServer", "StartCaster", "StopCaster", "CasterStarted", "CasterEnded"}
           = EventTypes
  BY DEF TypeOK, EventTypes
<1>3. ASSUME NEW e \in Events, Queue(<<e>>) PROVE ~shuttingDown
  BY <1>3 DEF Queue
<1>4. HandleStartServer \/ HandleStartCaster \/ HandleStopCaster
        \/ HandleCasterStarted \/ HandleCasterEnded
      => \E t \in EventTypes :
           /\ Take(t)
           /\ t = "StartCaster" => HandleStartCaster
           /\ t = "StopCaster" => HandleStopCaster
           /\ t = "CasterStarted" => HandleCasterStarted
           /\ t = "CasterEnded" => HandleCasterEnded
  BY <1>2 DEF HandleStartServer, HandleStartCaster, HandleStopCaster,
     HandleCasterStarted, HandleCasterEnded
<1>5. ASSUME NEW t \in EventTypes, NEW c \in Conns \cup {NoConn},
             Queue(<<Event(t, c)>>),
             t = "StartCaster" => StreamRequestStart /\ mhdConn = c,
             t = "CasterEnded" => EndsAnnounced
      PROVE  ~shuttingDown /\ \E e \in Events :
               /\ Queue(<<e>>)
               /\ e.type = "StartCaster" => StreamRequestStart /\ mhdConn = e.conn
               /\ e.type = "CasterEnded" => EndsAnnounced
  BY <1>1, <1>3, <1>5
<1>6. CASE StopEnded \/ StartReportEnded
             \/ \E c \in Conns, w \in Workers : WorkerReportsEnded(c, w)
  <2>1. EndsAnnounced
    BY <1>6 DEF EndsAnnounced
  <2>2. \E c \in Conns \cup {NoConn} : Queue(<<Event("CasterEnded", c)>>)
    BY <1>2, <1>6 DEF StopEnded, StartReportEnded, WorkerReportsEnded
  <2> QED
    BY <1>2, <1>5, <2>1, <2>2
<1>7. CASE StartDone \/ StreamRequestStart
  BY <1>2, <1>5, <1>7 DEF StartDone, StreamRequestStart
<1>8. CASE StartReportStop \/ Cancel
             \/ (\E c \in Conns, w \in Workers : WorkerReportsStop(c, w))
             \/ (\E c \in Conns : StreamRequest(c))
  <2>1. Queue(<<Event("StopCaster", NoConn)>>)
    BY <1>8 DEF StartReportStop, Cancel, WorkerReportsStop, StreamRequest
  <2> QED
    BY <1>2, <1>5, <2>1
<1>9. CASE CloseChecks
  <2>1. Queue(<<Event("StopCaster", mhdConn)>>)
    BY <1>9 DEF CloseChecks
  <2> QED
    BY <1>2, <1>5, <2>1
<1> QED
  BY <1>4, <1>6, <1>7, <1>8, <1>9, WhoSends

\* What a step does to what is queued: an event stays until it is handled.
LEMMA EventsPass ==
  ASSUME TypeOK, MhdServes, [Next]_vars
  PROVE  /\ Pending("StopCaster") => Pending("StopCaster")' \/ HandleStopCaster
         /\ Pending("StartCaster") => Pending("StartCaster")' \/ HandleStartCaster
         /\ Pending("CasterEnded") => Pending("CasterEnded")' \/ HandleCasterEnded
         /\ \A c : PendingStart(c) =>
              PendingStart(c)' \/ (HandleStartCaster /\ toStart' = c)
         /\ \A c : PendingStart(c)' =>
              PendingStart(c) \/ (StreamRequestStart /\ mhdConn = c)
         /\ Pending("StartCaster")' => Pending("StartCaster") \/ StreamRequestStart
         /\ StartIsLast =>
              \/ StartIsLast'
              \/ HandleCasterStarted /\ ~Pending("CasterEnded")'
              \/ EndsAnnounced
         /\ Pending("CasterEnded")' => Pending("CasterEnded") \/ EndsAnnounced
         /\ StartsDiffer /\ (StreamRequestStart => ~PendingStart(mhdConn))
              => StartsDiffer'
<1>1. CASE UNCHANGED events
  BY <1>1, QueueStays
<1>2. ASSUME ~shuttingDown, NEW e \in Events, Queue(<<e>>),
             e.type = "StartCaster" => StreamRequestStart /\ mhdConn = e.conn,
             e.type = "CasterEnded" => EndsAnnounced
      PROVE  /\ Pending("StopCaster") => Pending("StopCaster")'
             /\ Pending("StartCaster") => Pending("StartCaster")'
             /\ Pending("CasterEnded") => Pending("CasterEnded")'
             /\ \A c : PendingStart(c) => PendingStart(c)'
             /\ \A c : PendingStart(c)' =>
                  PendingStart(c) \/ (StreamRequestStart /\ mhdConn = c)
             /\ Pending("StartCaster")' => Pending("StartCaster") \/ StreamRequestStart
             /\ StartIsLast => StartIsLast' \/ EndsAnnounced
             /\ Pending("CasterEnded")' => Pending("CasterEnded") \/ EndsAnnounced
             /\ StartsDiffer /\ (StreamRequestStart => ~PendingStart(mhdConn))
                  => StartsDiffer'
  BY <1>2, QueueAdds
<1>3. ASSUME NEW t \in EventTypes, Take(t),
             t = "StartCaster" => HandleStartCaster,
             t = "StopCaster" => HandleStopCaster,
             t = "CasterStarted" => HandleCasterStarted,
             t = "CasterEnded" => HandleCasterEnded
      PROVE  /\ Pending("StopCaster") => Pending("StopCaster")' \/ HandleStopCaster
             /\ Pending("StartCaster") => Pending("StartCaster")' \/ HandleStartCaster
             /\ Pending("CasterEnded") => Pending("CasterEnded")' \/ HandleCasterEnded
             /\ \A c : PendingStart(c) =>
                  PendingStart(c)' \/ (HandleStartCaster /\ toStart' = c)
             /\ \A c : PendingStart(c)' => PendingStart(c)
             /\ Pending("StartCaster")' => Pending("StartCaster")
             /\ StartIsLast =>
                  \/ StartIsLast'
                  \/ HandleCasterStarted /\ ~Pending("CasterEnded")'
             /\ Pending("CasterEnded")' => Pending("CasterEnded")
             /\ StartsDiffer => StartsDiffer'
  <2>1. HandleStartCaster => toStart' = Head(events).conn
    BY DEF HandleStartCaster
  <2> QED
    BY <1>3, <2>1, QueueTakes
<1> QED
  BY <1>1, <1>2, <1>3, QueueMoves

\* The request that is being handled was the only one of its connection.
LEMMA StartIsTaken ==
  ASSUME TypeOK, HandleStartCaster
  PROVE  /\ Pending("StartCaster")
         /\ \A c : toStart' = c =>
              PendingStart(c) /\ (StartsDiffer => ~PendingStart(c)')
<1>1. Take("StartCaster") /\ toStart' = Head(events).conn
  BY DEF HandleStartCaster
<1>2. PendingStart(Head(events).conn)
  BY <1>1, QueueTakes
<1>3. StartsDiffer => \A c : PendingStart(c)' => Head(events).conn # c
  BY <1>1, QueueTakes
<1>4. \A c : PendingStart(c) => Pending("StartCaster")
  BY DEF Pending, PendingStart
<1> QED
  BY <1>1, <1>2, <1>3, <1>4

\* The GUI is told of a cast by two events only.
LEMMA WhoShows ==
  ASSUME [Next]_vars
  PROVE  UNCHANGED casting \/ HandleCasterStarted \/ HandleCasterEnded
BY WhoMovesTheLoop DEF LoopStep, HandleStartServer, HandleStartCaster,
   HandleStopCaster, StopDrop, StopReset, StopJoin, StopEnded, Emplace, EmplaceFails,
   StartSources, StartDone, StartMuxing, StartFails, StartReportEnded,
   StartReportStop, Assign, LoopEnds, DestroyServer, DestroyCaster, LastJoin

\* ClientsCame is inductive.
LEMMA ClientsCameStep ==
  ASSUME SessionInv, ClientsCame, [Next]_vars
  PROVE  ClientsCame'
<1>0. TypeOK
  BY DEF SessionInv
<1>1. CASE UNCHANGED <<client, requested, mhdPc, mhdConn>>
  BY <1>1 DEF ClientsCame
<1>2. CASE DestroyServer
  BY <1>0, <1>2 DEF DestroyServer, ClientsCame, TypeOK, mhdVars
<1>3. CASE StreamRequestStart
  BY <1>0, <1>3 DEF StreamRequestStart, ClientsCame, TypeOK
<1>4. CASE CloseChecks
  BY <1>0, <1>4 DEF CloseChecks, ClientsCame, TypeOK, serverVars
<1>5. CASE CloseRemoves
  BY <1>0, <1>5 DEF CloseRemoves, ClientsCame, TypeOK
<1>6. ASSUME NEW c \in Conns, Connect(c) PROVE ClientsCame'
  BY <1>0, <1>6 DEF Connect, ClientsCame, TypeOK, mhdVars
<1>7. ASSUME NEW c \in Conns, StreamRequest(c) PROVE ClientsCame'
  BY <1>0, <1>7 DEF StreamRequest, ClientsCame, TypeOK, serverVars
<1>8. ASSUME NEW c \in Conns, CloseBegins(c) PROVE ClientsCame'
  BY <1>0, <1>8 DEF CloseBegins, ClientsCame, TypeOK, serverVars
<1> QED
  BY <1>1, <1>2, <1>3, <1>4, <1>5, <1>6, <1>7, <1>8, WhoChangesClients

\* Before the server is up there is nobody to ask for a caster.
LEMMA ServerShapeStep ==
  ASSUME SessionInv, ServerShape, [Next]_vars
  PROVE  ServerShape'
<1>0. TypeOK /\ MhdServes
  BY DEF SessionInv
<1>1. shuttingDown => shuttingDown'
  BY WhoShutsDown
<1>2. CASE server = "up"
  <2>1. server' \in {"up", "gone"} /\ (server' = "gone" => shuttingDown')
    BY <1>2, WhoMovesTheLoop DEF LoopStep, HandleStartServer, HandleStartCaster,
       HandleStopCaster, HandleCasterStarted, HandleCasterEnded, StopDrop, StopReset,
       StopJoin, StopEnded, Emplace, EmplaceFails, StartSources, StartDone,
       StartMuxing, StartFails, StartReportEnded, StartReportStop, Assign, LoopEnds,
       DestroyServer, DestroyCaster, LastJoin, serverVars
  <2>2. loopPc' \in {"teardown", "lastJoin", "done"} => shuttingDown'
    BY <1>1, WhoMovesTheLoop DEF ServerShape, LoopStep, HandleStartServer,
       HandleStartCaster, HandleStopCaster, HandleCasterStarted, HandleCasterEnded,
       StopDrop, StopReset, StopJoin, StopEnded, Emplace, EmplaceFails, StartSources,
       StartDone, StartMuxing, StartFails, StartReportEnded, StartReportStop, Assign,
       LoopEnds, DestroyServer, DestroyCaster, LastJoin, loopVars
  <2> QED
    BY <2>1, <2>2 DEF ServerShape
<1>3. CASE server = "gone"
  <2>1. server' = "gone" /\ shuttingDown'
    BY <1>1, <1>3, WhoMovesTheLoop DEF ServerShape, LoopStep, HandleStartServer,
       HandleStartCaster, HandleStopCaster, HandleCasterStarted, HandleCasterEnded,
       Take, StopDrop, StopReset, StopJoin, StopEnded, Emplace, EmplaceFails,
       StartSources, StartDone, StartMuxing, StartFails, StartReportEnded,
       StartReportStop, Assign, LoopEnds, DestroyServer, DestroyCaster, LastJoin,
       serverVars
  <2> QED
    BY <2>1 DEF ServerShape
<1>4. CASE server = "none"
  <2>1. /\ caster = NoConn /\ ~casting
        /\ mhdPc = "idle" /\ loopPc \in {"idle", "ended"}
        /\ ~Pending("StartCaster")
        /\ \A c \in Conns : client[c] = "absent"
    BY <1>4 DEF ServerShape
  <2>2. ~Pending("StartCaster")' /\ ~HandleStartCaster
    BY <1>0, <2>1, EventsPass, StartIsTaken DEF StreamRequestStart
  <2>3. CASE DestroyServer
    BY <2>3 DEF DestroyServer, ServerShape
  <2>4. CASE HandleStartServer /\ server' = "up"
    BY <2>1, <2>4 DEF HandleStartServer, ServerShape
  <2>5. CASE ~DestroyServer /\ ~(HandleStartServer /\ server' = "up")
    <3>1. /\ caster' = NoConn
          /\ loopPc' \in {"idle", "ended"} /\ server' = "none"
      BY <1>4, <2>1, <2>2, <2>5, WhoMovesTheLoop DEF LoopStep, HandleStartServer,
         HandleStopCaster, HandleCasterStarted, HandleCasterEnded,
         StopDrop, StopReset, StopJoin, StopEnded, Emplace, EmplaceFails,
         StartSources, StartDone, StartMuxing, StartFails, StartReportEnded,
         StartReportStop, Assign, LoopEnds, DestroyCaster, LastJoin,
         loopVars, serverVars, casterVars
    <3>3. casting' = FALSE
      BY <1>0, <1>4, <2>1, WhoShows DEF HandleCasterStarted, HandleCasterEnded, TypeOK
    <3>2. mhdPc' = "idle" /\ \A c \in Conns : client'[c] = "absent"
      BY <1>4, <2>1, <2>5, WhoChangesClients DEF StreamRequestStart, CloseChecks,
         CloseRemoves, Connect, StreamRequest, CloseBegins
    <3> QED
      BY <2>2, <3>1, <3>2, <3>3 DEF ServerShape
  <2> QED
    BY <2>3, <2>4, <2>5
<1> QED
  BY <1>0, <1>2, <1>3, <1>4 DEF TypeOK

\* The steps of the loop thread that choose which caster comes next.
LEMMA WhoStarts ==
  ASSUME [Next]_vars
  PROVE  \/ UNCHANGED <<loopPc, toStart, caster, castingConnId>>
         \/ HandleStartServer \/ HandleStartCaster \/ HandleStopCaster
         \/ StopDrop \/ StopReset \/ StopJoin \/ StopEnded
         \/ Emplace \/ EmplaceFails \/ Assign
         \/ LoopEnds \/ DestroyServer \/ DestroyCaster \/ LastJoin
         \/ /\ StartSources \/ StartDone \/ StartMuxing \/ StartFails
               \/ StartReportEnded \/ StartReportStop
            /\ loopPc \in {"start", "sources", "mux", "reportEnded", "reportStop"}
            /\ loopPc' \in {"sources", "mux", "reportEnded", "reportStop", "assign"}
            /\ UNCHANGED <<toStart, caster, castingConnId>>
BY WhoMovesTheLoop DEF LoopStep, HandleCasterStarted, HandleCasterEnded, StartSources,
   StartDone, StartMuxing, StartFails, StartReportEnded, StartReportStop, loopVars,
   casterVars

\* A connection asks once, and its request turns into one caster.
LEMMA StartedOnceStep ==
  ASSUME SessionInv, ClientsCame, StartedOnce, [Next]_vars
  PROVE  StartedOnce'
<1>0. TypeOK /\ MhdServes /\ LoopShape
  BY DEF SessionInv
<1>1. StartsDiffer'
  <2>1. StreamRequestStart => ~PendingStart(mhdConn)
    BY <1>0 DEF StreamRequestStart, ClientsCame, StartedOnce, MhdServes
  <2> QED
    BY <1>0, <2>1, EventsPass DEF StartedOnce
<1>2. requested \subseteq requested'
  BY WhoChangesClients DEF DestroyServer, StreamRequestStart, CloseChecks,
     CloseRemoves, Connect, StreamRequest, CloseBegins, serverVars
\* A new request is of a connection that had no part in anything yet.
<1>3. \A c \in Conns : PendingStart(c)' =>
        PendingStart(c) \/ (c \in requested' /\ c \notin requested)
  BY <1>0, EventsPass DEF StreamRequestStart, ClientsCame
<1>4. /\ \A c \in Conns : PendingStart(c) =>
            c \in requested /\ ~Starting(c) /\ caster # c /\ castingConnId # c
      /\ \A c \in Conns : Starting(c) =>
            /\ c \in requested
            /\ castingConnId # c
            /\ loopPc \in {"drop", "reset"} => caster # c
      /\ caster # NoConn => caster \in requested
      /\ castingConnId # NoConn => castingConnId \in requested
  BY DEF StartedOnce
<1>5. SUFFICES
      /\ \A c \in Conns : PendingStart(c)' =>
            ~Starting(c)' /\ caster' # c /\ castingConnId' # c
      /\ \A c \in Conns : Starting(c)' =>
            /\ c \in requested
            /\ castingConnId' # c
            /\ loopPc' \in {"drop", "reset"} => caster' # c
      /\ caster' # NoConn => caster' \in requested
      /\ castingConnId' # NoConn => castingConnId' \in requested
  <2>1. \A c \in Conns : PendingStart(c)' => c \in requested'
    BY <1>2, <1>3, <1>4
  <2> QED
    BY <1>1, <1>2, <1>5, <2>1 DEF StartedOnce
<1>6. CASE UNCHANGED <<loopPc, toStart, caster, castingConnId>>
  <2>1. \A c \in Conns : Starting(c)' <=> Starting(c)
    BY <1>6 DEF Starting
  <2> QED
    BY <1>0, <1>3, <1>4, <1>6, <2>1, SessionAssumption DEF TypeOK
<1>7. CASE HandleStartCaster
  <2>1. \A c \in Conns : toStart' = c =>
          /\ c \in requested /\ caster # c /\ castingConnId # c
          /\ ~PendingStart(c)'
    BY <1>0, <1>4, <1>7, StartIsTaken DEF StartedOnce
  <2>2. UNCHANGED <<caster, castingConnId>>
    BY <1>7 DEF HandleStartCaster, casterVars
  <2> QED
    BY <1>0, <1>3, <1>4, <2>1, <2>2, SessionAssumption DEF Starting, TypeOK
<1>8. CASE HandleStopCaster
  <2>1. toStart' = NoConn /\ UNCHANGED <<caster, castingConnId>>
    BY <1>8 DEF HandleStopCaster, casterVars
  <2> QED
    BY <1>0, <1>3, <1>4, <2>1, SessionAssumption DEF Starting, TypeOK
<1>9. CASE StopDrop \/ StopReset \/ StopJoin \/ StopEnded
  <2>1. /\ loopPc \in {"drop", "reset", "join", "stopped"}
        /\ loopPc' \in {"reset", "join", "stopped", "emplace", "idle"}
        /\ loopPc' = "reset" => loopPc = "drop"
        /\ UNCHANGED <<toStart, castingConnId>>
        /\ caster' \in {caster, NoConn}
    BY <1>9 DEF StopDrop, StopReset, StopJoin, StopEnded, casterVars
  <2>2. \A c : Starting(c)' => Starting(c)
    BY <2>1 DEF Starting
  <2> QED
    BY <1>0, <1>3, <1>4, <2>1, <2>2, SessionAssumption DEF TypeOK
<1>10. CASE Emplace
  <2>1. /\ caster' = toStart /\ toStart \in Conns /\ loopPc' = "start"
        /\ UNCHANGED <<toStart, castingConnId>>
        /\ Starting(toStart)
    BY <1>0, <1>10 DEF Emplace, LoopShape, Starting
  <2>2. \A c : Starting(c)' => Starting(c)
    BY <1>10, <2>1 DEF Emplace, Starting
  <2> QED
    BY <1>0, <1>3, <1>4, <2>1, <2>2, SessionAssumption DEF TypeOK
<1>11. CASE Assign
  <2>1. /\ castingConnId' = toStart /\ toStart = caster /\ loopPc' = "idle"
        /\ UNCHANGED <<toStart, caster>>
    BY <1>0, <1>11 DEF Assign, LoopShape
  <2> QED
    BY <1>0, <1>3, <1>4, <2>1, SessionAssumption DEF TypeOK, Starting
<1>12. CASE HandleStartServer \/ EmplaceFails \/ LoopEnds \/ DestroyServer
              \/ DestroyCaster \/ LastJoin
  <2>1. /\ loopPc' \in {"idle", "ended", "teardown", "lastJoin", "done"}
        /\ UNCHANGED <<toStart, castingConnId>>
        /\ caster' \in {caster, NoConn}
    BY <1>12 DEF HandleStartServer, EmplaceFails, LoopEnds, DestroyServer,
       DestroyCaster, LastJoin, casterVars, Take
  <2> QED
    BY <1>0, <1>3, <1>4, <2>1, SessionAssumption DEF TypeOK, Starting
<1>13. CASE /\ loopPc \in {"start", "sources", "mux", "reportEnded", "reportStop"}
            /\ loopPc' \in {"sources", "mux", "reportEnded", "reportStop", "assign"}
            /\ UNCHANGED <<toStart, caster, castingConnId>>
  <2>1. \A c \in Conns : Starting(c)' => Starting(c)
    BY <1>13 DEF Starting
  <2> QED
    BY <1>0, <1>3, <1>4, <1>13, <2>1, SessionAssumption DEF TypeOK
<1> QED
  BY <1>6, <1>7, <1>8, <1>9, <1>10, <1>11, <1>12, <1>13, WhoStarts

\* One thread moves at a time.
LEMMA ThreadMoves ==
  ASSUME TypeOK, LoopShape, [Next]_vars, NEW c \in Conns, NEW w \in Workers
  PROVE  \/ worker'[c][w] = worker[c][w]
         \/ c = toStart /\ w = "source" /\ StartSources /\ worker'[c][w] = "running"
         \/ c = toStart /\ w = "muxer" /\ StartMuxing /\ worker'[c][w] = "running"
         \/ WorkerFails(c, w) /\ worker'[c][w] = "failing"
         \/ WorkerSetsState(c, w) /\ worker'[c][w] = "reportEnded"
         \/ WorkerReportsEnded(c, w) /\ worker'[c][w] = "reportStop"
         \/ WorkerReportsStop(c, w) /\ worker'[c][w] = "gone"
         \/ WorkerEnds(c, w) /\ worker'[c][w] = "gone"
<1>0. worker \in [Conns -> [Workers -> {"none", "running", "failing",
                                        "reportEnded", "reportStop", "gone"}]]
  BY DEF TypeOK
<1>1. ASSUME NEW d \in Conns, NEW x \in Workers, NEW v,
             worker' = [worker EXCEPT ![d][x] = v]
      PROVE  worker'[c][w] = IF d = c /\ x = w THEN v ELSE worker[c][w]
  BY <1>0, <1>1
<1>2. CASE UNCHANGED worker
  BY <1>2
<1>3. CASE StartSources
  <2>1. toStart \in Conns
    BY <1>3 DEF StartSources, LoopShape
  <2>2. \/ UNCHANGED worker
        \/ "source" \in Workers /\ worker' = [worker EXCEPT ![toStart]["source"] = "running"]
    BY <1>3 DEF StartSources
  <2> QED
    BY <1>1, <1>3, <2>1, <2>2
<1>4. CASE StartMuxing
  <2>1. toStart \in Conns /\ worker' = [worker EXCEPT ![toStart]["muxer"] = "running"]
    BY <1>4 DEF StartMuxing, LoopShape
  <2> QED
    BY <1>1, <1>4, <2>1, SessionAssumption
<1>5. ASSUME NEW d \in Conns, NEW x \in Workers, WorkerFails(d, x)
      PROVE  worker'[c][w] = IF d = c /\ x = w THEN "failing" ELSE worker[c][w]
  BY <1>1, <1>5 DEF WorkerFails
<1>6. ASSUME NEW d \in Conns, NEW x \in Workers, WorkerSetsState(d, x)
      PROVE  worker'[c][w] = IF d = c /\ x = w THEN "reportEnded" ELSE worker[c][w]
  BY <1>1, <1>6 DEF WorkerSetsState
<1>7. ASSUME NEW d \in Conns, NEW x \in Workers, WorkerReportsEnded(d, x)
      PROVE  worker'[c][w] = IF d = c /\ x = w THEN "reportStop" ELSE worker[c][w]
  BY <1>1, <1>7 DEF WorkerReportsEnded
<1>8. ASSUME NEW d \in Conns, NEW x \in Workers,
             WorkerReportsStop(d, x) \/ WorkerEnds(d, x)
      PROVE  worker'[c][w] = IF d = c /\ x = w THEN "gone" ELSE worker[c][w]
  BY <1>1, <1>8 DEF WorkerReportsStop, WorkerEnds
<1> QED
  BY <1>2, <1>3, <1>4, <1>5, <1>6, <1>7, <1>8, WhoStartsThreads DEF WorkerFinishes

\* A new caster finds no thread of its name: NoSurvivingThread.
LEMMA ThreadsAreFreshStep ==
  ASSUME SessionInv, ThreadsAreFresh, [Next]_vars
  PROVE  ThreadsAreFresh'
<1>0. TypeOK /\ LoopShape /\ NoSurvivingThread
  BY DEF SessionInv
\* No thread of a caster wakes by itself.
<1>1. ASSUME NEW c \in Conns, NEW w \in Workers, worker[c][w] \in {"none", "gone"}
      PROVE  \/ worker'[c][w] \in {"none", "gone"}
             \/ w = "source" /\ StartSources
             \/ StartMuxing
  BY <1>0, <1>1, ThreadMoves DEF WorkerFails, WorkerSetsState, WorkerReportsEnded,
     WorkerReportsStop, WorkerEnds
<1>2. CASE UNCHANGED <<loopPc, toStart>>
  <2>1. ~StartSources /\ ~StartMuxing
    BY <1>2 DEF StartSources, StartMuxing
  <2> QED
    BY <1>0, <1>1, <1>2, <2>1, SessionAssumption DEF ThreadsAreFresh, Joined, LoopShape
<1>3. CASE Emplace
  <2>1. toStart \in Conns /\ caster = NoConn /\ dying = NoConn
    BY <1>0, <1>3 DEF Emplace, LoopShape
  <2>2. Joined(toStart)
    BY <1>0, <2>1, SessionAssumption DEF NoSurvivingThread
  <2> QED
    BY <1>3, <2>2 DEF Emplace, ThreadsAreFresh, Joined
<1>4. CASE StartSources
  <2>1. toStart \in Conns /\ worker[toStart]["muxer"] \in {"none", "gone"}
    BY <1>0, <1>4, SessionAssumption DEF StartSources, LoopShape, ThreadsAreFresh,
       Joined
  <2>2. ~StartMuxing /\ loopPc' = "sources" /\ UNCHANGED toStart
    BY <1>4 DEF StartSources, StartMuxing
  <2> QED
    BY <1>1, <2>1, <2>2, SessionAssumption DEF ThreadsAreFresh
<1>5. CASE StartDone
  BY <1>5 DEF StartDone, ThreadsAreFresh
<1>6. CASE loopPc' \notin {"start", "sources", "mux"}
  BY <1>6 DEF ThreadsAreFresh
<1>7. \/ UNCHANGED <<loopPc, toStart>>
      \/ Emplace \/ StartSources \/ StartDone
      \/ loopPc' \notin {"start", "sources", "mux"}
  BY <1>0, WhoStarts DEF HandleStartServer, HandleStartCaster, HandleStopCaster,
     Take, StopDrop, StopReset, StopJoin, StopEnded, EmplaceFails, Assign, LoopEnds,
     DestroyServer, DestroyCaster, LastJoin, StartMuxing, StartFails,
     StartReportEnded, StartReportStop
<1> QED
  BY <1>2, <1>3, <1>4, <1>5, <1>6, <1>7

\* Who writes the state of a caster.
LEMMA WhoSetsStates ==
  ASSUME [Next]_vars
  PROVE  \/ UNCHANGED state
         \/ StopReset \/ StopJoin \/ Emplace \/ EmplaceFails \/ StartSources
         \/ StartDone \/ StartFails \/ DestroyCaster \/ LastJoin
         \/ \E c \in Conns, w \in Workers : WorkerSetsState(c, w)
BY DEF Next, vars, loopVars, serverVars, casterVars, mhdVars, LoopStep, MhdFinishes,
   WorkerFinishes, HandleStartServer, HandleStartCaster, HandleStopCaster,
   HandleCasterStarted, HandleCasterEnded, StopDrop, StopEnded, StartMuxing,
   StartReportEnded, StartReportStop, Assign, LoopEnds, DestroyServer,
   WorkerFails, WorkerReportsEnded, WorkerReportsStop, WorkerEnds,
   StreamRequestStart, CloseChecks, CloseRemoves, Connect, StreamRequest,
   GhostRemoved, CloseBegins, Cancel, Shutdown

\* A connection that is marked for removal stays so.
LEMMA RemovedGrows ==
  ASSUME [Next]_vars
  PROVE  removed \subseteq removed'
BY DEF Next, vars, loopVars, serverVars, casterVars, mhdVars, LoopStep, MhdFinishes,
   WorkerFinishes, HandleStartServer, HandleStartCaster, HandleStopCaster,
   HandleCasterStarted, HandleCasterEnded, StopDrop, StopReset, StopJoin, StopEnded,
   Emplace, EmplaceFails, StartSources, StartDone, StartMuxing, StartFails,
   StartReportEnded, StartReportStop, Assign, LoopEnds, DestroyServer, DestroyCaster,
   LastJoin, WorkerFails, WorkerSetsState, WorkerReportsEnded, WorkerReportsStop,
   WorkerEnds, StreamRequestStart, CloseChecks, CloseRemoves, Connect, StreamRequest,
   GhostRemoved, CloseBegins, Cancel, Shutdown, Dropped

\* A connection is opened and closed once.
LEMMA ClientMoves ==
  ASSUME TypeOK, MhdServes, [Next]_vars, NEW c \in Conns
  PROVE  \/ client'[c] = client[c]
         \/ client[c] = "absent" /\ client'[c] = "open"
         \/ /\ client'[c] = "closed"
            /\ DestroyServer \/ (CloseRemoves /\ mhdConn = c)
<1>1. CASE UNCHANGED client
  BY <1>1
<1>2. CASE DestroyServer
  BY <1>2 DEF DestroyServer, TypeOK
<1>3. CASE CloseRemoves
  BY <1>3 DEF CloseRemoves, TypeOK, MhdServes
<1>4. ASSUME NEW d \in Conns, Connect(d)
      PROVE  client'[c] = client[c] \/ (client[c] = "absent" /\ client'[c] = "open")
  BY <1>4 DEF Connect, TypeOK
<1> QED
  BY <1>1, <1>2, <1>3, <1>4, WhoChangesClients DEF StreamRequestStart, CloseChecks,
     StreamRequest, CloseBegins, serverVars

\* A caster comes by Emplace, and goes by StopReset or the teardown.
LEMMA CasterMoves ==
  ASSUME [Next]_vars
  PROVE  \/ UNCHANGED caster
         \/ caster' = NoConn /\ (StopReset \/ DestroyCaster)
         \/ Emplace /\ caster' = toStart
BY WhoStarts DEF HandleStartServer, HandleStartCaster, HandleStopCaster, StopDrop,
   StopReset, StopJoin, StopEnded, Emplace, EmplaceFails, Assign, LoopEnds,
   DestroyServer, DestroyCaster, LastJoin, casterVars

\* A StopCaster event that is sent is queued.
LEMMA StopIsSent ==
  ASSUME TypeOK, ~shuttingDown, NEW c \in Conns \cup {NoConn},
         Queue(<<Event("StopCaster", c)>>)
  PROVE  Pending("StopCaster")'
<1>1. Event("StopCaster", c) \in Events /\ Event("StopCaster", c).type = "StopCaster"
  BY DEF Event, Events, EventTypes
<1> QED
  BY <1>1, QueueAdds

\* The loop thread does one thing after the other.
LEMMA StopGoesOn ==
  ASSUME [Next]_vars
  PROVE  /\ loopPc = "drop" => loopPc' = "drop" \/ StopDrop
         /\ loopPc = "reset" => loopPc' = "reset" \/ StopReset
         /\ loopPc = "reportEnded" => loopPc' = "reportEnded" \/ StartReportEnded
         /\ loopPc = "reportStop" => loopPc' = "reportStop" \/ StartReportStop
         /\ loopPc' = "reset" => loopPc = "reset" \/ StopDrop
BY WhoMovesTheLoop DEF LoopStep, HandleStartServer, HandleStartCaster,
   HandleStopCaster, HandleCasterStarted, HandleCasterEnded, Take, StopDrop, StopReset,
   StopJoin, StopEnded, Emplace, EmplaceFails, StartSources, StartDone, StartMuxing,
   StartFails, StartReportEnded, StartReportStop, Assign, LoopEnds, DestroyServer,
   DestroyCaster, LastJoin, loopVars

\* What is going to stop the caster does not get lost.
LEMMA StoppingStays ==
  ASSUME SessionInv, ThreadsAreFresh, [Next]_vars, ~shuttingDown',
         caster # NoConn, caster' = caster, Stopping
  PROVE  Stopping'
<1>0. TypeOK /\ LoopShape /\ MhdServes /\ ~shuttingDown
  BY WhoShutsDown DEF SessionInv
<1>1. CASE Pending("StopCaster") \/ Pending("StartCaster")
  <2>1. HandleStopCaster \/ HandleStartCaster => loopPc' = "drop"
    BY DEF HandleStopCaster, HandleStartCaster
  <2> QED
    BY <1>0, <1>1, <2>1, EventsPass DEF Stopping
<1>2. CASE caster \in Conns /\ Reporting(caster)
  <2>1. PICK w \in Workers : worker[caster][w] \in {"failing", "reportEnded", "reportStop"}
    BY <1>2 DEF Reporting
  <2>2. ~(caster = toStart /\ w = "source" /\ StartSources)
    BY <1>0, <2>1 DEF StartSources, ThreadsAreFresh, Joined
  <2>3. ~(caster = toStart /\ w = "muxer" /\ StartMuxing)
    BY <1>0, <2>1 DEF StartMuxing, ThreadsAreFresh
  <2>4. CASE WorkerReportsStop(caster, w)
    BY <1>0, <2>4, StopIsSent DEF WorkerReportsStop, Stopping
  <2>5. CASE worker'[caster][w] \in {"failing", "reportEnded", "reportStop"}
    BY <1>2, <2>5 DEF Stopping, Reporting
  <2> QED
    BY <1>0, <1>2, <2>1, <2>2, <2>3, <2>4, <2>5, ThreadMoves DEF WorkerEnds
<1>3. CASE loopPc \in {"drop", "reset", "reportEnded", "reportStop"}
  <2>1. StopDrop => loopPc' = "reset"
    BY DEF StopDrop
  <2>2. ~StopReset
    BY DEF StopReset
  <2>3. StartReportEnded => loopPc' = "reportStop"
    BY DEF StartReportEnded
  <2>4. StartReportStop => Pending("StopCaster")'
    BY <1>0, StopIsSent DEF StartReportStop
  <2> QED
    BY <1>3, <2>1, <2>2, <2>3, <2>4, StopGoesOn DEF Stopping
<1> QED
  BY <1>1, <1>2, <1>3 DEF Stopping

\* Whoever sets the state to terminating reports it.
LEMMA FailureIsReportedStep ==
  ASSUME SessionInv, ThreadsAreFresh, FailureIsReported, [Next]_vars
  PROVE  FailureIsReported'
<1>0. TypeOK /\ LoopShape
  BY DEF SessionInv
<1> SUFFICES ASSUME caster' # NoConn, ~shuttingDown', state'[caster'] = "terminating"
             PROVE  Stopping'
  BY DEF FailureIsReported
<1>1. ~shuttingDown
  BY WhoShutsDown
<1>2. CASE Emplace
  BY <1>0, <1>2 DEF Emplace, LoopShape, TypeOK
<1>3. CASE UNCHANGED caster
  <2>1. caster \in Conns
    BY <1>0, <1>3 DEF TypeOK
  <2>2. CASE state[caster] = "terminating"
    BY <1>1, <1>3, <2>2, StoppingStays DEF FailureIsReported
  <2>3. CASE state[caster] # "terminating" /\ StartFails
    BY <1>0, <2>3 DEF StartFails, LoopShape, Stopping
  <2>4. ASSUME NEW c \in Conns, NEW w \in Workers, WorkerSetsState(c, w),
               state[caster] # "terminating"
        PROVE  Stopping'
    <3>1. c = caster
      BY <1>0, <1>3, <2>1, <2>4 DEF WorkerSetsState, TypeOK
    <3>2. worker'[c][w] = "reportEnded"
      BY <1>0, <2>4 DEF WorkerSetsState, TypeOK
    <3> QED
      BY <1>3, <2>1, <3>1, <3>2 DEF Stopping, Reporting
  <2>5. CASE \/ UNCHANGED state
             \/ StopJoin \/ EmplaceFails \/ StartSources \/ StartDone \/ LastJoin
    <3>1. state[caster] = "terminating"
      BY <1>0, <1>3, <2>1, <2>5 DEF StopJoin, EmplaceFails, StartSources, StartDone,
         LastJoin, LoopShape, TypeOK
    <3> QED
      BY <2>2, <3>1
  <2>6. ~StopReset
    BY <1>0, <1>3 DEF StopReset, LoopShape
  <2>7. DestroyCaster => UNCHANGED state
    BY <1>3 DEF DestroyCaster
  <2> QED
    BY <1>2, <2>2, <2>3, <2>4, <2>5, <2>6, <2>7, WhoSetsStates
<1> QED
  BY <1>2, <1>3, CasterMoves

\* stopCaster() drops the client that m_castingConnId names: OwnerStays.
LEMMA DroppedFirstStep ==
  ASSUME SessionInv, ClientsCame, StartedOnce, DroppedFirst, [Next]_vars
  PROVE  DroppedFirst'
<1>0. TypeOK /\ LoopShape /\ OwnerStays /\ MhdServes
  BY DEF SessionInv
<1> SUFFICES ASSUME loopPc' = "reset", client'[caster'] = "open"
             PROVE  caster' \in removed'
  BY DEF DroppedFirst
<1>1. CASE StopDrop
  <2>1. castingConnId = caster /\ caster \in Conns
    BY <1>0, <1>1 DEF StopDrop, OwnerStays, LoopShape, TypeOK
  <2> QED
    BY <1>1, <2>1 DEF StopDrop, Dropped, casterVars
<1>2. CASE loopPc = "reset"
  <2>1. caster \in Conns /\ caster \in requested /\ client[caster] # "absent"
    BY <1>0, <1>2 DEF LoopShape, TypeOK, StartedOnce, ClientsCame
  <2>2. UNCHANGED caster
    BY <1>2, CasterMoves DEF StopReset, DestroyCaster, Emplace
  <2>3. client[caster] = "open"
    BY <1>0, <2>1, <2>2, ClientMoves
  <2> QED
    BY <1>2, <2>2, <2>3, RemovedGrows DEF DroppedFirst
<1> QED
  BY <1>1, <1>2, StopGoesOn

\* A client is let go of only when it is marked for removal.
LEMMA NoOrphanClientStep ==
  ASSUME SessionInv, ClientsCame, ServerShape, StartedOnce, DroppedFirst,
         NoOrphanClient, [Next]_vars
  PROVE  NoOrphanClient'
<1>0. TypeOK /\ LoopShape /\ MhdServes
  BY DEF SessionInv
<1> SUFFICES ASSUME NEW c \in requested', client'[c] = "open", ~shuttingDown'
             PROVE  c \in removed' \/ PendingStart(c)' \/ Starting(c)' \/ caster' = c
  BY DEF NoOrphanClient
<1>1. ~shuttingDown
  BY WhoShutsDown
<1>2. CASE c \notin requested
  <2>1. StreamRequestStart /\ mhdConn = c /\ mhdConn \in Conns
    BY <1>0, <1>2, WhoChangesClients DEF DestroyServer, StreamRequestStart,
       CloseChecks, CloseRemoves, Connect, StreamRequest, CloseBegins, serverVars,
       MhdServes
  <2>2. /\ Event("StartCaster", c) \in Events
        /\ Event("StartCaster", c).type = "StartCaster"
        /\ Event("StartCaster", c).conn = c
    BY <2>1 DEF Event, Events, EventTypes
  <2>3. Queue(<<Event("StartCaster", c)>>)
    BY <2>1 DEF StreamRequestStart
  <2> QED
    BY <1>0, <1>1, <2>2, <2>3, QueueAdds
<1>3. CASE c \in requested
  <2>1. c \in Conns /\ client[c] = "open"
    BY <1>0, <1>3, ClientMoves DEF TypeOK, ClientsCame
  <2>2. CASE c \in removed
    BY <2>2, RemovedGrows
  <2>3. CASE PendingStart(c)
    <3>1. HandleStartCaster /\ toStart' = c => Starting(c)'
      BY DEF HandleStartCaster, Starting
    <3> QED
      BY <1>0, <2>3, <3>1, EventsPass
  <2>4. CASE Starting(c)
    <3>1. EmplaceFails => c \in removed'
      BY <2>1, <2>4 DEF EmplaceFails, Starting, Dropped
    <3>2. Assign => caster' = c
      BY <1>0, <2>4 DEF Assign, Starting, LoopShape
    <3>3. Starting(c)' \/ EmplaceFails \/ Assign
      BY <2>1, <2>4, WhoStarts, SessionAssumption DEF Starting, HandleStartServer,
         HandleStartCaster, HandleStopCaster, Take, StopDrop, StopReset, StopJoin,
         StopEnded, Emplace, LoopEnds, DestroyServer, DestroyCaster, LastJoin
    <3> QED
      BY <3>1, <3>2, <3>3
  <2>5. CASE caster = c
    <3>1. StopReset => c \in removed'
      BY <2>1, <2>5, RemovedGrows DEF StopReset, DroppedFirst
    <3>2. ~DestroyCaster
      BY <1>1 DEF DestroyCaster, ServerShape
    <3>3. ~Emplace
      BY <1>0, <2>1, <2>5, SessionAssumption DEF Emplace, LoopShape
    <3> QED
      BY <2>5, <3>1, <3>2, <3>3, CasterMoves
  <2> QED
    BY <1>1, <1>3, <2>1, <2>2, <2>3, <2>4, <2>5 DEF NoOrphanClient
<1> QED
  BY <1>2, <1>3

\* The server is up whenever there is something to show.
LEMMA ServerIsUp ==
  ASSUME TypeOK, ServerShape, ~shuttingDown, caster # NoConn \/ casting = TRUE
  PROVE  server = "up"
BY DEF ServerShape, TypeOK

\* A caster goes with its end announced.
LEMMA EndIsShownStep ==
  ASSUME SessionInv, ServerShape, EndIsShown, [Next]_vars
  PROVE  EndIsShown'
<1>0. TypeOK /\ LoopShape /\ MhdServes
  BY DEF SessionInv
<1> SUFFICES ASSUME casting', caster' = NoConn, ~shuttingDown'
             PROVE  Pending("CasterEnded")' \/ loopPc' \in {"join", "stopped"}
  BY DEF EndIsShown
<1>1. ~shuttingDown
  BY WhoShutsDown
<1>2. casting \in BOOLEAN
  BY <1>0 DEF TypeOK
<1>3. casting = TRUE
  <2>1. CASE UNCHANGED casting
    BY <1>2, <2>1
  <2>2. CASE HandleCasterStarted
    <3>1. caster = NoConn
      BY <2>2 DEF HandleCasterStarted, casterVars
    <3> QED
      BY <1>2, <2>2, <3>1 DEF HandleCasterStarted
  <2>3. CASE HandleCasterEnded
    BY <1>2, <2>3 DEF HandleCasterEnded
  <2> QED
    BY <2>1, <2>2, <2>3, WhoShows
<1>4. ~HandleCasterEnded
  <2>1. server = "up"
    BY <1>0, <1>1, <1>3, ServerIsUp
  <2> QED
    BY <2>1 DEF HandleCasterEnded
<1>5. CASE caster = NoConn
  <2>1. CASE Pending("CasterEnded")
    BY <1>0, <1>4, <2>1, EventsPass
  <2>2. CASE loopPc \in {"join", "stopped"}
    <3>1. loopPc' \in {"join", "stopped"} \/ StopEnded
      BY <2>2, WhoStarts DEF HandleStartServer, HandleStartCaster, HandleStopCaster,
         Take, StopDrop, StopReset, StopJoin, StopEnded, Emplace, EmplaceFails, Assign,
         LoopEnds, DestroyServer, DestroyCaster, LastJoin
    <3>2. CASE StopEnded
      <4>1. /\ Event("CasterEnded", NoConn) \in Events
            /\ Event("CasterEnded", NoConn).type = "CasterEnded"
        BY DEF Event, Events, EventTypes
      <4>2. Queue(<<Event("CasterEnded", NoConn)>>)
        BY <3>2 DEF StopEnded
      <4> QED
        BY <1>0, <1>1, <4>1, <4>2, QueueAdds
    <3> QED
      BY <3>1, <3>2
  <2>3. Pending("CasterEnded") \/ loopPc \in {"join", "stopped"}
    BY <1>1, <1>3, <1>5 DEF EndIsShown
  <2> QED
    BY <2>1, <2>2, <2>3
<1>6. CASE caster # NoConn
  <2>1. StopReset \/ DestroyCaster \/ Emplace
    BY <1>6, CasterMoves
  <2>2. ~DestroyCaster
    BY <1>1 DEF DestroyCaster, ServerShape
  <2>3. ~Emplace
    BY <1>0, <1>6 DEF Emplace, LoopShape
  <2> QED
    BY <2>1, <2>2, <2>3 DEF StopReset
<1> QED
  BY <1>5, <1>6

\* Only the threads of the caster that exists can report an end.
LEMMA EndIsOfTheCaster ==
  ASSUME SessionInv, [Next]_vars, caster # NoConn, caster' = caster, EndsAnnounced
  PROVE  Stopping'
<1>0. TypeOK /\ LoopShape /\ NoSurvivingThread
  BY DEF SessionInv
<1>1. ~StopEnded
  BY <1>0 DEF StopEnded, LoopShape
<1>2. CASE StartReportEnded
  BY <1>2 DEF StartReportEnded, Stopping
<1>3. ASSUME NEW c \in Conns, NEW w \in Workers, WorkerReportsEnded(c, w)
      PROVE  Stopping'
  <2>1. dying = NoConn /\ c # NoConn
    BY <1>0, SessionAssumption DEF LoopShape
  <2>2. c = caster
    BY <1>0, <1>3, <2>1 DEF NoSurvivingThread, Joined, WorkerReportsEnded
  <2>3. worker'[c][w] = "reportStop"
    BY <1>0, <1>3 DEF WorkerReportsEnded, TypeOK
  <2> QED
    BY <2>2, <2>3 DEF Stopping, Reporting
<1> QED
  BY <1>1, <1>2, <1>3 DEF EndsAnnounced

\* What is announced after the start of a caster that stays is not an end.
LEMMA StartIsShownStep ==
  ASSUME SessionInv, ServerShape, ThreadsAreFresh, FailureIsReported,
         StartIsShown, [Next]_vars
  PROVE  StartIsShown'
<1>0. TypeOK /\ LoopShape /\ MhdServes
  BY DEF SessionInv
<1> SUFFICES ASSUME caster' # NoConn, ~shuttingDown', loopPc' \notin {"start", "sources"}
             PROVE  Stopping' \/ WillBeShown'
  BY DEF StartIsShown
<1>1. ~shuttingDown
  BY WhoShutsDown
<1>2. caster' = caster
  BY CasterMoves DEF Emplace
<1>3. CASE loopPc \in {"start", "sources"}
  <2>1. StartDone \/ StartFails
    BY <1>3, WhoMovesTheLoop DEF LoopStep, HandleStartServer, HandleStartCaster,
       HandleStopCaster, HandleCasterStarted, HandleCasterEnded, Take, StopDrop,
       StopReset, StopJoin, StopEnded, Emplace, EmplaceFails, StartSources,
       StartMuxing, StartReportEnded, StartReportStop, Assign, LoopEnds,
       DestroyServer, DestroyCaster, LastJoin, loopVars
  <2>2. CASE StartDone
    <3>1. /\ Event("CasterStarted", toStart) \in Events
          /\ Event("CasterStarted", toStart).type = "CasterStarted"
      BY <1>0 DEF Event, Events, EventTypes, TypeOK
    <3>2. Queue(<<Event("CasterStarted", toStart)>>)
      BY <2>2 DEF StartDone
    <3>3. StartIsLast'
      BY <1>0, <1>1, <3>1, <3>2, QueueAdds
    <3> QED
      BY <3>3 DEF WillBeShown
  <2>3. CASE StartFails
    <3>1. CASE loopPc' = "reportEnded"
      BY <3>1 DEF Stopping
    <3>2. CASE state[caster] = "terminating"
      <4>1. Stopping
        BY <1>1, <1>2, <3>2 DEF FailureIsReported
      <4> QED
        BY <1>2, <4>1, StoppingStays
    <3>3. toStart = caster
      BY <1>0, <2>3 DEF StartFails, LoopShape
    <3> QED
      BY <2>3, <3>1, <3>2, <3>3 DEF StartFails
  <2> QED
    BY <2>1, <2>2, <2>3
<1>4. CASE Stopping
  BY <1>2, <1>4, StoppingStays
<1>5. CASE EndsAnnounced
  BY <1>2, <1>5, EndIsOfTheCaster
<1>6. CASE StartIsLast /\ ~EndsAnnounced
  <2>1. CASE StartIsLast'
    BY <2>1 DEF WillBeShown
  <2>2. CASE HandleCasterStarted /\ ~Pending("CasterEnded")'
    <3>1. server = "up"
      BY <1>0, <1>1, <1>2, ServerIsUp
    <3>2. casting'
      BY <1>2, <2>2, <3>1 DEF HandleCasterStarted
    <3> QED
      BY <2>2, <3>2 DEF WillBeShown
  <2> QED
    BY <1>0, <1>6, <2>1, <2>2, EventsPass
<1>7. CASE casting /\ ~Pending("CasterEnded") /\ ~EndsAnnounced
  <2>1. ~Pending("CasterEnded")'
    BY <1>0, <1>7, EventsPass
  <2>2. ~HandleCasterEnded
    <3>1. ASSUME HandleCasterEnded PROVE Pending("CasterEnded")
      <4>1. events \in Seq(Events) /\ events # <<>> /\ Head(events).type = "CasterEnded"
        BY <1>0, <3>1 DEF HandleCasterEnded, Take, TypeOK
      <4>2. 1 \in DOMAIN events /\ events[1] = Head(events)
        BY <4>1
      <4> QED
        BY <4>1, <4>2 DEF Pending
    <3> QED
      BY <1>7, <3>1
  <2>3. casting \in BOOLEAN
    BY <1>0 DEF TypeOK
  <2>4. casting'
    BY <1>7, <2>2, <2>3, WhoShows DEF HandleCasterStarted
  <2> QED
    BY <2>1, <2>4 DEF WillBeShown
<1> QED
  BY <1>1, <1>2, <1>3, <1>4, <1>5, <1>6, <1>7 DEF StartIsShown, WillBeShown

\* A connection that had its caster gets no other.
LEMMA ServedStays ==
  ASSUME SessionInv, ClientsCame, [Next]_vars, NEW c \in Conns
  PROVE  /\ Starting(c)' => Starting(c) \/ PendingStart(c)
         /\ requested \subseteq requested'
         /\ PendingStart(c)' => PendingStart(c) \/ c \notin requested
         /\ Served(c) => Served(c)'
<1>0. TypeOK /\ MhdServes
  BY DEF SessionInv
<1>1. Starting(c)' => Starting(c) \/ PendingStart(c)
  <2>1. HandleStartCaster /\ toStart' = c => PendingStart(c)
    BY <1>0, StartIsTaken
  <2> QED
    BY <2>1, WhoStarts, SessionAssumption DEF Starting, HandleStartServer,
       HandleStopCaster, Take, StopDrop, StopReset, StopJoin, StopEnded, Emplace,
       EmplaceFails, Assign, LoopEnds, DestroyServer, DestroyCaster, LastJoin
<1>2. requested \subseteq requested'
  BY WhoChangesClients DEF DestroyServer, StreamRequestStart, CloseChecks,
     CloseRemoves, Connect, StreamRequest, CloseBegins, serverVars
<1>3. PendingStart(c)' => PendingStart(c) \/ c \notin requested
  BY <1>0, EventsPass DEF StreamRequestStart, ClientsCame
<1>4. caster' = c => caster = c \/ Starting(c)
  BY CasterMoves, SessionAssumption DEF Emplace, Starting
<1> QED
  BY <1>1, <1>2, <1>3, <1>4 DEF Served

\* When a caster goes, its connection has had its caster.
LEMMA CasterIsLetGo ==
  ASSUME SessionInv, ClientsCame, ServerShape, StartedOnce, [Next]_vars,
         ~shuttingDown, NEW c \in Conns, caster = c, caster' # c
  PROVE  Served(c)'
<1>0. TypeOK /\ LoopShape /\ caster # NoConn
  BY SessionAssumption DEF SessionInv
<1>1. StopReset
  BY <1>0, CasterMoves DEF DestroyCaster, Emplace, LoopShape, ServerShape
<1>2. caster' = NoConn /\ loopPc = "reset"
  BY <1>1 DEF StopReset
<1>3. c \in requested /\ ~PendingStart(c) /\ ~Starting(c)
  BY <1>0, <1>2 DEF StartedOnce
<1> QED
  BY <1>2, <1>3, ServedStays, SessionAssumption DEF Served

\* A closing is missed, comes too late, or stops the caster.
LEMMA CloseIsHeardStep ==
  ASSUME SessionInv, ClientsCame, ServerShape, StartedOnce, ThreadsAreFresh,
         FailureIsReported, CloseIsHeard, [Next]_vars
  PROVE  CloseIsHeard'
<1>0. TypeOK /\ LoopShape /\ MhdServes
  BY DEF SessionInv
<1> SUFFICES ASSUME NEW c \in Conns, client'[c] = "closed" \/ Closing(c)',
                    ~shuttingDown'
             PROVE  \/ c \in missedClose'
                    \/ Served(c)'
                    \/ /\ caster' = c
                       /\ Stopping' \/ (mhdPc' = "closeCheck" /\ mhdConn' = c)
  BY DEF CloseIsHeard
<1>1. ~shuttingDown /\ ~DestroyServer
  <2>1. ~shuttingDown
    BY WhoShutsDown
  <2>2. ~DestroyServer
    BY DEF DestroyServer
  <2> QED
    BY <2>1, <2>2
<1>2. missedClose \subseteq missedClose'
  BY DEF Next, vars, loopVars, serverVars, casterVars, mhdVars, LoopStep, MhdFinishes,
     WorkerFinishes, HandleStartServer, HandleStartCaster, HandleStopCaster,
     HandleCasterStarted, HandleCasterEnded, StopDrop, StopReset, StopJoin, StopEnded,
     Emplace, EmplaceFails, StartSources, StartDone, StartMuxing, StartFails,
     StartReportEnded, StartReportStop, Assign, LoopEnds, DestroyServer, DestroyCaster,
     LastJoin, WorkerFails, WorkerSetsState, WorkerReportsEnded, WorkerReportsStop,
     WorkerEnds, StreamRequestStart, CloseChecks, CloseRemoves, Connect, StreamRequest,
     GhostRemoved, CloseBegins, Cancel, Shutdown
<1>3. CASE CloseBegins(c)
  <2>1. CASE castingConnId # c
    BY <1>3, <2>1 DEF CloseBegins
  <2>2. CASE castingConnId = c /\ caster = c
    BY <1>3, <2>2, SessionAssumption DEF CloseBegins, casterVars
  <2>3. CASE castingConnId = c /\ caster # c
    <3>1. Served(c)
      BY <2>3, SessionAssumption DEF StartedOnce, Served
    <3> QED
      BY <3>1, ServedStays
  <2> QED
    BY <2>1, <2>2, <2>3
<1>4. CASE client[c] = "closed" \/ Closing(c)
  <2>1. CASE c \in missedClose
    BY <1>2, <2>1
  <2>2. CASE Served(c)
    BY <2>2, ServedStays
  <2>3. CASE caster = c /\ caster' # c
    BY <1>1, <2>3, CasterIsLetGo
  <2>4. CASE caster = c /\ caster' = c /\ Stopping
    BY <2>4, StoppingStays, SessionAssumption
  <2>5. CASE caster = c /\ caster' = c /\ mhdPc = "closeCheck" /\ mhdConn = c
    <3>1. CASE CloseChecks
      <4>1. CASE state[caster] = "terminating"
        <5>1. Stopping
          BY <1>1, <2>5, <4>1, SessionAssumption DEF FailureIsReported
        <5> QED
          BY <2>5, <5>1, StoppingStays, SessionAssumption
      <4>2. CASE state[caster] # "terminating"
        <5>1. Queue(<<Event("StopCaster", mhdConn)>>)
          BY <2>5, <3>1, <4>2, SessionAssumption DEF CloseChecks
        <5> QED
          BY <1>0, <1>1, <2>5, <5>1, StopIsSent DEF Stopping
      <4> QED
        BY <4>1, <4>2
    <3>2. CASE UNCHANGED <<mhdPc, mhdConn>>
      BY <2>5, <3>2
    <3> QED
      BY <1>1, <2>5, <3>1, <3>2, WhoChangesClients DEF StreamRequestStart,
         CloseRemoves, Connect, StreamRequest, CloseBegins, mhdVars
  <2> QED
    BY <1>1, <1>4, <2>1, <2>2, <2>3, <2>4, <2>5 DEF CloseIsHeard
<1>5. CloseBegins(c) \/ client[c] = "closed" \/ Closing(c)
  <2>1. CASE client'[c] = "closed"
    BY <1>0, <1>1, <2>1, ClientMoves DEF CloseRemoves, Closing
  <2>2. CASE Closing(c)'
    BY <1>1, <2>2, WhoChangesClients DEF StreamRequestStart, CloseChecks, CloseRemoves,
       Connect, StreamRequest, CloseBegins, Closing, mhdVars
  <2> QED
    BY <2>1, <2>2
<1> QED
  BY <1>3, <1>4, <1>5

\* At first nobody is connected and only the server is to be started.
LEMMA InitQueueInv == Init => QueueInv
<1> SUFFICES ASSUME Init PROVE QueueInv
  OBVIOUS
<1>1. /\ events = <<Event("StartServer", NoConn)>>
      /\ Event("StartServer", NoConn).type = "StartServer"
  BY DEF Init, Event
<1>2. Len(events) = 1 /\ events[1].type = "StartServer" /\ DOMAIN events = 1 .. 1
  BY <1>1
<1>3. ~Pending("StartCaster") /\ StartsDiffer /\ \A c : ~PendingStart(c)
  BY <1>2 DEF Pending, StartsDiffer, PendingStart
<1>4. \A c \in Conns : ~Starting(c) /\ client[c] # "closed" /\ ~Closing(c)
  BY DEF Init, Starting, Closing
<1>5. ClientsCame /\ ServerShape /\ StartedOnce
  BY <1>3, <1>4, SessionAssumption DEF Init, ClientsCame, ServerShape, StartedOnce
<1>6. ThreadsAreFresh /\ FailureIsReported /\ DroppedFirst /\ NoOrphanClient
  BY DEF Init, ThreadsAreFresh, FailureIsReported, DroppedFirst, NoOrphanClient
<1>7. EndIsShown /\ StartIsShown /\ CloseIsHeard
  BY <1>4 DEF Init, EndIsShown, StartIsShown, CloseIsHeard
<1> QED
  BY <1>5, <1>6, <1>7 DEF QueueInv

\* Both invariants hold throughout: what the loop knows of its caster, and
\* what the queue still holds for it.
THEOREM SessionQueueInvariant == SafeSpec => [](SessionInv /\ QueueInv)
<1>1. SessionInv /\ QueueInv /\ [Next]_vars => QueueInv'
  BY ClientsCameStep, ServerShapeStep, StartedOnceStep, ThreadsAreFreshStep,
     FailureIsReportedStep, DroppedFirstStep, NoOrphanClientStep, EndIsShownStep,
     StartIsShownStep, CloseIsHeardStep DEF QueueInv
<1> QED
  BY <1>1, InitQueueInv, SessionInvariant, PTL DEF SafeSpec

\* No client is left hanging: whoever has asked for the stream has a caster,
\* will get one or is told to end (kamkast.cpp l. 233, 275).
THEOREM SessionClients == Spec => []NoOrphanClient
<1>1. QueueInv => NoOrphanClient
  BY DEF QueueInv
<1> QED
  BY <1>1, SessionQueueInvariant, PTL DEF Spec

\* Once every event is handled the GUI is right about whether a cast is in
\* progress, in whatever order the ends of two casters and the start of a
\* third were announced (kamkast.cpp l. 223-229, 277).
THEOREM SessionGui == Spec => []GuiSettles
<1>1. SessionInv /\ QueueInv => GuiSettles
  <2> SUFFICES ASSUME SessionInv, QueueInv, loopPc = "idle", events = <<>>,
                      ~shuttingDown, \A c \in Conns : ~Reporting(c)
               PROVE  casting <=> caster # NoConn
    BY DEF GuiSettles
  <2>1. /\ EndIsShown /\ StartIsShown /\ casting \in BOOLEAN
        /\ \A t : ~Pending(t)
        /\ ~StartIsLast
    BY DEF QueueInv, SessionInv, TypeOK, Pending, StartIsLast
  <2>2. ~Stopping
    BY <2>1 DEF Stopping
  <2>3. caster # NoConn => casting
    BY <2>1, <2>2 DEF StartIsShown, WillBeShown
  <2>4. caster = NoConn => ~casting
    BY <2>1 DEF EndIsShown
  <2> QED
    BY <2>3, <2>4
<1> QED
  BY <1>1, SessionQueueInvariant, PTL DEF Spec

\* Only a closing that came too early for m_castingConnId leaves a caster
\* that streams to nobody (kamkast.cpp l. 237-245, 440).
THEOREM SessionGhosts == Spec => []GhostCasterOnlyByEarlyClose
<1>1. QueueInv => GhostCasterOnlyByEarlyClose
  <2> SUFFICES ASSUME QueueInv, NEW c \in Conns, loopPc = "idle", caster = c,
                      client[c] = "closed", ~shuttingDown
               PROVE  \/ Pending("StopCaster") \/ Pending("StartCaster")
                      \/ Reporting(c)
                      \/ c \in missedClose
    BY DEF GhostCasterOnlyByEarlyClose
  <2>1. c \in missedClose \/ Served(c) \/ Stopping \/ (mhdPc = "closeCheck" /\ mhdConn = c)
    BY DEF QueueInv, CloseIsHeard
  <2>2. ~(mhdPc = "closeCheck" /\ mhdConn = c)
    BY DEF QueueInv, ClientsCame
  <2> QED
    BY <2>1, <2>2 DEF Served, Stopping
<1> QED
  BY <1>1, SessionQueueInvariant, PTL DEF Spec
=============================================================================
