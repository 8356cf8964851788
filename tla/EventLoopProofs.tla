--------------------------- MODULE EventLoopProofs ---------------------------
(***************************************************************************)
(* Safety of NoGuiEventLoop for any number of threads and calls, and its   *)
(* refinement of EventChannel.                                             *)
(***************************************************************************)
EXTENDS EventLoop, SequenceTheorems, TLAPS

\* The loop thread holds the mutex from the lock to the sleep or the swap.
MutexHeld == (mutex = LoopThread) <=> (loopPc \in {"predicate", "block", "swap"})

\* A thread about to push has counted its call.
CallCounted == \A t \in Threads : callPc[t] = "push" => calls[t] >= 1

(***************************************************************************)
(* The local queue is empty whenever the loop can reach the swap; it keeps *)
(* something only in the middle of a batch or after a shutdown.            *)
(***************************************************************************)
BatchShape ==
  /\ loopPc \in {"lock", "predicate", "block", "asleep", "woken", "swap"}
       => batch = <<>>
  /\ loopPc = "test" => batch = <<>> \/ shuttingDown
  /\ loopPc \in {"dispatch", "handling"} => batch # <<>>

\* Going to sleep with the mutex held, the loop has just seen no event.
BlockedOnEmpty == loopPc = "block" => queue = <<>>

\* A call that was on its way when the flag was set is the last one.
LateShape ==
  shuttingDown =>
    /\ handledAtStop <= Len(handled)
    /\ Len(handled) <= handledAtStop + 1
    /\ loopPc = "dispatch" => Len(handled) = handledAtStop

-----------------------------------------------------------------------------
(* Sequences.                                                              *)

\* Appending to the second of two concatenated sequences.
LEMMA AppendToConcat ==
  ASSUME NEW S, NEW a \in Seq(S), NEW b \in Seq(S), NEW e \in S
  PROVE  a \o Append(b, e) = Append(a \o b, e)
<1>1. a \o b \in Seq(S) /\ <<e>> \in Seq(S)
  BY ConcatProperties
<1>2. Append(a \o b, e) = (a \o b) \o <<e>>
  BY <1>1, AppendIsConcat
<1>3. (a \o b) \o <<e>> = a \o (b \o <<e>>)
  BY <1>1, ConcatAssociative
<1>4. b \o <<e>> = Append(b, e)
  BY AppendIsConcat
<1> QED
  BY <1>2, <1>3, <1>4

\* Moving the head of a sequence to the end of the one before it.
LEMMA MoveHead ==
  ASSUME NEW S, NEW a \in Seq(S), NEW b \in Seq(S), b # <<>>
  PROVE  a \o b = Append(a, Head(b)) \o Tail(b)
<1>1. Head(b) \in S /\ Tail(b) \in Seq(S) /\ <<Head(b)>> \in Seq(S)
  BY HeadTailProperties
<1>2. b = <<Head(b)>> \o Tail(b)
  BY <1>1, HeadTailProperties, ConcatProperties
<1>3. a \o (<<Head(b)>> \o Tail(b)) = (a \o <<Head(b)>>) \o Tail(b)
  BY <1>1, ConcatAssociative
<1>4. a \o <<Head(b)>> = Append(a, Head(b))
  BY <1>1, AppendIsConcat
<1> QED
  BY <1>2, <1>3, <1>4

\* The element of a concatenation that follows its first part.
LEMMA NextOfConcat ==
  ASSUME NEW S, NEW a \in Seq(S), NEW b \in Seq(S), NEW c \in Seq(S), b # <<>>
  PROVE  /\ Len(a) < Len(a \o b \o c)
         /\ (a \o b \o c)[Len(a) + 1] = Head(b)
<1>1. Len(b) \in Nat /\ Len(b) >= 1 /\ Head(b) = b[1]
  BY EmptySeq
<1>2. /\ a \o b \in Seq(S)
      /\ Len(a \o b) = Len(a) + Len(b)
      /\ (a \o b)[Len(a) + 1] = b[1]
  BY <1>1, ConcatProperties
<1>3. /\ Len((a \o b) \o c) = Len(a \o b) + Len(c)
      /\ (a \o b \o c)[Len(a) + 1] = (a \o b)[Len(a) + 1]
  BY <1>1, <1>2, ConcatProperties
<1> QED
  BY <1>1, <1>2, <1>3

-----------------------------------------------------------------------------
(* The inductive invariant: everything but the order of the events first.  *)

Shape ==
  /\ TypeOK
  /\ MutexHeld
  /\ CallCounted
  /\ BatchShape
  /\ BlockedOnEmpty
  /\ LateShape
  /\ NoLostEventWakeup

LEMMA InitShape == Init => Shape
<1> SUFFICES ASSUME Init PROVE Shape
  OBVIOUS
<1>1. <<>> \in Seq(Events) /\ Len(<<>>) = 0
  BY EmptySeq
<1>2. TypeOK
  <2>1. callPc \in [Threads -> {"idle", "push", "notify"}]
    BY DEF Init
  <2>2. calls \in [Threads -> 0 .. MaxCalls]
    BY EventLoopAssumption DEF Init
  <2> QED
    BY <1>1, <2>1, <2>2 DEF Init, TypeOK, LoopPcs
<1>3. MutexHeld
  BY EventLoopAssumption DEF Init, MutexHeld
<1>4. CallCounted
  BY DEF Init, CallCounted
<1> QED
  BY <1>1, <1>2, <1>3, <1>4
  DEF Init, Shape, BatchShape, BlockedOnEmpty, LateShape, NoLostEventWakeup

\* Calls of enqueue() and shutdown().
LEMMA CallShape ==
  ASSUME Shape, NEW t \in Threads,
         \/ EnqueueTest(t)
         \/ EnqueuePush(t)
         \/ NotifyOne(t)
         \/ ShutdownRequest(t)
  PROVE  Shape'
<1> USE EventLoopAssumption
<1>1. CASE EnqueueTest(t)
  <2>1. TypeOK'
    BY <1>1 DEF EnqueueTest, MayCall, Shape, TypeOK, LoopPcs
  <2>2. CallCounted'
    BY <1>1 DEF EnqueueTest, MayCall, Shape, TypeOK, CallCounted
  <2>3. NoLostEventWakeup'
    BY <1>1 DEF EnqueueTest, MayCall, Shape, TypeOK, NoLostEventWakeup
  <2> QED
    BY <1>1, <2>1, <2>2, <2>3
    DEF EnqueueTest, Shape, MutexHeld, BatchShape, BlockedOnEmpty, LateShape
<1>2. CASE EnqueuePush(t)
  <2> DEFINE event == [from |-> t, num |-> calls[t]]
  <2>1. event \in Events
    BY <1>2 DEF EnqueuePush, Shape, TypeOK, CallCounted, Events
  <2>2. Append(queue, event) \in Seq(Events) /\ Append(accepted, event) \in Seq(Events)
    BY <2>1, AppendProperties DEF Shape, TypeOK
  <2>3. TypeOK'
    BY <1>2, <2>2 DEF EnqueuePush, Shape, TypeOK, LoopPcs
  <2>4. CallCounted'
    BY <1>2 DEF EnqueuePush, Shape, TypeOK, CallCounted
  <2>5. NoLostEventWakeup' /\ MutexHeld' /\ BatchShape' /\ LateShape'
    BY <1>2 DEF EnqueuePush, Shape, TypeOK, NoLostEventWakeup, MutexHeld, BatchShape,
                LateShape
  <2>6. BlockedOnEmpty'
    BY <1>2 DEF EnqueuePush, Shape, TypeOK, BlockedOnEmpty, MutexHeld, Threads
  <2> QED
    BY <2>3, <2>4, <2>5, <2>6 DEF Shape
<1>3. CASE NotifyOne(t)
  <2>1. TypeOK'
    BY <1>3 DEF NotifyOne, Shape, TypeOK, LoopPcs
  <2>2. CallCounted' /\ NoLostEventWakeup'
    BY <1>3 DEF NotifyOne, Shape, TypeOK, CallCounted, NoLostEventWakeup
  <2>3. BatchShape'
    BY <1>3 DEF NotifyOne, Shape, BatchShape
  <2> QED
    BY <1>3, <2>1, <2>2, <2>3
    DEF NotifyOne, Shape, MutexHeld, BlockedOnEmpty, LateShape
<1>4. CASE ShutdownRequest(t)
  <2>1. Len(handled) \in Nat
    BY LenProperties DEF Shape, TypeOK
  <2>2. TypeOK'
    BY <1>4, <2>1 DEF ShutdownRequest, MayCall, Shape, TypeOK, LoopPcs
  <2>3. CallCounted' /\ NoLostEventWakeup'
    BY <1>4 DEF ShutdownRequest, MayCall, Shape, TypeOK, CallCounted, NoLostEventWakeup
  <2>4. LateShape'
    BY <1>4, <2>1 DEF ShutdownRequest, Shape, TypeOK, LateShape
  <2> QED
    BY <1>4, <2>2, <2>3, <2>4
    DEF ShutdownRequest, Shape, MutexHeld, BatchShape, BlockedOnEmpty
<1> QED
  BY <1>1, <1>2, <1>3, <1>4

\* Steps of loop().
LEMMA LoopShape ==
  ASSUME Shape, LoopStep \/ SpuriousWakeup
  PROVE  Shape'
<1> USE EventLoopAssumption
<1>0. Len(handled) \in Nat
  BY LenProperties DEF Shape, TypeOK
<1>1. CASE LoopTest
  BY <1>1
  DEF LoopTest, Goto, Shape, TypeOK, MutexHeld, CallCounted, BatchShape, BlockedOnEmpty,
      LateShape, NoLostEventWakeup, LoopPcs
<1>2. CASE LoopLock
  BY <1>2
  DEF LoopLock, Goto, Shape, TypeOK, MutexHeld, CallCounted, BatchShape, BlockedOnEmpty,
      LateShape, NoLostEventWakeup, LoopPcs
<1>3. CASE LoopPredicate
  BY <1>3
  DEF LoopPredicate, Goto, Shape, TypeOK, MutexHeld, CallCounted, BatchShape,
      BlockedOnEmpty, LateShape, NoLostEventWakeup, LoopPcs
<1>4. CASE LoopBlock
  BY <1>4
  DEF LoopBlock, Goto, Shape, TypeOK, MutexHeld, CallCounted, BatchShape, BlockedOnEmpty,
      LateShape, NoLostEventWakeup, LoopPcs, Threads
<1>5. CASE SpuriousWakeup
  BY <1>5
  DEF SpuriousWakeup, Goto, Shape, TypeOK, MutexHeld, CallCounted, BatchShape,
      BlockedOnEmpty, LateShape, NoLostEventWakeup, LoopPcs
<1>6. CASE LoopSwap
  BY <1>6
  DEF LoopSwap, Goto, Shape, TypeOK, MutexHeld, CallCounted, BatchShape, BlockedOnEmpty,
      LateShape, NoLostEventWakeup, LoopPcs, Threads
<1>7. CASE LoopDrain
  BY <1>7
  DEF LoopDrain, Goto, Shape, TypeOK, MutexHeld, CallCounted, BatchShape, BlockedOnEmpty,
      LateShape, NoLostEventWakeup, LoopPcs
<1>8. CASE LoopDispatch
  <2>1. Head(batch) \in Events
    BY <1>8, HeadTailProperties DEF LoopDispatch, Goto, Shape, TypeOK, BatchShape
  <2>2. /\ Append(handled, Head(batch)) \in Seq(Events)
        /\ Len(Append(handled, Head(batch))) = Len(handled) + 1
    BY <2>1, AppendProperties DEF Shape, TypeOK
  <2>3. LateShape'
    BY <1>0, <1>8, <2>2 DEF LoopDispatch, Goto, Shape, TypeOK, LateShape
  <2> QED
    BY <1>8, <2>2, <2>3
    DEF LoopDispatch, Goto, Shape, TypeOK, MutexHeld, CallCounted, BatchShape,
        BlockedOnEmpty, NoLostEventWakeup, LoopPcs
<1>9. CASE LoopPop
  <2>1. Tail(batch) \in Seq(Events)
    BY <1>9, HeadTailProperties DEF LoopPop, Goto, Shape, TypeOK, BatchShape
  <2> QED
    BY <1>9, <2>1
    DEF LoopPop, Goto, Shape, TypeOK, MutexHeld, CallCounted, BatchShape,
        BlockedOnEmpty, LateShape, NoLostEventWakeup, LoopPcs
<1> QED
  BY <1>1, <1>2, <1>3, <1>4, <1>5, <1>6, <1>7, <1>8, <1>9 DEF LoopStep

LEMMA ShapeStep == Shape /\ [Next]_vars => Shape'
<1> SUFFICES ASSUME Shape, [Next]_vars PROVE Shape'
  OBVIOUS
<1>1. CASE UNCHANGED vars
  BY <1>1
  DEF vars, Shape, TypeOK, MutexHeld, CallCounted, BatchShape, BlockedOnEmpty, LateShape,
      NoLostEventWakeup
<1>2. CASE LoopStep \/ SpuriousWakeup
  BY <1>2, LoopShape
<1>3. ASSUME NEW t \in Threads,
             EnqueueTest(t) \/ EnqueuePush(t) \/ NotifyOne(t) \/ ShutdownRequest(t)
      PROVE  Shape'
  BY <1>3, CallShape
<1> QED
  BY <1>1, <1>2, <1>3 DEF Next

-----------------------------------------------------------------------------
(* The order of the events.                                                *)

\* The three parts of the history are sequences of events.
LEMMA PartsAreSeqs ==
  ASSUME Shape
  PROVE  /\ handled \in Seq(Events) /\ batch \in Seq(Events)
         /\ queue \in Seq(Events) /\ Undelivered \in Seq(Events)
<1>1. ASSUME loopPc = "handling" PROVE Tail(batch) \in Seq(Events)
  BY <1>1, HeadTailProperties DEF Shape, TypeOK, BatchShape
<1> QED
  BY <1>1 DEF Shape, TypeOK, Undelivered

LEMMA FifoStep ==
  ASSUME Shape, FifoDelivery, [Next]_vars
  PROVE  FifoDelivery'
<1>0. /\ handled \in Seq(Events) /\ batch \in Seq(Events)
      /\ queue \in Seq(Events) /\ Undelivered \in Seq(Events)
  BY PartsAreSeqs
<1>1. CASE UNCHANGED <<queue, batch, accepted, handled>> /\ Undelivered' = Undelivered
  BY <1>1 DEF FifoDelivery
<1>2. ASSUME NEW t \in Threads, EnqueuePush(t)
      PROVE  FifoDelivery'
  <2> DEFINE event == [from |-> t, num |-> calls[t]]
  <2>1. event \in Events
    BY <1>2 DEF EnqueuePush, Shape, TypeOK, CallCounted, Events
  <2>2. /\ accepted' = Append(handled \o Undelivered \o queue, event)
        /\ queue' = Append(queue, event) /\ handled' = handled
        /\ Undelivered' = Undelivered
    BY <1>2 DEF EnqueuePush, FifoDelivery, Undelivered
  <2>3. handled \o Undelivered \o Append(queue, event)
          = Append(handled \o Undelivered \o queue, event)
    <3>1. handled \o Undelivered \in Seq(Events)
      BY <1>0, ConcatProperties
    <3> QED
      BY <1>0, <2>1, <3>1, AppendToConcat
  <2>4. accepted' = handled' \o Undelivered' \o queue'
    BY <2>2, <2>3, Zenon
  <2> QED
    BY <2>4 DEF FifoDelivery
<1>3. CASE LoopSwap
  <2>1. /\ Undelivered = <<>> /\ Undelivered' = queue /\ queue' = <<>>
        /\ handled' = handled /\ accepted' = accepted
    BY <1>3 DEF LoopSwap, Goto, Shape, BatchShape, Undelivered
  <2>2. handled \o <<>> = handled /\ (handled \o queue) \o <<>> = handled \o queue
    BY <1>0, ConcatEmptySeq, ConcatProperties
  <2> QED
    BY <2>1, <2>2 DEF FifoDelivery
<1>4. CASE LoopDispatch
  <2>1. /\ batch # <<>> /\ Undelivered = batch /\ Undelivered' = Tail(batch)
        /\ handled' = Append(handled, Head(batch))
        /\ queue' = queue /\ accepted' = accepted
    BY <1>4 DEF LoopDispatch, Goto, Shape, BatchShape, Undelivered
  <2>2. handled \o batch = Append(handled, Head(batch)) \o Tail(batch)
    BY <1>0, <2>1, MoveHead
  <2> QED
    BY <2>1, <2>2 DEF FifoDelivery
<1>5. CASE LoopPop
  BY <1>5 DEF LoopPop, Goto, Undelivered, FifoDelivery
<1>6. ASSUME NEW t \in Threads, EnqueueTest(t) \/ NotifyOne(t) \/ ShutdownRequest(t)
      PROVE  FifoDelivery'
  BY <1>1, <1>6 DEF EnqueueTest, NotifyOne, ShutdownRequest, Undelivered
<1>7. CASE \/ LoopTest \/ LoopLock \/ LoopPredicate \/ LoopBlock \/ LoopDrain
           \/ SpuriousWakeup
  BY <1>1, <1>7
  DEF LoopTest, LoopLock, LoopPredicate, LoopBlock, LoopDrain, SpuriousWakeup, Goto,
      Undelivered
<1>8. CASE UNCHANGED vars
  BY <1>1, <1>8 DEF vars, Undelivered
<1> QED
  BY <1>2, <1>3, <1>4, <1>5, <1>6, <1>7, <1>8 DEF Next, LoopStep

LEMMA InitFifo == Init => FifoDelivery
<1>1. <<>> \in Seq(Events)
  BY EmptySeq
<1> QED
  BY <1>1, ConcatEmptySeq DEF Init, FifoDelivery, Undelivered

-----------------------------------------------------------------------------
(* Theorems.                                                               *)

(***************************************************************************)
(* In every behaviour, for any number of threads and calls: the types, the *)
(* order of delivery, no sleep on an unannounced event, and at most one    *)
(* event handled after a shutdown request.                                 *)
(***************************************************************************)
THEOREM EventLoopInvariant == SafeSpec => [](Shape /\ FifoDelivery)
<1>1. Init => Shape /\ FifoDelivery
  BY InitShape, InitFifo
<1>2. Shape /\ FifoDelivery /\ [Next]_vars => (Shape /\ FifoDelivery)'
  BY ShapeStep, FifoStep
<1> QED
  BY <1>1, <1>2, PTL DEF SafeSpec

THEOREM EventLoopTypeOK == SafeSpec => []TypeOK
BY EventLoopInvariant, PTL DEF Shape

\* Events are neither lost, repeated nor reordered before the handler.
THEOREM EventLoopFifo == SafeSpec => []FifoDelivery
BY EventLoopInvariant, PTL

\* The loop does not sleep on an event nobody is about to announce.
THEOREM EventLoopWakeup == SafeSpec => []NoLostEventWakeup
BY EventLoopInvariant, PTL DEF Shape

\* A stopped loop enters the handler at most once more.
THEOREM EventLoopLateEvent == SafeSpec => []AtMostOneLateEvent
<1>1. Shape => AtMostOneLateEvent
  BY DEF Shape, LateShape, AtMostOneLateEvent
<1> QED
  BY <1>1, EventLoopInvariant, PTL

-----------------------------------------------------------------------------
(* Refinement of EventChannel.                                             *)

\* A step of the loop or of a caller is a step of the channel or a stutter.
LEMMA ChannelStep ==
  ASSUME Shape, FifoDelivery, [Next]_vars
  PROVE  [Channel!Next]_Channel!vars
<1>0. /\ handled \in Seq(Events) /\ batch \in Seq(Events)
      /\ queue \in Seq(Events) /\ Undelivered \in Seq(Events)
      /\ Len(handled) \in Nat /\ handledAtStop \in Nat /\ shuttingDown \in BOOLEAN
  BY PartsAreSeqs, LenProperties DEF Shape, TypeOK
<1>1. CASE UNCHANGED <<accepted, handled, shuttingDown, handledAtStop>>
  BY <1>1 DEF Channel!vars, ChannelPhase
<1>2. ASSUME NEW t \in Threads, EnqueuePush(t)
      PROVE  [Channel!Next]_Channel!vars
  <2> DEFINE event == [from |-> t, num |-> calls[t]]
  <2>1. event \in Events
    BY <1>2 DEF EnqueuePush, Shape, TypeOK, CallCounted, Events
  <2>2. Channel!Accept(event)
    BY <1>2 DEF EnqueuePush, Channel!Accept, ChannelPhase
  <2> QED
    BY <2>1, <2>2 DEF Channel!Next
<1>3. ASSUME NEW t \in Threads, ShutdownRequest(t)
      PROVE  [Channel!Next]_Channel!vars
  <2>1. CASE shuttingDown
    BY <1>1, <1>3, <2>1 DEF ShutdownRequest
  <2>2. CASE ~shuttingDown
    BY <1>3, <2>2 DEF ShutdownRequest, Channel!Next, Channel!Close, ChannelPhase
  <2> QED
    BY <2>1, <2>2
<1>4. CASE LoopDispatch
  <2>1. /\ batch # <<>> /\ Undelivered = batch
        /\ handled' = Append(handled, Head(batch))
        /\ UNCHANGED <<accepted, shuttingDown, handledAtStop>>
        /\ shuttingDown => Len(handled) = handledAtStop
    BY <1>4 DEF LoopDispatch, Goto, Shape, BatchShape, LateShape, Undelivered
  <2>2. /\ Len(handled) < Len(accepted)
        /\ accepted[Len(handled) + 1] = Head(batch)
    BY <1>0, <2>1, NextOfConcat DEF FifoDelivery
  <2>3. Channel!NextDelivered
    BY <2>1, <2>2 DEF Channel!NextDelivered
  <2>4. Len(handled') = Len(handled) + 1
    BY <1>0, <2>1, HeadTailProperties, AppendProperties
  <2>5. CASE shuttingDown
    <3>1. ChannelPhase = "closing" /\ ChannelPhase' = "closed"
      BY <1>0, <2>1, <2>4, <2>5 DEF ChannelPhase
    <3> QED
      BY <2>3, <3>1 DEF Channel!Next, Channel!LastDelivery
  <2>6. CASE ~shuttingDown
    <3>1. ChannelPhase = "open" /\ ChannelPhase' = "open"
      BY <2>1, <2>6 DEF ChannelPhase
    <3> QED
      BY <2>3, <3>1 DEF Channel!Next, Channel!Deliver
  <2> QED
    BY <2>5, <2>6
<1>5. ASSUME NEW t \in Threads, EnqueueTest(t) \/ NotifyOne(t)
      PROVE  [Channel!Next]_Channel!vars
  BY <1>1, <1>5 DEF EnqueueTest, NotifyOne
<1>6. CASE \/ LoopTest \/ LoopLock \/ LoopPredicate \/ LoopBlock \/ LoopSwap
           \/ LoopDrain \/ LoopPop \/ SpuriousWakeup
  BY <1>1, <1>6
  DEF LoopTest, LoopLock, LoopPredicate, LoopBlock, LoopSwap, LoopDrain, LoopPop,
      SpuriousWakeup
<1>7. CASE UNCHANGED vars
  BY <1>1, <1>7 DEF vars
<1> QED
  BY <1>2, <1>3, <1>4, <1>5, <1>6, <1>7 DEF Next, LoopStep

(***************************************************************************)
(* The event loop, mutex, condition variable and two queues included, is   *)
(* an EventChannel, whatever the threads do.                               *)
(***************************************************************************)
THEOREM EventLoopRefinesChannel == SafeSpec => ImplementsChannel
<1>1. Init => Channel!Init
  BY DEF Init, Channel!Init, ChannelPhase
<1>2. Shape /\ FifoDelivery /\ [Next]_vars => [Channel!Next]_Channel!vars
  BY ChannelStep
<1> QED
  BY <1>1, <1>2, EventLoopInvariant, PTL DEF SafeSpec, ImplementsChannel, Channel!Spec
=============================================================================
