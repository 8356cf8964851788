------------------------------ MODULE EventLoop ------------------------------
(***************************************************************************)
(* NoGuiEventLoop: one thread runs loop(); any thread may call enqueue();  *)
(* a signal handler, or the event handler itself, may call shutdown().     *)
(*                                                                         *)
(* m_shuttingDown is a plain bool read and written without m_mutex, while  *)
(* m_queue is only touched under it.  Every access of one of them is a     *)
(* step of its own, and so is the instant between evaluating the predicate *)
(* of the condition variable and going to sleep on it.                     *)
(***************************************************************************)
EXTENDS Naturals, Sequences, FiniteSets

CONSTANTS
  Producers,   \* threads other than the loop's own that call enqueue()
  LoopThread,  \* the thread inside loop(); its handler may call enqueue() too
  Stoppers,    \* the threads that may call shutdown()
  MaxCalls,    \* bound: enqueue() and shutdown() calls of one thread
  None         \* nobody holds m_mutex

ASSUME EventLoopAssumption ==
  /\ LoopThread \notin Producers
  /\ Stoppers \subseteq Producers \cup {LoopThread}
  /\ None \notin Producers \cup {LoopThread}
  /\ MaxCalls \in Nat

Threads == Producers \cup {LoopThread}

\* The n-th call of thread t; what the event asks for does not matter here.
Events == [from : Threads, num : 1 .. MaxCalls]

VARIABLES
  queue,         \* m_queue
  batch,         \* the local queue of loop()
  shuttingDown,  \* m_shuttingDown
  mutex,         \* the holder of m_mutex between two steps
  loopPc,        \* where the loop thread is
  callPc,        \* where each thread is inside enqueue() or shutdown()
  calls,         \* how many calls each thread has made
  accepted,      \* history: the pushed events, in order
  handled,       \* history: the events given to the handler, in order
  handledAtStop  \* history: Len(handled) when shutdown was first requested

vars == <<queue, batch, shuttingDown, mutex, loopPc, callPc, calls,
          accepted, handled, handledAtStop>>

LoopPcs == {"test", "lock", "predicate", "block", "asleep", "woken", "swap",
            "drain", "dispatch", "handling", "ended"}

Init ==
  /\ queue = <<>>
  /\ batch = <<>>
  /\ shuttingDown = FALSE
  /\ mutex = None
  /\ loopPc = "test"
  /\ callPc = [t \in Threads |-> "idle"]
  /\ calls = [t \in Threads |-> 0]
  /\ accepted = <<>>
  /\ handled = <<>>
  /\ handledAtStop = 0

-----------------------------------------------------------------------------
(* enqueue() and shutdown(), called by thread t.                           *)

\* The loop thread makes calls only from inside the event handler.
MayCall(t) ==
  /\ callPc[t] = "idle"
  /\ calls[t] < MaxCalls
  /\ t = LoopThread => loopPc = "handling"

\* if (m_shuttingDown) return;
EnqueueTest(t) ==
  /\ MayCall(t)
  /\ calls' = [calls EXCEPT ![t] = @ + 1]
  /\ callPc' = [callPc EXCEPT ![t] = IF shuttingDown THEN "idle" ELSE "push"]
  /\ UNCHANGED <<queue, batch, shuttingDown, mutex, loopPc, accepted, handled,
                 handledAtStop>>

\* Mutations of EnqueuePush: no lock; a lock that is kept; no notification.
EnqueuePush_Unlocked(t) ==
  LET event == [from |-> t, num |-> calls[t]]
  IN  /\ callPc[t] = "push"
      /\ queue' = Append(queue, event)
      /\ accepted' = Append(accepted, event)
      /\ callPc' = [callPc EXCEPT ![t] = "notify"]
      /\ UNCHANGED <<batch, shuttingDown, mutex, loopPc, calls, handled,
                     handledAtStop>>

EnqueuePush_Silent(t) ==
  LET event == [from |-> t, num |-> calls[t]]
  IN  /\ callPc[t] = "push"
      /\ mutex = None
      /\ queue' = Append(queue, event)
      /\ accepted' = Append(accepted, event)
      /\ callPc' = [callPc EXCEPT ![t] = "idle"]
      /\ UNCHANGED <<batch, shuttingDown, mutex, loopPc, calls, handled,
                     handledAtStop>>

\* { lock_guard lock{m_mutex}; m_queue.push(event); }
EnqueuePush(t) ==
  LET event == [from |-> t, num |-> calls[t]]
  IN  /\ callPc[t] = "push"
      /\ mutex = None
      /\ queue' = Append(queue, event)
      /\ accepted' = Append(accepted, event)
      /\ callPc' = [callPc EXCEPT ![t] = "notify"]
      /\ UNCHANGED <<batch, shuttingDown, mutex, loopPc, calls, handled,
                     handledAtStop>>

\* m_cv.notify_one(): wakes the loop if it sleeps, else it is forgotten.
NotifyOne(t) ==
  /\ callPc[t] = "notify"
  /\ callPc' = [callPc EXCEPT ![t] = "idle"]
  /\ loopPc' = IF loopPc = "asleep" THEN "woken" ELSE loopPc
  /\ UNCHANGED <<queue, batch, shuttingDown, mutex, calls, accepted, handled,
                 handledAtStop>>

\* m_shuttingDown = true, without m_mutex; the notification follows.
ShutdownRequest(t) ==
  /\ t \in Stoppers
  /\ MayCall(t)
  /\ calls' = [calls EXCEPT ![t] = @ + 1]
  /\ shuttingDown' = TRUE
  /\ handledAtStop' = IF shuttingDown THEN handledAtStop ELSE Len(handled)
  /\ callPc' = [callPc EXCEPT ![t] = "notify"]
  /\ UNCHANGED <<queue, batch, mutex, loopPc, accepted, handled>>

-----------------------------------------------------------------------------
(* loop().                                                                 *)

Goto(from, to) ==
  /\ loopPc = from
  /\ loopPc' = to

\* while (!m_shuttingDown)
LoopTest ==
  /\ Goto("test", IF shuttingDown THEN "ended" ELSE "lock")
  /\ UNCHANGED <<queue, batch, shuttingDown, mutex, callPc, calls, accepted,
                 handled, handledAtStop>>

\* unique_lock lock{m_mutex}, and the relocking of a woken wait()
LoopLock ==
  /\ mutex = None
  /\ Goto("lock", "predicate") \/ Goto("woken", "predicate")
  /\ mutex' = LoopThread
  /\ UNCHANGED <<queue, batch, shuttingDown, callPc, calls, accepted, handled,
                 handledAtStop>>

\* Mutation of LoopPredicate: the wait does not look at m_shuttingDown.
LoopPredicate_QueueOnly ==
  /\ Goto("predicate", IF queue # <<>> THEN "swap" ELSE "block")
  /\ UNCHANGED <<queue, batch, shuttingDown, mutex, callPc, calls, accepted,
                 handled, handledAtStop>>

\* m_shuttingDown || !m_queue.empty()
LoopPredicate ==
  /\ Goto("predicate",
          IF shuttingDown \/ queue # <<>> THEN "swap" ELSE "block")
  /\ UNCHANGED <<queue, batch, shuttingDown, mutex, callPc, calls, accepted,
                 handled, handledAtStop>>

\* wait() releases the mutex and sleeps in one step.
LoopBlock ==
  /\ Goto("block", "asleep")
  /\ mutex' = None
  /\ UNCHANGED <<queue, batch, shuttingDown, callPc, calls, accepted, handled,
                 handledAtStop>>

\* A condition variable may wake without a notification.
SpuriousWakeup ==
  /\ Goto("asleep", "woken")
  /\ UNCHANGED <<queue, batch, shuttingDown, mutex, callPc, calls, accepted,
                 handled, handledAtStop>>

\* swap(queue, m_queue); the lock ends with its scope.
LoopSwap ==
  /\ Goto("swap", "drain")
  /\ batch' = queue
  /\ queue' = batch
  /\ mutex' = None
  /\ UNCHANGED <<shuttingDown, callPc, calls, accepted, handled,
                 handledAtStop>>

\* Mutation of LoopDrain: the batch is finished whatever m_shuttingDown says.
LoopDrain_WholeBatch ==
  /\ Goto("drain", IF batch # <<>> THEN "dispatch" ELSE "test")
  /\ UNCHANGED <<queue, batch, shuttingDown, mutex, callPc, calls, accepted,
                 handled, handledAtStop>>

\* while (!m_shuttingDown && !queue.empty())
LoopDrain ==
  /\ Goto("drain",
          IF ~shuttingDown /\ batch # <<>> THEN "dispatch" ELSE "test")
  /\ UNCHANGED <<queue, batch, shuttingDown, mutex, callPc, calls, accepted,
                 handled, handledAtStop>>

\* m_eventHandler(std::move(queue.front()))
LoopDispatch ==
  /\ Goto("dispatch", "handling")
  /\ handled' = Append(handled, Head(batch))
  /\ UNCHANGED <<queue, batch, shuttingDown, mutex, callPc, calls, accepted,
                 handledAtStop>>

\* queue.pop(), once the handler has returned
LoopPop ==
  /\ callPc[LoopThread] = "idle"
  /\ Goto("handling", "drain")
  /\ batch' = Tail(batch)
  /\ UNCHANGED <<queue, shuttingDown, mutex, callPc, calls, accepted, handled,
                 handledAtStop>>

LoopStep ==
  \/ LoopTest
  \/ LoopLock
  \/ LoopPredicate
  \/ LoopBlock
  \/ LoopSwap
  \/ LoopDrain
  \/ LoopDispatch
  \/ LoopPop

Next ==
  \/ LoopStep
  \/ SpuriousWakeup
  \/ \E t \in Threads : \/ EnqueueTest(t)
                        \/ EnqueuePush(t)
                        \/ NotifyOne(t)
                        \/ ShutdownRequest(t)

(***************************************************************************)
(* Every thread inside a call keeps running, and so does the loop.  Nobody *)
(* has to send, to ask for a shutdown, or to be woken for no reason.       *)
(***************************************************************************)
Fairness ==
  /\ WF_vars(LoopStep)
  /\ \A t \in Threads : WF_vars(EnqueuePush(t) \/ NotifyOne(t))

SafeSpec == Init /\ [][Next]_vars

Spec == SafeSpec /\ Fairness
-----------------------------------------------------------------------------
(* Properties.                                                             *)

TypeOK ==
  /\ queue \in Seq(Events)
  /\ batch \in Seq(Events)
  /\ shuttingDown \in BOOLEAN
  /\ mutex \in {None, LoopThread}
  /\ loopPc \in LoopPcs
  /\ callPc \in [Threads -> {"idle", "push", "notify"}]
  /\ calls \in [Threads -> 0 .. MaxCalls]
  /\ accepted \in Seq(Events)
  /\ handled \in Seq(Events)
  /\ handledAtStop \in Nat

\* What the loop has taken out of m_queue and not yet given to the handler.
Undelivered == IF loopPc = "handling" THEN Tail(batch) ELSE batch

(***************************************************************************)
(* No event is lost, duplicated or reordered between enqueue() and the     *)
(* handler, through the swap of the two queues (l. 49), a handler that     *)
(* enqueues, and a shutdown in the middle of a batch (l. 52-55).           *)
(***************************************************************************)
FifoDelivery == accepted = handled \o Undelivered \o queue

(***************************************************************************)
(* The loop never sleeps (l. 47) on an event whose notification was spent  *)
(* before it fell asleep: some thread is still about to notify it (l. 36). *)
(***************************************************************************)
NoLostEventWakeup ==
  loopPc = "asleep" /\ queue # <<>> => \E t \in Threads : callPc[t] = "notify"

(***************************************************************************)
(* Once shutdown() has set its flag (l. 24) the handler is entered at most *)
(* once more: a batch in progress (l. 52) is abandoned, not finished.      *)
(***************************************************************************)
AtMostOneLateEvent == shuttingDown => Len(handled) <= handledAtStop + 1

(***************************************************************************)
(* An accepted event is handled unless the loop is told to stop.           *)
(***************************************************************************)
AcceptedIsHandled ==
  \A n \in 1 .. MaxCalls * Cardinality(Threads) :
    Len(accepted) >= n ~> Len(handled) >= n \/ shuttingDown

(***************************************************************************)
(* A requested shutdown ends the loop (l. 45) unless it fell between the   *)
(* test of the wait's predicate and the sleep, where the notification of   *)
(* l. 25 finds nobody; a sleeping loop needs a notification on its way.    *)
(***************************************************************************)
StopIsNoticed ==
  \/ loopPc \notin {"block", "asleep"}
  \/ loopPc = "asleep" /\ \E t \in Threads : callPc[t] = "notify"

ShutdownEndsLoop == (shuttingDown /\ StopIsNoticed) ~> (loopPc = "ended")

(***************************************************************************)
(* The loop implements the channel the rest of the program is written for. *)
(***************************************************************************)
ChannelPhase ==
  IF ~shuttingDown THEN "open"
  ELSE IF Len(handled) = handledAtStop THEN "closing"
  ELSE "closed"

Channel == INSTANCE EventChannel
             WITH delivered <- handled, phase <- ChannelPhase

ImplementsChannel == Channel!Spec
=============================================================================
