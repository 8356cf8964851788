---------------------------- MODULE EventChannel ----------------------------
(***************************************************************************)
(* What Kamkast relies on when it calls enqueueEvent and shutdown: events  *)
(* reach the handler once each, in the order in which they were accepted,  *)
(* and once a shutdown is requested the handler runs at most one time more *)
(* (a call that was already on its way).                                   *)
(***************************************************************************)
EXTENDS Naturals, Sequences

CONSTANT Events

VARIABLES
  accepted,   \* the events taken by enqueue, in order
  delivered,  \* the events given to the handler, in order
  phase       \* "open", "closing" (shutdown requested) or "closed"

vars == <<accepted, delivered, phase>>

Init ==
  /\ accepted = <<>>
  /\ delivered = <<>>
  /\ phase = "open"

\* A sender that found the channel open may still add its event later.
Accept(e) ==
  /\ accepted' = Append(accepted, e)
  /\ UNCHANGED <<delivered, phase>>

NextDelivered ==
  /\ Len(delivered) < Len(accepted)
  /\ delivered' = Append(delivered, accepted[Len(delivered) + 1])
  /\ UNCHANGED accepted

Deliver ==
  /\ phase = "open"
  /\ NextDelivered
  /\ UNCHANGED phase

LastDelivery ==
  /\ phase = "closing"
  /\ NextDelivered
  /\ phase' = "closed"

Close ==
  /\ phase = "open"
  /\ phase' = "closing"
  /\ UNCHANGED <<accepted, delivered>>

Next ==
  \/ \E e \in Events : Accept(e)
  \/ Deliver
  \/ LastDelivery
  \/ Close

Spec == Init /\ [][Next]_vars
=============================================================================
