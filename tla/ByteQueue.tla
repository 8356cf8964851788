----------------------------- MODULE ByteQueue ------------------------------
(***************************************************************************)
(* What the users of DataBuffer rely on: a queue of bytes with a capacity  *)
(* that grows on demand up to a maximum.  A push of too much is refused    *)
(* and changes nothing; what is pulled is what was pushed, in order.       *)
(***************************************************************************)
EXTENDS Naturals, Sequences

CONSTANTS
  Bytes,        \* the values of a byte
  InitialSize,  \* the capacity at first
  MaxSize,      \* the capacity at most
  MaxChunk      \* bound: bytes in one call

VARIABLES
  queue,     \* the bytes held
  capacity,  \* how many it may hold before it has to grow
  ret        \* what the last call did: its status and the bytes it moved

vars == <<queue, capacity, ret>>

Chunks == UNION {[1 .. n -> Bytes] : n \in 0 .. MaxChunk}

Result(status, data) == [status |-> status, data |-> data]

Fits(n) == Len(queue) + n <= capacity

Init ==
  /\ queue = <<>>
  /\ capacity = InitialSize
  /\ ret = Result("done", <<>>)

Refuse(status) ==
  /\ ret' = Result(status, <<>>)
  /\ UNCHANGED <<queue, capacity>>

\* All or nothing, within the capacity.
PushExact(data) ==
  \/ /\ Fits(Len(data))
     /\ queue' = queue \o data
     /\ ret' = Result("done", data)
     /\ UNCHANGED capacity
  \/ ~Fits(Len(data)) /\ Refuse("refused")

\* The capacity grows if it must, as far as it may.
PushForce(data) ==
  \/ /\ Fits(Len(data)) \/ Len(queue) + Len(data) <= MaxSize
     /\ queue' = queue \o data
     /\ capacity' = IF Fits(Len(data)) THEN capacity ELSE Len(queue) + Len(data)
     /\ ret' = Result("done", data)
  \/ /\ ~Fits(Len(data))
     /\ Len(queue) + Len(data) > MaxSize
     /\ Refuse("thrown")

\* As much as fits.
PushSome(data) ==
  LET n == IF Fits(Len(data)) THEN Len(data) ELSE capacity - Len(queue) IN
  /\ queue' = queue \o SubSeq(data, 1, n)
  /\ ret' = Result("done", SubSeq(data, 1, n))
  /\ UNCHANGED capacity

\* The newest bytes are replaced, if there is room for as many again; the
\* queue may also decline although there is.
OverwriteTail(data) ==
  \/ /\ Len(data) <= Len(queue)
     /\ Fits(Len(data))
     /\ queue' = SubSeq(queue, 1, Len(queue) - Len(data)) \o data
     /\ ret' = Result("done", data)
     /\ UNCHANGED capacity
  \/ Refuse("refused")

\* The n oldest bytes leave the queue.
Take(n) ==
  /\ queue' = SubSeq(queue, n + 1, Len(queue))
  /\ ret' = Result("done", SubSeq(queue, 1, n))
  /\ UNCHANGED capacity

PullSome(max) == Take(IF max < Len(queue) THEN max ELSE Len(queue))

PullExact(n) ==
  \/ n <= Len(queue) /\ Take(n)
  \/ (n > Len(queue) \/ queue = <<>>) /\ Refuse("refused")

Clear ==
  /\ queue' = <<>>
  /\ ret' = Result("done", <<>>)
  /\ UNCHANGED capacity

Next ==
  \/ \E data \in Chunks :
       PushExact(data) \/ PushForce(data) \/ PushSome(data) \/ OverwriteTail(data)
  \/ \E n \in 0 .. MaxChunk : PullSome(n) \/ PullExact(n)
  \/ Clear

Spec == Init /\ [][Next]_vars
=============================================================================
