----------------------------- MODULE DataBuffer -----------------------------
(***************************************************************************)
(* DataBuffer: the bytes held are those between m_head and m_tail of a     *)
(* vector.  A vector is a sequence here, so that its byte of index i is    *)
(* buf[i + 1].  One action per member function; each caller holds a lock,  *)
(* so that calls do not overlap.                                           *)
(***************************************************************************)
EXTENDS Naturals, Sequences

CONSTANTS
  Bytes,        \* the values of a byte
  Null,         \* the byte 0
  InitialSize,  \* the length of the vector at first
  MaxSize,      \* m_maxBufSize
  MaxChunk      \* bound: bytes in one call

ASSUME DataBufferAssumption ==
  /\ Null \in Bytes
  /\ InitialSize \in Nat
  /\ MaxSize \in Nat
  /\ InitialSize <= MaxSize
  /\ MaxChunk \in Nat

VARIABLES
  buf,   \* m_buf
  head,  \* m_head
  tail,  \* m_tail
  ret    \* what the last call did: its status and the bytes it moved

vars == <<buf, head, tail, ret>>

Chunks == UNION {[1 .. n -> Bytes] : n \in 0 .. MaxChunk}

Result(status, data) == [status |-> status, data |-> data]

Min2(a, b) == IF a < b THEN a ELSE b

Empty == tail = 0
Size == tail - head

\* the bytes [from, to) of the vector
Slice(from, to) == [i \in 1 .. (to - from) |-> buf[from + i]]

\* what the buffer holds
Held == Slice(head, tail)

\* memcpy to the byte of index at
Write(b, at, data) ==
  [i \in 1 .. Len(b) |->
     IF at < i /\ i <= at + Len(data) THEN data[i - at] ELSE b[i]]

Init ==
  /\ buf = [i \in 1 .. InitialSize |-> Null]
  /\ head = 0
  /\ tail = 0
  /\ ret = Result("done", <<>>)

\* optimize(): what is held moves to the front of the vector.
Moved == [i \in 1 .. Len(buf) |-> IF i <= Size THEN buf[head + i] ELSE buf[i]]

\* variant: the end is not moved with the bytes
MakeRoom_KeepsTail(n) ==
  IF Len(buf) - tail < n /\ head # 0 /\ ~Empty
  THEN [buf |-> Moved, head |-> 0, tail |-> tail]
  ELSE [buf |-> buf, head |-> head, tail |-> tail]

\* The buffer when it has looked for room for n bytes.
MakeRoom(n) ==
  IF Len(buf) - tail < n /\ head # 0 /\ ~Empty
  THEN [buf |-> Moved, head |-> 0, tail |-> Size]
  ELSE [buf |-> buf, head |-> head, tail |-> tail]

\* hasFreeSpace()
FreeSpace(b) == Len(b.buf) - b.tail

\* resize(): new bytes are 0
Grown(b, n) ==
  [i \in 1 .. (b.tail + n) |-> IF i <= Len(b.buf) THEN b.buf[i] ELSE Null]

Store(b, base, data) ==
  /\ buf' = Write(base, b.tail, data)
  /\ head' = b.head
  /\ tail' = b.tail + Len(data)
  /\ ret' = Result("done", data)

Refuse(b, status) ==
  /\ buf' = b.buf
  /\ head' = b.head
  /\ tail' = b.tail
  /\ ret' = Result(status, <<>>)

\* pushExact(), pushNullExact()
PushExact(data) ==
  LET b == MakeRoom(Len(data)) IN
  \/ FreeSpace(b) >= Len(data) /\ Store(b, b.buf, data)
  \/ FreeSpace(b) < Len(data) /\ Refuse(b, "refused")

\* pushExactForce(), pushNullExactForce()
PushForce(data) ==
  LET b == MakeRoom(Len(data)) IN
  \/ FreeSpace(b) >= Len(data) /\ Store(b, b.buf, data)
  \/ /\ FreeSpace(b) < Len(data)
     /\ b.tail + Len(data) <= MaxSize
     /\ Store(b, Grown(b, Len(data)), data)
  \/ /\ FreeSpace(b) < Len(data)
     /\ b.tail + Len(data) > MaxSize
     /\ Refuse(b, "thrown")

\* push(): nothing if the buffer is full, else as much as fits
PushSome(data) ==
  LET b == MakeRoom(Len(data))
  IN  Store(b, b.buf, SubSeq(data, 1, Min2(Len(data), FreeSpace(b))))

\* pushOverwriteTail(): its caller has made sure that there is enough to
\* overwrite.
OverwriteTail(data) ==
  /\ Size >= Len(data)
  /\ \/ /\ Len(buf) - tail >= Len(data)
        /\ buf' = Write(buf, tail - Len(data), data)
        /\ ret' = Result("done", data)
        /\ UNCHANGED <<head, tail>>
     \/ /\ Len(buf) - tail < Len(data)
        /\ ret' = Result("refused", <<>>)
        /\ UNCHANGED <<buf, head, tail>>

\* n bytes leave at the front; the last ones set the buffer back.
Consume(n) ==
  /\ head' = IF n = Size THEN 0 ELSE head + n
  /\ tail' = IF n = Size THEN 0 ELSE tail
  /\ UNCHANGED buf

\* pull(), and discard(), which does not read what it takes
PullSome(max) ==
  /\ ret' = Result("done", Slice(head, head + Min2(max, Size)))
  /\ Consume(Min2(max, Size))

\* pullExact()
PullExact(n) ==
  \/ /\ ~Empty /\ Size >= n
     /\ ret' = Result("done", Slice(head, head + n))
     /\ Consume(n)
  \/ /\ Empty \/ Size < n
     /\ ret' = Result("refused", <<>>)
     /\ UNCHANGED <<buf, head, tail>>

\* discardExact(), for which an empty buffer has 0 bytes to discard
DiscardExact(n) ==
  \/ /\ Size >= n
     /\ ret' = Result("done", Slice(head, head + n))
     /\ Consume(n)
  \/ /\ Size < n
     /\ ret' = Result("refused", <<>>)
     /\ UNCHANGED <<buf, head, tail>>

\* clear()
Clear ==
  /\ head' = 0
  /\ tail' = 0
  /\ ret' = Result("done", <<>>)
  /\ UNCHANGED buf

Next ==
  \/ \E data \in Chunks :
       PushExact(data) \/ PushForce(data) \/ PushSome(data) \/ OverwriteTail(data)
  \/ \E n \in 0 .. MaxChunk : PullSome(n) \/ PullExact(n) \/ DiscardExact(n)
  \/ Clear

Spec == Init /\ [][Next]_vars

-----------------------------------------------------------------------------

\* The vector never outgrows the maximum and both ends stay inside it: no
\* memcpy of the code reads or writes outside.
TypeOK ==
  /\ buf \in Seq(Bytes)
  /\ Len(buf) >= InitialSize
  /\ Len(buf) <= MaxSize
  /\ head \in Nat
  /\ tail \in 0 .. Len(buf)
  /\ head <= tail
  /\ ret.status \in {"done", "refused", "thrown"}
  /\ ret.data \in Seq(Bytes)

\* empty() looks at m_tail alone: that is right because no call leaves an empty
\* range in the middle of the vector.
EmptyIsAtFront == head = tail => tail = 0

\* The indices amount to a queue: pushes are refused only when there is really
\* no room, nothing held is lost, altered or reordered when it moves or the
\* vector grows, and what is pulled is the oldest.
Queue == INSTANCE ByteQueue WITH queue <- Held, capacity <- Len(buf)
ImplementsQueue == Queue!Spec
=============================================================================
