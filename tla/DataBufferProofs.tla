-------------------------- MODULE DataBufferProofs --------------------------
(***************************************************************************)
(* The indices of DataBuffer stay inside the vector and amount to a queue. *)
(***************************************************************************)
EXTENDS DataBuffer, SequenceTheorems, TLAPS

\* A state of the buffer: what TypeOK and EmptyIsAtFront say of the variables,
\* as a predicate of the record MakeRoom gives.
Sound(b) ==
  /\ b.buf \in Seq(Bytes)
  /\ Len(b.buf) >= InitialSize
  /\ Len(b.buf) <= MaxSize
  /\ b.head \in Nat
  /\ b.tail \in Nat
  /\ b.head <= b.tail
  /\ b.tail <= Len(b.buf)
  /\ b.head = b.tail => b.tail = 0

\* The inductive invariant.
Inv == TypeOK /\ EmptyIsAtFront

\* A chunk is a sequence of bytes.
LEMMA ChunkIsSeq == \A data \in Chunks : data \in Seq(Bytes)
  BY DEF Chunks

\* A sequence given by a function of its positions.
LEMMA MadeSeq ==
  ASSUME NEW S, NEW n \in Nat, NEW f, f \in [1 .. n -> S]
  PROVE  f \in Seq(S) /\ Len(f) = n
  OBVIOUS

\* Looking for room moves bytes but leaves the state sound.
LEMMA MakeRoomSound ==
  ASSUME Inv, NEW n \in Nat
  PROVE  Sound(MakeRoom(n))
<1>1. Moved \in Seq(Bytes) /\ Len(Moved) = Len(buf)
  BY MadeSeq, Len(buf) \in Nat DEF Moved, Inv, TypeOK, Size
<1> QED
  BY <1>1 DEF Inv, TypeOK, EmptyIsAtFront, Sound, MakeRoom, Size, Empty

\* memcpy writes bytes over bytes.
LEMMA WriteIsSeq ==
  ASSUME NEW b \in Seq(Bytes), NEW at \in Nat, NEW data \in Seq(Bytes)
  PROVE  Write(b, at, data) \in Seq(Bytes) /\ Len(Write(b, at, data)) = Len(b)
<1>1. \A i \in 1 .. Len(b) : (at < i /\ i <= at + Len(data)) => data[i - at] \in Bytes
  OBVIOUS
<1>2. Write(b, at, data) \in [1 .. Len(b) -> Bytes]
  BY <1>1 DEF Write
<1> QED
  BY <1>2, MadeSeq

\* Storing in a vector that is long enough gives a sound state.
LEMMA StoreSound ==
  ASSUME NEW b, Sound(b), NEW base \in Seq(Bytes), NEW data \in Seq(Bytes),
         b.tail + Len(data) <= Len(base), InitialSize <= Len(base),
         Len(base) <= MaxSize, Store(b, base, data)
  PROVE  Inv'
<1>1. buf' \in Seq(Bytes) /\ Len(buf') = Len(base)
  BY WriteIsSeq DEF Store, Sound
<1>2. head' = b.head /\ tail' = b.tail + Len(data) /\ ret' = Result("done", data)
  BY DEF Store
<1>3. Len(data) \in Nat
  OBVIOUS
<1> QED
  BY <1>1, <1>2, <1>3 DEF Inv, TypeOK, EmptyIsAtFront, Sound, Result

\* Refusing keeps the state that was reached, which is sound.
LEMMA RefuseSound ==
  ASSUME NEW b, Sound(b), NEW status \in {"refused", "thrown"}, Refuse(b, status)
  PROVE  Inv'
BY DEF Refuse, Inv, TypeOK, EmptyIsAtFront, Sound, Result

\* A vector grows to what is needed and keeps its bytes.
LEMMA GrownIsSeq ==
  ASSUME NEW b, Sound(b), NEW n \in Nat
  PROVE  Grown(b, n) \in Seq(Bytes) /\ Len(Grown(b, n)) = b.tail + n
<1>1. Grown(b, n) \in [1 .. (b.tail + n) -> Bytes]
  BY DataBufferAssumption DEF Grown, Sound
<1> QED
  BY <1>1, MadeSeq, b.tail + n \in Nat DEF Sound

\* The bytes of a range of the vector.
LEMMA SliceIsSeq ==
  ASSUME Inv, NEW from \in Nat, NEW to \in Nat, from <= to, to <= tail
  PROVE  Slice(from, to) \in Seq(Bytes) /\ Len(Slice(from, to)) = to - from
<1>1. to - from \in Nat
  OBVIOUS
<1>2. Slice(from, to) \in [1 .. (to - from) -> Bytes]
  BY DEF Slice, Inv, TypeOK
<1> QED
  BY <1>1, <1>2, MadeSeq

\* Bytes that leave keep the state sound: the last ones set it back.
LEMMA ConsumeSound ==
  ASSUME Inv, NEW n \in Nat, n <= Size, Consume(n),
         ret' = Result("done", Slice(head, head + n))
  PROVE  Inv'
<1>1. Slice(head, head + n) \in Seq(Bytes)
  BY SliceIsSeq DEF Inv, TypeOK, Size
<1>2. CASE n = Size
  BY <1>1, <1>2 DEF Consume, Inv, TypeOK, EmptyIsAtFront, Result, Size
<1>3. CASE n # Size
  BY <1>1, <1>3 DEF Consume, Inv, TypeOK, EmptyIsAtFront, Result, Size
<1> QED
  BY <1>2, <1>3

\* A prefix of a chunk is a chunk.
LEMMA PrefixIsSeq ==
  ASSUME NEW data \in Seq(Bytes), NEW n \in Nat, n <= Len(data)
  PROVE  SubSeq(data, 1, n) \in Seq(Bytes) /\ Len(SubSeq(data, 1, n)) = n
OBVIOUS

\* Initially the vector is empty and sound.
LEMMA InitSound == Init => Inv
<1> SUFFICES ASSUME Init PROVE Inv
  OBVIOUS
<1>1. buf \in Seq(Bytes) /\ Len(buf) = InitialSize
  BY MadeSeq, DataBufferAssumption DEF Init
<1> QED
  BY <1>1, DataBufferAssumption DEF Init, Inv, TypeOK, EmptyIsAtFront, Result

\* Every call keeps the state sound.
LEMMA NextSound == Inv /\ [Next]_vars => Inv'
<1> SUFFICES ASSUME Inv, [Next]_vars PROVE Inv'
  OBVIOUS
<1> USE DataBufferAssumption
<1>1. ASSUME NEW data \in Chunks, PushExact(data) PROVE Inv'
  <2> DEFINE b == MakeRoom(Len(data))
  <2>1. data \in Seq(Bytes) /\ Len(data) \in Nat
    BY ChunkIsSeq
  <2>2. Sound(b)
    BY <2>1, MakeRoomSound
  <2>3. CASE FreeSpace(b) >= Len(data) /\ Store(b, b.buf, data)
    <3>1. b.tail + Len(data) <= Len(b.buf)
      BY <2>1, <2>2, <2>3 DEF FreeSpace, Sound
    <3> HIDE DEF b
    <3> QED
      BY <3>1, <2>1, <2>2, <2>3, StoreSound DEF Sound
  <2>4. CASE Refuse(b, "refused")
    BY <2>2, <2>4, RefuseSound
  <2> QED
    BY <1>1, <2>3, <2>4 DEF PushExact
<1>2. ASSUME NEW data \in Chunks, PushForce(data) PROVE Inv'
  <2> DEFINE b == MakeRoom(Len(data))
  <2>1. data \in Seq(Bytes) /\ Len(data) \in Nat
    BY ChunkIsSeq
  <2>2. Sound(b)
    BY <2>1, MakeRoomSound
  <2>3. CASE FreeSpace(b) >= Len(data) /\ Store(b, b.buf, data)
    <3>1. b.tail + Len(data) <= Len(b.buf)
      BY <2>1, <2>2, <2>3 DEF FreeSpace, Sound
    <3> HIDE DEF b
    <3> QED
      BY <3>1, <2>1, <2>2, <2>3, StoreSound DEF Sound
  <2>4. CASE /\ FreeSpace(b) < Len(data)
             /\ b.tail + Len(data) <= MaxSize
             /\ Store(b, Grown(b, Len(data)), data)
    <3> HIDE DEF b
    <3>1. /\ Grown(b, Len(data)) \in Seq(Bytes)
          /\ Len(Grown(b, Len(data))) = b.tail + Len(data)
      BY <2>1, <2>2, GrownIsSeq
    <3>2. InitialSize <= b.tail + Len(data)
      BY <2>1, <2>2, <2>4 DEF FreeSpace, Sound
    <3> QED
      BY <3>1, <3>2, <2>1, <2>2, <2>4, StoreSound DEF Sound
  <2>5. CASE Refuse(b, "thrown")
    BY <2>2, <2>5, RefuseSound
  <2> QED
    BY <1>2, <2>3, <2>4, <2>5 DEF PushForce
<1>3. ASSUME NEW data \in Chunks, PushSome(data) PROVE Inv'
  <2> DEFINE b == MakeRoom(Len(data))
             n == Min2(Len(data), FreeSpace(b))
  <2>1. data \in Seq(Bytes) /\ Len(data) \in Nat
    BY ChunkIsSeq
  <2>2. Sound(b)
    BY <2>1, MakeRoomSound
  <2>3. Store(b, b.buf, SubSeq(data, 1, n))
    BY <1>3 DEF PushSome
  <2> HIDE DEF b
  <2>4. n \in Nat /\ n <= Len(data) /\ b.tail + n <= Len(b.buf)
    BY <2>1, <2>2 DEF Sound, FreeSpace, Min2
  <2> HIDE DEF n
  <2>5. SubSeq(data, 1, n) \in Seq(Bytes) /\ Len(SubSeq(data, 1, n)) = n
    BY <2>1, <2>4, PrefixIsSeq
  <2> QED
    BY <2>2, <2>3, <2>4, <2>5, StoreSound DEF Sound
<1>4. ASSUME NEW data \in Chunks, OverwriteTail(data) PROVE Inv'
  <2>1. data \in Seq(Bytes) /\ Len(data) \in Nat
    BY ChunkIsSeq
  <2>2. CASE /\ buf' = Write(buf, tail - Len(data), data)
             /\ ret' = Result("done", data)
             /\ UNCHANGED <<head, tail>>
    <3>1. tail - Len(data) \in Nat
      BY <1>4, <2>1 DEF OverwriteTail, Inv, TypeOK, Size
    <3>2. buf' \in Seq(Bytes) /\ Len(buf') = Len(buf)
      BY <2>1, <2>2, <3>1, WriteIsSeq DEF Inv, TypeOK
    <3> QED
      BY <2>1, <2>2, <3>2 DEF Inv, TypeOK, EmptyIsAtFront, Result
  <2>3. CASE ret' = Result("refused", <<>>) /\ UNCHANGED <<buf, head, tail>>
    BY <2>3 DEF Inv, TypeOK, EmptyIsAtFront, Result
  <2> QED
    BY <1>4, <2>2, <2>3 DEF OverwriteTail
<1>5. ASSUME NEW n \in 0 .. MaxChunk, PullSome(n) PROVE Inv'
  <2>1. Min2(n, Size) \in Nat /\ Min2(n, Size) <= Size
    BY DEF Min2, Size, Inv, TypeOK
  <2> QED
    BY <1>5, <2>1, ConsumeSound DEF PullSome
<1>6. ASSUME NEW n \in 0 .. MaxChunk, PullExact(n) \/ DiscardExact(n) PROVE Inv'
  <2>1. CASE ret' = Result("refused", <<>>) /\ UNCHANGED <<buf, head, tail>>
    BY <2>1 DEF Inv, TypeOK, EmptyIsAtFront, Result
  <2>2. CASE /\ Size >= n
             /\ ret' = Result("done", Slice(head, head + n))
             /\ Consume(n)
    <3>1. n \in Nat /\ n <= Size
      BY <2>2 DEF Size, Inv, TypeOK
    <3> QED
      BY <2>2, <3>1, ConsumeSound
  <2> QED
    BY <1>6, <2>1, <2>2 DEF PullExact, DiscardExact
<1>7. CASE Clear
  BY <1>7 DEF Clear, Inv, TypeOK, EmptyIsAtFront, Result
<1>8. CASE UNCHANGED vars
  BY <1>8 DEF vars, Inv, TypeOK, EmptyIsAtFront
<1> QED
  BY <1>1, <1>2, <1>3, <1>4, <1>5, <1>6, <1>7, <1>8 DEF Next

\* No call of DataBuffer, with any size of vector and of chunks, reads or
\* writes outside the vector or lets it outgrow its maximum.
THEOREM DataBufferTypeOK == Spec => []TypeOK
<1>1. Inv => TypeOK
  BY DEF Inv
<1> QED
  BY <1>1, InitSound, NextSound, PTL DEF Spec

\* empty() may look at m_tail alone.
THEOREM DataBufferEmpty == Spec => []EmptyIsAtFront
<1>1. Inv => EmptyIsAtFront
  BY DEF Inv
<1> QED
  BY <1>1, InitSound, NextSound, PTL DEF Spec
-----------------------------------------------------------------------------

\* The bytes of a range of any vector.
Contents(v, h, t) == [i \in 1 .. (t - h) |-> v[h + i]]

\* They are a sequence.
LEMMA ContentsIsSeq ==
  ASSUME NEW v \in Seq(Bytes), NEW h \in Nat, NEW t \in Nat, h <= t, t <= Len(v)
  PROVE  /\ Contents(v, h, t) \in Seq(Bytes)
         /\ Len(Contents(v, h, t)) = t - h
         /\ \A i \in 1 .. (t - h) : Contents(v, h, t)[i] = v[h + i]
<1>1. t - h \in Nat
  OBVIOUS
<1>2. Contents(v, h, t) \in [1 .. (t - h) -> Bytes]
  BY DEF Contents
<1> QED
  BY <1>1, <1>2, MadeSeq DEF Contents

\* What the buffer holds, before and after a step.
LEMMA HeldIsContents ==
  /\ Held = Contents(buf, head, tail)
  /\ Held' = Contents(buf', head', tail')
BY DEF Held, Slice, Contents

\* What the buffer holds is a sequence of as many bytes as Size says.
LEMMA HeldIsSeq ==
  ASSUME Inv
  PROVE  /\ Held \in Seq(Bytes)
         /\ Size \in Nat
         /\ Len(Held) = Size
         /\ \A i \in 1 .. Size : Held[i] = buf[head + i]
<1>1. buf \in Seq(Bytes) /\ head \in Nat /\ tail \in Nat /\ head <= tail /\ tail <= Len(buf)
  BY DEF Inv, TypeOK
<1>2. /\ Contents(buf, head, tail) \in Seq(Bytes)
      /\ Len(Contents(buf, head, tail)) = tail - head
      /\ \A i \in 1 .. (tail - head) : Contents(buf, head, tail)[i] = buf[head + i]
  BY <1>1, ContentsIsSeq
<1> QED
  BY <1>1, <1>2, HeldIsContents DEF Size

\* The same after a step.
LEMMA HeldIsSeqNext ==
  ASSUME Inv'
  PROVE  /\ Held' \in Seq(Bytes)
         /\ Len(Held') = tail' - head'
         /\ \A i \in 1 .. (tail' - head') : Held'[i] = buf'[head' + i]
<1>1. /\ buf' \in Seq(Bytes) /\ head' \in Nat /\ tail' \in Nat
      /\ head' <= tail' /\ tail' <= Len(buf')
  BY DEF Inv, TypeOK
<1>2. /\ Contents(buf', head', tail') \in Seq(Bytes)
      /\ Len(Contents(buf', head', tail')) = tail' - head'
      /\ \A i \in 1 .. (tail' - head') : Contents(buf', head', tail')[i] = buf'[head' + i]
  BY <1>1, ContentsIsSeq
<1> QED
  BY <1>2, HeldIsContents

\* Looking for room loses no byte, and what is then free is what the queue has
\* free; when it does not suffice, the bytes are at the front.
LEMMA MakeRoomHolds ==
  ASSUME Inv, NEW n \in Nat
  PROVE  LET b == MakeRoom(n) IN
         /\ Len(b.buf) = Len(buf)
         /\ b.tail - b.head = Size
         /\ \A i \in 1 .. Size : b.buf[b.head + i] = buf[head + i]
         /\ FreeSpace(b) >= n <=> Size + n <= Len(buf)
         /\ FreeSpace(b) < n => b.tail = Size /\ FreeSpace(b) = Len(buf) - Size
<1>1. Moved \in Seq(Bytes) /\ Len(Moved) = Len(buf)
  BY MadeSeq, Len(buf) \in Nat DEF Moved, Inv, TypeOK, Size
<1>2. \A i \in 1 .. Size : Moved[i] = buf[head + i]
  BY DEF Moved, Inv, TypeOK, Size
<1>3. Size \in Nat /\ Size <= Len(buf)
  BY DEF Inv, TypeOK, Size
<1>4. CASE Len(buf) - tail < n /\ head # 0 /\ ~Empty
  <2>1. MakeRoom(n) = [buf |-> Moved, head |-> 0, tail |-> Size]
    BY <1>4 DEF MakeRoom
  <2> QED
    BY <1>1, <1>2, <1>3, <1>4, <2>1 DEF FreeSpace, Inv, TypeOK
<1>5. CASE ~(Len(buf) - tail < n /\ head # 0 /\ ~Empty)
  <2>1. MakeRoom(n) = [buf |-> buf, head |-> head, tail |-> tail]
    BY <1>5 DEF MakeRoom
  <2> QED
    BY <1>3, <1>5, <2>1 DEF FreeSpace, Inv, TypeOK, Empty, Size
<1> QED
  BY <1>4, <1>5

\* A sequence is the concatenation of two others when its elements are.
LEMMA IsConcat ==
  ASSUME NEW S, NEW s \in Seq(S), NEW t \in Seq(S), NEW r \in Seq(S),
         Len(r) = Len(s) + Len(t),
         \A i \in 1 .. Len(s) : r[i] = s[i],
         \A i \in 1 .. Len(t) : r[Len(s) + i] = t[i]
  PROVE  r = s \o t
<1>1. s \o t \in Seq(S) /\ Len(s \o t) = Len(s) + Len(t)
  OBVIOUS
<1>2. ASSUME NEW i \in 1 .. Len(r) PROVE r[i] = (s \o t)[i]
  <2>1. CASE i <= Len(s)
    BY <2>1
  <2>2. CASE i > Len(s)
    <3>1. i - Len(s) \in 1 .. Len(t)
      BY <2>2
    <3>2. r[Len(s) + (i - Len(s))] = t[i - Len(s)]
      BY <3>1
    <3> QED
      BY <2>2, <3>1, <3>2
  <2> QED
    BY <2>1, <2>2
<1> QED
  BY <1>1, <1>2, SeqEqual

\* What is stored comes after what is held.
LEMMA StoreAppends ==
  ASSUME Inv, NEW b, Sound(b), NEW base \in Seq(Bytes), NEW data \in Seq(Bytes),
         b.tail + Len(data) <= Len(base), InitialSize <= Len(base),
         Len(base) <= MaxSize, Store(b, base, data),
         b.tail - b.head = Size,
         \A i \in 1 .. Size : base[b.head + i] = buf[head + i]
  PROVE  Held' = Held \o data /\ Len(buf') = Len(base) /\ ret' = Result("done", data)
<1>1. Inv'
  BY StoreSound
<1>2. /\ buf' = Write(base, b.tail, data)
      /\ head' = b.head
      /\ tail' = b.tail + Len(data)
      /\ ret' = Result("done", data)
  BY DEF Store
<1>3. Len(buf') = Len(base)
  BY <1>2, WriteIsSeq DEF Sound
<1>4. /\ b.head \in Nat /\ b.tail \in Nat
      /\ Len(data) \in Nat
      /\ Size \in Nat
      /\ tail' - head' = Size + Len(data)
  BY <1>2, HeldIsSeq DEF Sound
<1>5. \A i \in 1 .. Size : Held'[i] = Held[i]
  <2> SUFFICES ASSUME NEW i \in 1 .. Size PROVE Held'[i] = Held[i]
    OBVIOUS
  <2>1. b.head + i \in 1 .. Len(base) /\ b.head + i <= b.tail
    BY <1>4
  <2>2. Write(base, b.tail, data)[b.head + i] = base[b.head + i]
    BY <2>1, <1>4 DEF Write
  <2>3. i \in 1 .. (tail' - head')
    BY <1>4
  <2>4. Held'[i] = buf'[head' + i]
    BY <1>1, <2>3, HeldIsSeqNext
  <2>5. Held[i] = buf[head + i]
    BY HeldIsSeq
  <2> QED
    BY <2>2, <2>4, <2>5, <1>2
<1>6. \A i \in 1 .. Len(data) : Held'[Size + i] = data[i]
  <2> SUFFICES ASSUME NEW i \in 1 .. Len(data) PROVE Held'[Size + i] = data[i]
    OBVIOUS
  <2>1. b.tail + i \in 1 .. Len(base) /\ b.tail + i > b.tail /\ (b.tail + i) - b.tail = i
    BY <1>4
  <2>2. Write(base, b.tail, data)[b.tail + i] = data[i]
    BY <2>1, <1>4 DEF Write
  <2>3. Size + i \in 1 .. (tail' - head')
    BY <1>4
  <2>4. Held'[Size + i] = buf'[head' + (Size + i)]
    BY <1>1, <2>3, HeldIsSeqNext
  <2>5. head' + (Size + i) = b.tail + i
    BY <1>2, <1>4
  <2> QED
    BY <2>2, <2>4, <2>5, <1>2
<1>7. Held' \in Seq(Bytes) /\ Len(Held') = Size + Len(data)
  BY <1>1, <1>4, HeldIsSeqNext
<1>8. Held' = Held \o data
  <2>1. Held \in Seq(Bytes) /\ Len(Held) = Size
    BY HeldIsSeq
  <2>2. /\ Len(Held') = Len(Held) + Len(data)
        /\ \A i \in 1 .. Len(Held) : Held'[i] = Held[i]
        /\ \A i \in 1 .. Len(data) : Held'[Len(Held) + i] = data[i]
    BY <2>1, <1>5, <1>6, <1>7
  <2> QED
    BY <2>1, <2>2, <1>7, IsConcat
<1> QED
  BY <1>2, <1>3, <1>8

\* A refused call leaves what is held, wherever it has moved.
LEMMA RefuseKeeps ==
  ASSUME Inv, NEW n \in Nat, NEW status \in {"refused", "thrown"},
         Refuse(MakeRoom(n), status)
  PROVE  Held' = Held /\ Len(buf') = Len(buf) /\ ret' = Result(status, <<>>)
<1> DEFINE b == MakeRoom(n)
<1>1. Sound(b) /\ Inv'
  BY MakeRoomSound, RefuseSound
<1>2. /\ Len(b.buf) = Len(buf)
      /\ b.tail - b.head = Size
      /\ \A i \in 1 .. Size : b.buf[b.head + i] = buf[head + i]
  BY MakeRoomHolds
<1>3. buf' = b.buf /\ head' = b.head /\ tail' = b.tail /\ ret' = Result(status, <<>>)
  BY DEF Refuse
<1> HIDE DEF b
<1>4. /\ Held' \in Seq(Bytes)
      /\ Len(Held') = Size
      /\ \A i \in 1 .. Size : Held'[i] = buf[head + i]
  BY <1>1, <1>2, <1>3, HeldIsSeqNext
<1>5. Held' = Held
  BY <1>4, HeldIsSeq, SeqEqual
<1> QED
  BY <1>2, <1>3, <1>5

\* What leaves is the front of what is held, and the rest stays.
LEMMA ConsumeTakes ==
  ASSUME Inv, NEW n \in Nat, n <= Size, Consume(n),
         ret' = Result("done", Slice(head, head + n))
  PROVE  /\ Held' = SubSeq(Held, n + 1, Len(Held))
         /\ ret' = Result("done", SubSeq(Held, 1, n))
         /\ Len(buf') = Len(buf)
<1>1. Inv'
  BY ConsumeSound
<1>2. /\ Held \in Seq(Bytes)
      /\ Size \in Nat
      /\ Len(Held) = Size
      /\ \A i \in 1 .. Size : Held[i] = buf[head + i]
  BY HeldIsSeq
<1>3. /\ head \in Nat /\ head + n \in Nat /\ head + n <= tail /\ buf' = buf
  BY DEF Inv, TypeOK, Size, Consume
<1>4. Slice(head, head + n) = SubSeq(Held, 1, n)
  <2>1. /\ Slice(head, head + n) \in Seq(Bytes)
        /\ Len(Slice(head, head + n)) = n
    BY <1>3, SliceIsSeq
  <2>2. /\ SubSeq(Held, 1, n) \in Seq(Bytes)
        /\ Len(SubSeq(Held, 1, n)) = n
        /\ \A i \in 1 .. n : SubSeq(Held, 1, n)[i] = Held[i]
    BY <1>2
  <2>3. \A i \in 1 .. n : Slice(head, head + n)[i] = buf[head + i]
    BY <1>3 DEF Slice
  <2>4. \A i \in 1 .. n : Slice(head, head + n)[i] = SubSeq(Held, 1, n)[i]
    BY <2>2, <2>3, <1>2
  <2> QED
    BY <2>1, <2>2, <2>4, SeqEqual
<1>5. /\ SubSeq(Held, n + 1, Len(Held)) \in Seq(Bytes)
      /\ Len(SubSeq(Held, n + 1, Len(Held))) = Size - n
      /\ \A i \in 1 .. (Size - n) : SubSeq(Held, n + 1, Len(Held))[i] = Held[n + i]
  BY <1>2
<1>6. /\ Held' \in Seq(Bytes)
      /\ Len(Held') = tail' - head'
      /\ \A i \in 1 .. (tail' - head') : Held'[i] = buf'[head' + i]
  BY <1>1, HeldIsSeqNext
<1>7. CASE n = Size
  <2>1. tail' - head' = 0
    BY <1>7 DEF Consume
  <2>2. Size - n = 0
    BY <1>7, <1>2
  <2>3. Held' = SubSeq(Held, n + 1, Len(Held))
    BY <2>1, <2>2, <1>5, <1>6, SeqEqual
  <2> QED
    BY <2>3, <1>3, <1>4
<1>8. CASE n # Size
  <2>1. head' = head + n /\ tail' = tail /\ tail' - head' = Size - n
    BY <1>3, <1>8 DEF Consume, Size, Inv, TypeOK
  <2>2. ASSUME NEW i \in 1 .. (Size - n)
        PROVE  Held'[i] = SubSeq(Held, n + 1, Len(Held))[i]
    <3>1. n + i \in 1 .. Size /\ (head + n) + i = head + (n + i)
      BY <1>2, <1>3
    <3>2. Held'[i] = buf[(head + n) + i]
      BY <2>1, <1>3, <1>6
    <3> QED
      BY <3>1, <3>2, <1>2, <1>5
  <2>3. Held' = SubSeq(Held, n + 1, Len(Held))
    BY <2>1, <2>2, <1>5, <1>6, SeqEqual
  <2> QED
    BY <2>3, <1>3, <1>4
<1> QED
  BY <1>7, <1>8

\* Bytes written over the newest ones replace them and no others.
LEMMA OverwriteReplaces ==
  ASSUME Inv, NEW data \in Seq(Bytes), Size >= Len(data), Inv',
         buf' = Write(buf, tail - Len(data), data), UNCHANGED <<head, tail>>
  PROVE  /\ Held' = SubSeq(Held, 1, Len(Held) - Len(data)) \o data
         /\ Len(buf') = Len(buf)
<1> DEFINE kept == Size - Len(data)
<1>1. /\ Held \in Seq(Bytes)
      /\ Size \in Nat
      /\ Len(Held) = Size
      /\ \A i \in 1 .. Size : Held[i] = buf[head + i]
  BY HeldIsSeq
<1>2. /\ head \in Nat /\ tail \in Nat /\ tail <= Len(buf) /\ tail = head + Size
      /\ Len(buf) \in Nat
      /\ buf \in Seq(Bytes)
  BY DEF Inv, TypeOK, Size
<1>3. Len(data) \in Nat /\ kept \in Nat /\ tail - Len(data) = head + kept
      /\ Size = kept + Len(data) /\ Size \in Nat
  BY <1>1, <1>2
<1>4. /\ Held' \in Seq(Bytes)
      /\ Len(Held') = Size
      /\ \A i \in 1 .. Size : Held'[i] = Write(buf, head + kept, data)[head + i]
  <2>1. head' = head /\ tail' = tail
    OBVIOUS
  <2>2. tail' - head' = Size
    BY <2>1 DEF Size
  <2>3. buf' = Write(buf, head + kept, data)
    BY <1>3
  <2> QED
    BY <2>1, <2>2, <2>3, HeldIsSeqNext
<1> HIDE DEF kept
<1>5. /\ SubSeq(Held, 1, kept) \in Seq(Bytes)
      /\ Len(SubSeq(Held, 1, kept)) = kept
      /\ \A i \in 1 .. kept : SubSeq(Held, 1, kept)[i] = Held[i]
  BY <1>1, <1>3
<1>6. \A i \in 1 .. kept : Held'[i] = SubSeq(Held, 1, kept)[i]
  <2> SUFFICES ASSUME NEW i \in 1 .. kept PROVE Held'[i] = SubSeq(Held, 1, kept)[i]
    OBVIOUS
  <2>1. i \in 1 .. Size /\ head + i \in 1 .. Len(buf) /\ head + i <= head + kept
    BY <1>2, <1>3
  <2>2. Write(buf, head + kept, data)[head + i] = buf[head + i]
    BY <2>1, <1>2, <1>3 DEF Write
  <2> QED
    BY <2>1, <2>2, <1>1, <1>4, <1>5
<1>7. \A i \in 1 .. Len(data) : Held'[kept + i] = data[i]
  <2> SUFFICES ASSUME NEW i \in 1 .. Len(data) PROVE Held'[kept + i] = data[i]
    OBVIOUS
  <2>1. /\ kept + i \in 1 .. Size
        /\ head + (kept + i) \in 1 .. Len(buf)
        /\ head + (kept + i) > head + kept
        /\ head + (kept + i) <= (head + kept) + Len(data)
        /\ (head + (kept + i)) - (head + kept) = i
    BY <1>1, <1>2, <1>3
  <2>2. Write(buf, head + kept, data)[head + (kept + i)] = data[i]
    BY <2>1, <1>2, <1>3 DEF Write
  <2> QED
    BY <2>1, <2>2, <1>4
<1>8. /\ Len(Held') = Len(SubSeq(Held, 1, kept)) + Len(data)
      /\ \A i \in 1 .. Len(SubSeq(Held, 1, kept)) : Held'[i] = SubSeq(Held, 1, kept)[i]
      /\ \A i \in 1 .. Len(data) : Held'[Len(SubSeq(Held, 1, kept)) + i] = data[i]
  BY <1>3, <1>4, <1>5, <1>6, <1>7
<1>9. Held' = SubSeq(Held, 1, kept) \o data
  BY <1>4, <1>5, <1>8, IsConcat
<1>10. Len(buf') = Len(buf)
  <2>1. /\ head + kept \in Nat
        /\ buf' = Write(buf, head + kept, data)
    BY <1>2, <1>3
  <2>2. Len(Write(buf, head + kept, data)) = Len(buf)
    BY <2>1, <1>2, WriteIsSeq
  <2> QED
    BY <2>1, <2>2
<1> QED
  BY <1>1, <1>9, <1>10 DEF kept

-----------------------------------------------------------------------------

\* The buffer is an empty queue at first.
LEMMA InitQueue == Init => Queue!Init
<1> SUFFICES ASSUME Init PROVE Queue!Init
  OBVIOUS
<1>1. Inv
  BY InitSound
<1>2. Held \in Seq(Bytes) /\ Len(Held) = 0
  BY <1>1, HeldIsSeq DEF Init, Size
<1>3. Len(buf) = InitialSize
  BY MadeSeq, DataBufferAssumption DEF Init
<1>4. Held = <<>>
  BY <1>2
<1> QED
  BY <1>3, <1>4 DEF Init, Queue!Init, Result, Queue!Result

\* Every call of the buffer is the call of the queue.
LEMMA NextQueue == Inv /\ [Next]_vars => [Queue!Next]_(Queue!vars)
<1> SUFFICES ASSUME Inv, [Next]_vars PROVE [Queue!Next]_(Queue!vars)
  OBVIOUS
<1>0. Inv'
  BY NextSound
<1>1. Len(Held) = Size /\ Size \in Nat /\ Len(buf) \in Nat
  BY HeldIsSeq DEF Inv, TypeOK
<1>2. ASSUME NEW data \in Chunks, PushExact(data) PROVE Queue!PushExact(data)
  <2> DEFINE b == MakeRoom(Len(data))
  <2>1. data \in Seq(Bytes) /\ Len(data) \in Nat
    BY ChunkIsSeq
  <2>2. /\ Sound(b)
        /\ Len(b.buf) = Len(buf)
        /\ b.tail - b.head = Size
        /\ \A i \in 1 .. Size : b.buf[b.head + i] = buf[head + i]
        /\ FreeSpace(b) >= Len(data) <=> Size + Len(data) <= Len(buf)
    BY <2>1, MakeRoomSound, MakeRoomHolds
  <2>3. CASE FreeSpace(b) >= Len(data) /\ Store(b, b.buf, data)
    <3> HIDE DEF b
    <3>1. /\ b.tail + Len(data) <= Len(b.buf)
          /\ b.buf \in Seq(Bytes)
          /\ InitialSize <= Len(b.buf)
          /\ Len(b.buf) <= MaxSize
      BY <2>1, <2>2, <2>3 DEF FreeSpace, Sound
    <3>2. Held' = Held \o data /\ Len(buf') = Len(buf) /\ ret' = Result("done", data)
      BY <3>1, <2>1, <2>2, <2>3, StoreAppends
    <3> QED
      BY <3>2, <2>2, <2>3, <1>1
      DEF Queue!PushExact, Queue!Fits, Queue!Result, Result
  <2>4. CASE FreeSpace(b) < Len(data) /\ Refuse(b, "refused")
    <3>1. Held' = Held /\ Len(buf') = Len(buf) /\ ret' = Result("refused", <<>>)
      BY <2>1, <2>4, RefuseKeeps
    <3>2. ~(Size + Len(data) <= Len(buf))
      <4> HIDE DEF b
      <4> QED
        BY <2>1, <2>2, <2>4 DEF FreeSpace, Sound
    <3> QED
      BY <3>1, <3>2, <1>1
      DEF Queue!PushExact, Queue!Fits, Queue!Refuse, Queue!Result, Result
  <2> QED
    BY <1>2, <2>3, <2>4 DEF PushExact
<1>3. ASSUME NEW data \in Chunks, PushForce(data) PROVE Queue!PushForce(data)
  <2> DEFINE b == MakeRoom(Len(data))
  <2>1. data \in Seq(Bytes) /\ Len(data) \in Nat
    BY ChunkIsSeq
  <2>2. /\ Sound(b)
        /\ Len(b.buf) = Len(buf)
        /\ b.tail - b.head = Size
        /\ \A i \in 1 .. Size : b.buf[b.head + i] = buf[head + i]
        /\ FreeSpace(b) >= Len(data) <=> Size + Len(data) <= Len(buf)
        /\ FreeSpace(b) < Len(data) => b.tail = Size
    BY <2>1, MakeRoomSound, MakeRoomHolds
  <2>3. CASE FreeSpace(b) >= Len(data) /\ Store(b, b.buf, data)
    <3> HIDE DEF b
    <3>1. /\ b.tail + Len(data) <= Len(b.buf)
          /\ b.buf \in Seq(Bytes)
          /\ InitialSize <= Len(b.buf)
          /\ Len(b.buf) <= MaxSize
      BY <2>1, <2>2, <2>3 DEF FreeSpace, Sound
    <3>2. Held' = Held \o data /\ Len(buf') = Len(buf) /\ ret' = Result("done", data)
      BY <3>1, <2>1, <2>2, <2>3, StoreAppends
    <3> QED
      BY <3>2, <2>2, <2>3, <1>1
      DEF Queue!PushForce, Queue!Fits, Queue!Result, Result
  <2>4. CASE /\ FreeSpace(b) < Len(data)
             /\ b.tail + Len(data) <= MaxSize
             /\ Store(b, Grown(b, Len(data)), data)
    <3> DEFINE g == Grown(b, Len(data))
    <3> HIDE DEF b
    <3>1. g \in Seq(Bytes) /\ Len(g) = b.tail + Len(data)
      BY <2>1, <2>2, GrownIsSeq
    <3>2. InitialSize <= Len(g) /\ Len(g) <= MaxSize
      <4>1. /\ Len(b.buf) \in Nat /\ b.tail \in Nat
            /\ InitialSize <= Len(b.buf)
            /\ Len(b.buf) - b.tail < Len(data)
            /\ b.tail + Len(data) <= MaxSize
        BY <2>2, <2>4 DEF FreeSpace, Sound
      <4>2. Len(g) = b.tail + Len(data)
        BY <3>1
      <4> HIDE DEF g
      <4> QED
        BY <4>1, <4>2, <2>1, DataBufferAssumption
    <3>3. \A i \in 1 .. Size : g[b.head + i] = buf[head + i]
      <4> SUFFICES ASSUME NEW i \in 1 .. Size PROVE g[b.head + i] = buf[head + i]
        OBVIOUS
      <4>1. /\ b.head + i \in 1 .. (b.tail + Len(data))
            /\ b.head + i <= Len(b.buf)
        BY <2>1, <2>2, <1>1 DEF Sound
      <4>2. g[b.head + i] = b.buf[b.head + i]
        BY <4>1 DEF Grown
      <4> QED
        BY <4>2, <2>2
    <3> HIDE DEF g
    <3>4. Store(b, g, data)
      BY <2>4 DEF g
    <3>5. Held' = Held \o data /\ Len(buf') = Len(g) /\ ret' = Result("done", data)
      BY <3>1, <3>2, <3>3, <3>4, <2>1, <2>2, StoreAppends
    <3>6. /\ ~(Size + Len(data) <= Len(buf))
          /\ Len(g) = Size + Len(data)
          /\ Size + Len(data) <= MaxSize
      BY <3>1, <3>2, <2>1, <2>2, <2>4, <1>1 DEF FreeSpace, Sound
    <3> QED
      BY <3>5, <3>6, <1>1
      DEF Queue!PushForce, Queue!Fits, Queue!Result, Result
  <2>5. CASE /\ FreeSpace(b) < Len(data)
             /\ b.tail + Len(data) > MaxSize
             /\ Refuse(b, "thrown")
    <3>1. Held' = Held /\ Len(buf') = Len(buf) /\ ret' = Result("thrown", <<>>)
      BY <2>1, <2>5, RefuseKeeps
    <3>2. ~(Size + Len(data) <= Len(buf)) /\ Size + Len(data) > MaxSize
      <4> HIDE DEF b
      <4> QED
        BY <2>1, <2>2, <2>5, <1>1 DEF FreeSpace, Sound
    <3> QED
      BY <3>1, <3>2, <1>1
      DEF Queue!PushForce, Queue!Fits, Queue!Refuse, Queue!Result, Result
  <2> QED
    BY <1>3, <2>3, <2>4, <2>5 DEF PushForce
<1>4. ASSUME NEW data \in Chunks, PushSome(data) PROVE Queue!PushSome(data)
  <2> DEFINE b == MakeRoom(Len(data))
             n == Min2(Len(data), FreeSpace(b))
  <2>1. data \in Seq(Bytes) /\ Len(data) \in Nat
    BY ChunkIsSeq
  <2>2. /\ Sound(b)
        /\ Len(b.buf) = Len(buf)
        /\ b.tail - b.head = Size
        /\ \A i \in 1 .. Size : b.buf[b.head + i] = buf[head + i]
        /\ FreeSpace(b) >= Len(data) <=> Size + Len(data) <= Len(buf)
        /\ FreeSpace(b) < Len(data) => FreeSpace(b) = Len(buf) - Size
    BY <2>1, MakeRoomSound, MakeRoomHolds
  <2>3. Store(b, b.buf, SubSeq(data, 1, n))
    BY <1>4 DEF PushSome
  <2> HIDE DEF b
  <2>4. /\ n \in Nat /\ n <= Len(data) /\ b.tail + n <= Len(b.buf)
        /\ n = IF Size + Len(data) <= Len(buf) THEN Len(data) ELSE Len(buf) - Size
    <3>1. /\ Len(b.buf) \in Nat /\ b.tail \in Nat /\ b.tail <= Len(b.buf)
          /\ FreeSpace(b) = Len(b.buf) - b.tail
      BY <2>2 DEF Sound, FreeSpace
    <3>2. CASE FreeSpace(b) >= Len(data)
      <4>1. n = Len(data)
        BY <3>1, <3>2, <2>1 DEF Min2
      <4> QED
        BY <4>1, <3>1, <3>2, <2>1, <2>2
    <3>3. CASE FreeSpace(b) < Len(data)
      <4>1. n = FreeSpace(b) /\ FreeSpace(b) = Len(buf) - Size
        BY <3>1, <3>3, <2>1, <2>2 DEF Min2
      <4>2. ~(FreeSpace(b) >= Len(data))
        BY <3>1, <3>3, <2>1
      <4>3. ~(Size + Len(data) <= Len(buf))
        BY <4>2, <2>2
      <4> HIDE DEF n
      <4>4. n \in Nat /\ n <= Len(data) /\ b.tail + n <= Len(b.buf)
        BY <4>1, <3>1, <3>3, <2>1
      <4> QED
        BY <4>1, <4>3, <4>4
    <3> QED
      BY <3>1, <3>2, <3>3, <2>1
  <2> HIDE DEF n
  <2>5. SubSeq(data, 1, n) \in Seq(Bytes) /\ Len(SubSeq(data, 1, n)) = n
    BY <2>1, <2>4, PrefixIsSeq
  <2>6. /\ b.buf \in Seq(Bytes)
        /\ InitialSize <= Len(b.buf)
        /\ Len(b.buf) <= MaxSize
        /\ b.tail + Len(SubSeq(data, 1, n)) <= Len(b.buf)
    BY <2>2, <2>4, <2>5 DEF Sound
  <2>7. /\ Held' = Held \o SubSeq(data, 1, n)
        /\ Len(buf') = Len(buf)
        /\ ret' = Result("done", SubSeq(data, 1, n))
    BY <2>2, <2>3, <2>5, <2>6, StoreAppends
  <2> QED
    BY <2>4, <2>7, <1>1 DEF Queue!PushSome, Queue!Fits, Queue!Result, Result
<1>5. ASSUME NEW data \in Chunks, OverwriteTail(data) PROVE Queue!OverwriteTail(data)
  <2>1. data \in Seq(Bytes) /\ Len(data) \in Nat /\ Size >= Len(data)
    BY <1>5, ChunkIsSeq DEF OverwriteTail
  <2>2. CASE /\ Len(buf) - tail >= Len(data)
             /\ buf' = Write(buf, tail - Len(data), data)
             /\ ret' = Result("done", data)
             /\ UNCHANGED <<head, tail>>
    <3>1. /\ Held' = SubSeq(Held, 1, Len(Held) - Len(data)) \o data
          /\ Len(buf') = Len(buf)
      BY <2>1, <2>2, <1>0, OverwriteReplaces
    <3>2. Size + Len(data) <= Len(buf)
      BY <2>1, <2>2, <1>1 DEF Inv, TypeOK, Size
    <3> QED
      BY <3>1, <3>2, <2>1, <2>2, <1>1
      DEF Queue!OverwriteTail, Queue!Fits, Queue!Result, Result
  <2>3. CASE ret' = Result("refused", <<>>) /\ UNCHANGED <<buf, head, tail>>
    <3>1. Held' = Held
      BY <2>3, HeldIsContents
    <3> QED
      BY <3>1, <2>3 DEF Queue!OverwriteTail, Queue!Refuse, Queue!Result, Result
  <2> QED
    BY <1>5, <2>2, <2>3 DEF OverwriteTail
<1>6. ASSUME NEW n \in 0 .. MaxChunk, PullSome(n) PROVE Queue!PullSome(n)
  <2> DEFINE m == Min2(n, Size)
  <2>1. m \in Nat /\ m <= Size /\ m = IF n < Size THEN n ELSE Size
    BY <1>1 DEF Min2
  <2>2. Consume(m) /\ ret' = Result("done", Slice(head, head + m))
    BY <1>6 DEF PullSome
  <2> HIDE DEF m
  <2>3. /\ Held' = SubSeq(Held, m + 1, Len(Held))
        /\ ret' = Result("done", SubSeq(Held, 1, m))
        /\ Len(buf') = Len(buf)
    BY <2>1, <2>2, ConsumeTakes
  <2> QED
    BY <2>1, <2>3, <1>1 DEF Queue!PullSome, Queue!Take, Queue!Result, Result
<1>7. ASSUME NEW n \in 0 .. MaxChunk, PullExact(n) \/ DiscardExact(n)
      PROVE  Queue!PullExact(n)
  <2>1. CASE /\ Empty \/ Size < n
             /\ ret' = Result("refused", <<>>)
             /\ UNCHANGED <<buf, head, tail>>
    <3>1. Held' = Held
      BY <2>1, HeldIsContents
    <3>2. Empty => Held = <<>>
      <4>1. Empty => Size = 0
        BY DEF Empty, Size, Inv, TypeOK
      <4>2. Held \in Seq(Bytes)
        BY HeldIsSeq
      <4> QED
        BY <4>1, <4>2, <1>1
    <3>3. n > Len(Held) \/ Held = <<>>
      BY <3>2, <2>1, <1>1
    <3> QED
      BY <3>1, <3>3, <2>1
      DEF Queue!PullExact, Queue!Refuse, Queue!Result, Result
  <2>2. CASE /\ Size >= n
             /\ ret' = Result("done", Slice(head, head + n))
             /\ Consume(n)
    <3>1. n \in Nat /\ n <= Size
      BY <2>2, <1>1
    <3>2. /\ Held' = SubSeq(Held, n + 1, Len(Held))
          /\ ret' = Result("done", SubSeq(Held, 1, n))
          /\ Len(buf') = Len(buf)
      BY <3>1, <2>2, ConsumeTakes
    <3> QED
      BY <3>1, <3>2, <1>1 DEF Queue!PullExact, Queue!Take, Queue!Result, Result
  <2> QED
    BY <1>7, <2>1, <2>2 DEF PullExact, DiscardExact
<1>8. ASSUME Clear PROVE Queue!Clear
  <2>1. Held' \in Seq(Bytes) /\ Len(Held') = 0
    BY <1>0, <1>8, HeldIsSeqNext DEF Clear
  <2>2. Held' = <<>>
    BY <2>1
  <2> QED
    BY <2>2, <1>8 DEF Clear, Queue!Clear, Queue!Result, Result
<1>9. CASE UNCHANGED vars
  <2>1. Held' = Held
    BY <1>9, HeldIsContents DEF vars
  <2> QED
    BY <2>1, <1>9 DEF vars, Queue!vars
<1>10. Chunks = Queue!Chunks
  BY DEF Chunks, Queue!Chunks
<1>11. CASE Next
  <2>1. CASE \E data \in Chunks : PushExact(data) \/ PushForce(data)
                                  \/ PushSome(data) \/ OverwriteTail(data)
    BY <2>1, <1>2, <1>3, <1>4, <1>5, <1>10 DEF Queue!Next
  <2>2. CASE \E n \in 0 .. MaxChunk : PullSome(n) \/ PullExact(n) \/ DiscardExact(n)
    BY <2>2, <1>6, <1>7 DEF Queue!Next
  <2>3. CASE Clear
    BY <2>3, <1>8 DEF Queue!Next
  <2> QED
    BY <1>11, <2>1, <2>2, <2>3 DEF Next
<1> QED
  BY <1>9, <1>11

\* For every size of the vector and of the chunks DataBuffer is a queue of
\* bytes: nothing held is lost, altered or reordered, a push is refused or
\* throws only when there is no room, and what is pulled is the oldest.
THEOREM DataBufferRefinesQueue == Spec => ImplementsQueue
<1>1. Spec => []Inv
  BY InitSound, NextSound, PTL DEF Spec
<1> QED
  BY <1>1, InitQueue, NextQueue, PTL DEF Spec, ImplementsQueue, Queue!Spec
=============================================================================
